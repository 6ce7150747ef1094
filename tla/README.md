# TLA+ models of the payment gateway simulator

Specifications of the gateway in `src/`, the TLC configurations that check them
on small instances, and proofs checked by TLAPS for every instance. The code is
a FastAPI application over PostgreSQL: routers authenticate and parse, services
decide and write through one SQLAlchemy session per request, a scheduler
redelivers webhooks.

## The system

| component | state | operations | interacts with |
|---|---|---|---|
| state machine (`services/state_machine.py`) | none | `can_transition`, `transition` | asked by the payment and the settlement service |
| payment service (`services/payment_service.py`, `processor_simulator.py`) | `payments`, `refunds` | create, authorize, capture, refund | calls the state machine, the ledger service and the simulated bank |
| ledger service (`services/ledger_service.py`) | `ledger_entries`, `wallets` | `record_capture`, `record_refund` | called by the payment service |
| settlement service (`services/settlement_service.py`) | `settlements`, `payments.settlement_id` | `create_settlement_batch` | writes ledger entries itself, leaves the wallet alone |
| routers and sessions (`routers/*.py`, `db/session.py`) | open transactions | commit, roll back on close | async handlers share the event loop, sync ones run in worker threads |
| idempotency (`middlewares/idempotency_middleware.py`, `services/idempotency_service.py`) | `idempotency_keys` | look up, reserve, store a response, replay | a dependency of `POST /payments`, in the same session |
| webhooks (`services/webhook_service.py`, `routers/webhook_router.py`) | `webhook_logs` | create a log, attempt a delivery, schedule a retry | after authorize and refund; awaits HTTP inside an open session |
| scheduler (`services/scheduler.py`) | none of its own | redrive the due logs every 30 s | the event loop, one transaction per pass |
| authentication (`middlewares/auth_middleware.py`, `utils/hmac_utils.py`) | none | look a row up by the key's prefix, compare hashes | a dependency of every route but registration |
| merchants (`routers/merchant_router.py`) | `merchants` | register | hands the key out once, in its answer |
| rate limiter (`middlewares/rate_limiter.py`) | counters of slowapi | count, refuse | around the routes that create payments and merchants |
| merchants' programs (not in `src/`) | what they called and were told | call, repeat, read answers | the schemas decide what they are told |

What is hard here is not the arithmetic but where a step ends:

* **Async handlers with blocking database calls.** `authorize`, `capture` and
  `refund` are coroutines that use a synchronous driver. Between two awaits they
  own the event loop, which serialises them; a database call that waits for a
  lock stops the whole process.
* **Sync handlers.** `POST /settlements/batch` and the route part of
  `POST /payments` run in worker threads and overlap with everything.
* **UPDATEs carry values, not conditions.** Whatever commits between a read and
  its write goes unnoticed.
* **Transactions that stay open.** A session is closed by `get_db`, which needs
  the event loop to get there and a thread to roll back; until then its locks hold.
* **Two commits in one request** (`POST /payments`, authorize, refund), with
  retries, crashes and other requests in between.
* **Calls repeated without an idempotency key**: everything but the creation of a
  payment; and answers that fail after the commit (`POST /settlements/batch`).
* **Statuses and amounts kept in several places**: status, `captured_amount`,
  refunds, ledger, wallet and settlement are written by different functions.

What makes each component correct: a payment moves along the transition map and
never gives back more than was collected; its ledger, wallet and settlement tell
the same story; requests in progress decide on what is still true when they
write; a key stands for one merchant, one body and one payment; the event loop is
given back; an event is not given up before the last attempt, and shown as delivered
only if it was; a repeated call takes effect once and
an answer stays true; a key opens its own account and no other.

## Modules

| module | models | extends |
|---|---|---|
| `StateMachine` | the transition map | |
| `PaymentContract` | what is promised about a payment: abstract, no tables | `StateMachine` |
| `PaymentService` | the tables, and every service call as one committed transaction | `StateMachine` |
| `Gateway` | the same calls made by concurrent HTTP requests, with their webhook logs | `PaymentService` |
| `Clients` | the same calls made over a network by programs that repeat them | `PaymentService` |
| `Idempotency` | `POST /payments` under an `Idempotency-Key` | |
| `DeliveryContract` | what is promised about a webhook: abstract, no writers | |
| `Webhooks` | delivery of webhooks, manual retries and the scheduler | |
| `Authentication` | registration of merchants, and requests with their keys | |
| `MCPaymentService`, `MCGateway`, `MCClients`, `MCIdempotency`, `MCWebhooks`, `MCAuthentication` | constants and symmetry for TLC | |
| `PaymentServiceProofs`, `ContractProofs`, `GatewayProofs`, `ClientsProofs`, `IdempotencyProofs`, `WebhooksProofs`, `AuthenticationProofs` | theorems | |
| `SumProofs` | what proofs need to know about sums over finite sets | |

### PaymentService

Variables are the tables: `payment` (a row per id, `"absent"` before its INSERT),
`refunds` (number and sum per payment, all the code reads of them), `ledger`
(totals per payment, account and side), `wallet`, `settlement`. The actions are
`CreatePayment`, `AuthorizePayment`, `CapturePayment`, `RefundPayment` and
`CreateSettlementBatch`. A guard is what the function checks before it raises;
a rejected call changes nothing and is no action. The operations are cut where
the concurrent module needs them: `RefundAccepted` and `RefundTarget` are the
decision of `refund_payment`, `WriteRefund` its writes; `UnsettledPayments` is
the query of a batch, `WriteBatch` its writes. The NULL of `captured_amount` is
0, since no request can capture 0 and the code tests the column with `or`. The
integer columns have a width (`MaxInt`): a write that does not fit is a failed
transaction.

`Init` is the database after `alembic upgrade head`: empty, or with payments
captured in full before the migration that added `captured_amount`, whose rows
have NULL there. `Gateway` needs them, because over HTTP no capture is ever
committed (see below).

The contract (`PaymentContract`) has four variables and no amounts asked for;
`ImplementsContract` maps status, collected money, refunded money and settled
payments onto it. `OverlappingSpec` is the contract with batches that come late:
what is left of it when requests overlap.

### Gateway

A handler takes `loop` when it reads (`Begin...`), keeps what it decided in
`request`, and writes in a later step (`Commit...`). It cannot write, and keeps the
loop, while a row of its own is locked by a capture whose transaction is open.
`authorize` and `refund` commit a second time: `Announce` reads the payment back,
commits a webhook log that names the status found there, and gives the loop up,
since the sending is awaited (`event` keeps the last such status of a payment;
what becomes of the log is `Webhooks`). A bank timeout has nothing to write and
only announces. The phases of an abandoned capture follow the code: the flushed
rows (`AbandonCapture`), the exception reaching `get_db`, which takes the
loop (`SubmitClose`), and the rollback in a thread (`Rollback`). A batch is two
steps of a worker thread, `ReadBatch` and `CommitBatch`, with no check in
between; like the creation of a payment (`ServeCreate`) it runs whoever has the loop. `Crash` forgets every request and what it had not committed.

The capture endpoint neither commits nor returns a payment, so `CapturePayment`
is never a step of this module: every collected payment of `Gateway` is one of
the rows of `Init`. The service layer with captures that take effect, as
the tests call it, is `PaymentService`.

### Clients

`call[c]` is one call of a merchant's program: what it asks, how many requests are
under way, the answers on their way back, what the program was told, and, as a
history, how often the call took effect. A program repeats while it has no answer
but server errors; requests and answers are delayed and lost, and a late
request is served also after the call has ended. `Serve...` is the whole
handler with the service call of `PaymentService`, in one step: `Gateway` has the
overlap. A capture that is accepted is rolled back and answered by an error. A
batch is committed and answered by an error, because `SettlementResponse` has a
required field the row lacks; the next request is refused for want of
unsettled payments, and this is how the call ends.

### Idempotency

`attempt[r]` follows a request through `check_idempotency` (lookup and INSERT on
the event loop), the limiter, the route in a worker thread with its two commits,
and the end. A row inserted by an open transaction is `inserted` there; an
INSERT of the same key blocks, together with the loop, until the transaction has
ended. `Crash` forgets all requests and keeps what was committed; the bound
`MaxCrashes` is the only cap on a counter. A request whose body fails validation
is refused behind `check_idempotency`, as a throttled one is (`Throttle`).

### Webhooks

`sending[h]` is a handler that has read a row and awaits the merchant: the one
that created the log (`CreateLog`) or a manual retry (`BeginRetry`). `pass` is the
scheduler's transaction: the rows it read at its start (`"due"`), those it has
changed in memory (`"unsaved"`), and those it has flushed and keeps locked until
it commits. All three senders write through
`Flushed`: `AfterAnswer` is the row as the code leaves it in memory, and the UPDATE
that SQLAlchemy makes of it names only the columns whose value differs from the
one that was read, so two writers can each leave a part of a row. A handler
whose row is locked by the pass keeps the event loop (`Block`), which the pass needs;
only a crash ends that. Retry dates pass with `Elapse`; the backoff's length plays no
part in any property.

A merchant may answer what the code cannot take: a body in a charset that does not
decode makes `response.text` raise before the flush, a NUL byte in the body makes
the flush fail. In a request either one ends the request (`Abandon`, which also stands
for what raises before the POST). The pass swallows both (`except Exception` in
`redrive_due_webhooks`):

* After an answer that cannot be read (`SkipInPass`, and `CommitUnread` for the last
  log) the attempt is counted in memory, while the status stays `retrying` and the
  date due. The next flush (`FlushAll`) or the commit writes the count, and the next
  run takes the log again.
* After a flush that failed (`LosePass`) the session serves no further query. Reading
  the next log's merchant, or the commit, raises outside of the handler, and all that
  the pass had flushed is rolled back, other merchants' logs included.

The history variables `posts` and `accepted` are what the merchants saw; `posts` is
counted up to `MaxAttempts`, for no verdict needs more. `MaxRetries` and `MaxCrashes`
cap the manual retries and crashes. Attempts are bounded by the code, except those
after which a pass meets an unreadable answer: `MaxUnread` caps these.

`DeliveryContract` is the same delivery without writers, copies and passes: a log
is announced once, its status changes with an answer of the merchant only, to
a verdict the answers so far justify. `ImplementsDelivery` maps the committed
status and the histories onto it. One step may show several verdicts, because
a pass commits those of all its logs at once; a verdict is not final, because
overlapping writers and manual retries do replace it.

### Authentication

`registration[t]` follows `create_merchant` through a worker thread: the key is
generated, the INSERT waits for open transactions with the same email (`Insert`) or
fails (`Refuse`), `Commit` makes the row, and `Answer` shows the key, which
nothing else ever does. `Candidates` is the lookup by prefix; the query takes any
one of these rows, so that with colliding prefixes a valid key may be refused.
`CreatePayment` and `ReachPayment` stand for all authenticated requests:
`_get_owned_payment` is the check of the owner. `Migrate` is the migration that
added the prefix: it leaves NULL in every row it finds, and NULL equals nothing.
A key stands for its hash; prefixes are a constant function, so that they may
collide.

## Runs

The amounts, ids, handlers and requests are as few as let the interesting cases
happen; the values of every constant are in the `.cfg`.

| run | what it shows |
|---|---|
| `service` | all sequences of service calls, two payments of one merchant and one of another, amounts 1 to 3, two settlements, a column that overflows at 6: types, audit trail, rows against statuses, refunds against statuses, a collected payment can be refunded, wallets, settlements, contract |
| `gateway` | two handlers, two batches and a crash over the two payments of one merchant: types and one running handler at a time, ledger, wallet and bank account as far as they survive repeated settlements, refunds within what was collected, the decisions of requests in progress still valid, webhook logs that name their own change and, without a crash, the last status; a handler gives the loop back unless an abandoned capture stands in its way (so no symmetry here) |
| `clients` | two callers of one merchant about one payment, amounts 1 and 2, two requests of a call under way at once: a repeated call takes effect once but for two exceptions, answers stay true, every call but a capture ends |
| `idempotency` | three requests of two merchants that chose the same key, two bodies, three payments, a crash: keys are consistent, answers real, reservations completed, a completed key with no request left at work replays for good, and a blocked INSERT goes on unless its key's owner needs the loop |
| `webhooks` | two logs, two handlers, a manual retry, three attempts, one crash, passes lost or meeting unreadable answers: nothing given up early or shown as delivered without being accepted; nothing out of attempts scheduled again, once no older copy of it is under way; a scheduled retry ends if the passes meet but finitely many answers they cannot take; the delivery contract |
| `authentication` | three merchants, emails and keys, two of which begin alike, two threads, two payments, two crashes and two runs of the migration: distinct accounts, payments reached with their owner's key only, keys that open their account and that arrive |

Two payments of one merchant let a batch and a wallet span several
payments, a third one (in `service`) stands next to them as somebody else's; amounts up to 3 allow
a partial capture, a partial refund of it and the rest; two settlements allow a
payment to be settled twice. Three requests allow an owner, one that resumes and one that
blocks. Two logs make a pass that holds one locked while it awaits the other; two handlers next to it
are enough for a stale write to meet a pass, and three attempts for a retry
between the first and the last. One manual retry next to the first sending makes two
copies of a row beside the pass's, and three unreadable answers take a log
past its last attempt while it stays due. Two callers about one payment, each with a late
request, let every kind of call meet every other one between its repetitions.
A second migration finds rows with a prefix, the first may find none; a second
crash may follow a registration that a first one had interrupted.

With two batch threads a payment may be settled twice, so `gateway` checks the ledger
up to the number of settlements (`AuditTrailUpToRepeats`), and `service`, where
batches are alone, checks it exactly (`AuditTrail`, `SettlementAddsUp`).

Six runs check what the documentation, a docstring or a test says of the code, and
end with a counterexample; PROJECT.json quotes each line.

| run | claim | what happens |
|---|---|---|
| `settles_what_was_captured` | the ledger moves only what was captured | a batch settles the authorized amount |
| `settled_once` | a settled payment is in no further batch | two overlapping batches take it twice |
| `capture_takes_effect` | the capture endpoint captures | it never commits |
| `retries_scheduled` | a failed delivery schedules a retry | overlapping manual retries leave a retrying log without a date |
| `one_payment_per_key` | a retry creates no duplicate | it does between the two commits |
| `idempotency_loop` | the API keeps running | a second request with a new key blocks the loop its owner needs |

More disagreements can be read off the actions and have no run of their own:
a batch debits the `merchant_wallet` account and not the cached wallet, which the
ledger's docstring says matches (`WalletAgainstLedger` says how far they are apart);
`CommitBatch` writes `settled` over a refund that committed after `ReadBatch` (the
README promises a check of every transition); `UnsettledPayments` never selects a
partially refunded payment (the README promises all captured ones); a second
`CommitResponse` replaces the response to be replayed; `Conflict` turns away a
merchant whose key another merchant has used; a handler that needs the rows of
an abandoned capture keeps the loop its cleanup needs (the exception in
`LoopReleased` of `Gateway`), and one that needs a row of an open pass keeps the loop
the pass needs (`Block`); and a crash during the first delivery leaves a log
`pending`, which no pass ever reads. The repository's README has failing deliveries
"abandoned after a maximum attempt count". A merchant that answers every retry with a
NUL byte is never given up: nothing of such a pass is kept, so that
the next one starts from the same count, and no other log of these passes gets on
either (`LosePass`; without its premise `RetriesEnd` fails). An answer that cannot be
read leaves a log due beyond the maximum (`CommitUnread`). And an event that
`send_webhook` has marked "permanently FAILED" becomes `retrying` again when a
sender with an older copy of the row is refused in turn (`Finish`), which is why
`OutOfAttempts` asks the copies to be out of attempts too. A refund whose payment a batch settles between
its two commits announces `payment.settled` (`AnnouncesOwnChange`), while captures and
settlements themselves create no event, which the repository's README promises for
every change of status; a crash between the two commits leaves a change unannounced.
Repeating the refund of exactly half a payment refunds the other half, and
repeating an authorization lets the bank decline what it has authorized
(the exceptions of `AppliedOnce`); every successful batch is answered by a 500. A
valid key may be refused when another one begins like it, since the query takes
either row, and always is when its row is older than the prefix
(`KeysOpenTheirAccount`). The repository's README also says that nothing
polls for due retries, which `services/scheduler.py` does.

Deadlock is not checked: a system whose ids are used up and whose payments are all
refunded or failed has nothing left to do, and what becomes of
the event loop is stated by the `Loop...` properties instead.

Definitions marked as faulty variants are used by no specification. Each is a
mistake one could make in the definition after it; put in its place, it makes the
property of the run fail, which shows that the property can.

## Fairness

* Weak fairness of the writes of a handler that has the loop, of a worker thread
  and of a rollback: running code and operating system threads go on. `Gateway`
  needs no more than this.
* Weak fairness of the scheduler, of time, and of the answer to a POST (httpx has a
  timeout) in `Webhooks`: there the loop is idle until it is blocked for good. Any
  answer will do, also one the pass cannot take: that these come to an end is
  no fairness of the code but a premise, stated in `RetriesEnd`.
* Strong fairness of what the event loop has scheduled in `Idempotency` (`SubmitClose`,
  `Dispatch`, `Answer`): the loop's ready queue is first in, first out, so a callback that is
  ready runs if the loop is idle again and again. The loop is taken and released
  infinitely often, which is why weak fairness would not do.
* In `Clients`, weak fairness of a program that repeats until it is told, and strong
  fairness of serving and receiving: a network that may lose every message
  but not all of them for ever. It is what retrying relies on.
* None for new calls, manual retries, batches, captures or crashes.

## Proofs

`PaymentServiceProofs` proves, for any finite set of payments, any owners,
amounts and column width, that `IInv` is inductive: `TypeOK` and, per payment,
`GoodPayment`, the conjunction of `RowMatchesStatus`, `RefundsMatch` and
`Audited`. None of these is inductive alone: that refunds stay within the
collected amount needs the row to agree with its status (a captured row with a
`captured_amount` above its amount would break it), and the audit trail needs
both. Each action changes one payment (`Frame` covers the others), a batch
changes several, each in the same way; `BatchSize` bounds its count. From `IInv`
follow `TypeCorrect`, `RowsAgreeWithStatus`, `LedgerIsAuditTrail`, `LedgerBalanced`,
`RefundsBounded` and `CanAlwaysRefund`.

Wallets and settlements are sums over payments, and a sum is a fold, defined by a
recursion that takes out elements in an order nobody knows. `SumProofs` shows without
induction that `SumFunctionOnSet(f, S)` is the number of units that `f` assigns to
the elements of `S` (`SumCountsUnits`): counting solves the recursion equation, and no
finite set is the least one in which two solutions differ (`LeastSet`). What a step does
to a sum then follows from the cardinalities of finite sets: an element can be taken
out, one summand changes, two functions add up, a set is split. With these lemmas
`WalletCorrect` shows that the balance of a wallet is what its payments brought in and
did not give back (each action changes `Net` of one payment by what it adds to the
wallet; `IInv` keeps `Net` from being negative), and `SettlementsAddUp` that a
settlement has the amount and the number of the payments that point to it. Two
consequences the code does not spell out: `RefundsAreCovered`, that no accepted refund
overdraws a wallet, although `refund_payment` never looks at the balance, or fails
for the width of its column; and `WalletMatchesLedger`, that the cached wallet and the
`merchant_wallet` account differ by exactly what was sent to the bank.

`ContractProofs` proves `Implementation`: initial states map to initial states and
each call to a step of the contract, or to a stutter for a bank timeout.

`GatewayProofs` proves `GInv`: `GatewayTypeOK`, `DecisionsHold` and
`RefundsWithinCaptured` (which follows the refund bound through batches that
overwrite statuses, where `GoodPayment` no longer holds). The core is
`HoldsFrame`: what one handler decided survives a step of another, because the
loop admits one running handler and an abandoned capture keeps its rows locked.
On top of it `AnnouncementsAreOwn`, `EventsKeepUp` and `LedgerUpToRepeats` follow a
payment between the two commits of its handler, its events and its entries.
`WalletsKeepUp` and `GatewayWalletMatchesLedger` are the statements above with
overlapping requests: the balance a refund has read is the stored one when it writes.
`BankAccountMatches` needs no order of the batches, for each adds the same sum to its
settlement and to the bank account, also the second one that takes a payment.
`NothingIsCollected` is the action property behind the counterexample of
`capture_takes_effect`: whatever the requests do, no payment is ever collected. From
it, and the wallet having had room for what there was, `NoWriteOverflows`: no refund
and no batch that was accepted fails for the width of a column.
`OverlapsKeepContract` is the refinement: every step of overlapping requests is one of the
contract, a stutter, or a batch that settles what was refunded or settled in the
meantime. Only batches break the contract; TLC finds that they do (`settled_once`).

`ClientsProofs` proves `AppliedOnce` and `AnswersStand` for any number of callers,
requests and merchants. Neither is inductive: that a repeated call was refused needs
the history of a call tied to the status of its payment, and that a refusal is for
good needs that no payment is captured while clients are served. The invariant
says both of every answer under way, not only of the one that was read.
`ClientsUseTheService` proves that served requests are calls of the service layer,
so that the contract (`ClientsKeepContract`) and the books (`ClientsKeepAccounts`) of
`PaymentService` are kept whatever the network repeats, delays and loses.

`IdempotencyProofs` proves `IInv`: types, `RequestsOwnTheirKey` and
`RecordsMatchPayments` with the answers; from it `OneRequestPerKey` and
`AnswersAreReal`, and with the reservations `NoKeyLeftBehind`, over any number of
requests, keys and crashes. `CompletedKeysStay`
is the action property `CompletedKeysReplay`: `QuietStep` shows per action that a
key at rest stays at rest.

`WebhooksProofs` proves `IInv`: types, `TruthfulCopies` and `CopiesAreTried`. A
committed row is overwritten with what others make of older copies, so the invariant
has to hold of every copy (committed, read by a handler, read, changed or flushed by
the pass); `FlushedIsTruthful` shows that a truthful copy flushed on a truthful row is
truthful again, and `GoodRows` says it of all rows a pass goes on with or
commits. `AbandonedStay` proves `AbandonedForGood` with one step per action, and
`DeliveryImplemented` the refinement: an answer to any of the three senders is
a step of the contract, with the verdicts the code commits by it; dates, blocks, crashes
and the beginnings of retries and passes are stutters.

`AuthenticationProofs` proves that registrations keep emails and keys distinct (an
open transaction holds its email, a fresh key is nobody's), and from it the rest.

The assumptions are the named `ASSUME`s of the modules (finitely many payments and
settlement ids, which are UUIDs, positive
amounts within the column, `NoSettlement`, `Idle` and `NoPayment` being nothing
else, at least one delivery attempt and one request, prefixes of keys). TLC evaluates them in every run.

Every safety property of the runs that pass is proved. Model-checked only is all
liveness (`LoopReleased`, `RetriesEnd`, `RetriesConclude`), which is out of the prover's
reach. Proved only are properties that follow from others
(`Balanced`, `WalletsCoverRefunds`, `WalletAgainstLedger`, `NothingCollected`, `WritesFit`,
`ImplementsOverlappingContract`) and have no run of their own.

## Not modelled

* Exceptions before the POST inside a pass of the scheduler: their causes (a malformed
  URL, a merchant without a secret) strike at the first send, where `Abandon` has
  them, and such a log never becomes retrying. Those the answer causes are modelled.
* The scheduler's branch for a merchant without `webhook_url`: no route removes one.
* The limiter's counters belong to slowapi; `Throttle` is its refusal.
* Expiry of keys: `expires_at` is stored and never read.
* Answers of the webhook endpoints: `WebhookLogResponse` requires `event`, which the
  row calls `event_type`, so that a list that is not empty and every manual retry are
  answered by a 500, the retry after its commit. `Webhooks` has the retries.
* Requests of `Clients` that overlap inside the server, or a crash between the two
  commits of one: these are `Gateway`'s, whose handlers are not told apart by caller.
* The signature of a webhook; a merchant from before `webhook_secret` has none, signing
  raises after the commit and the log stays pending (`Abandon` of `Webhooks`).
* Currency, receipts, descriptions, timestamps, `settlement.status`: no decision
  depends on them.
* Wiring, settings and logging keep no state.
* Migrations other than the two that leave rows the code must live with. Going back
  behind the migration of `captured_amount` and forth again forgets partial captures;
  the column `account` of the ledger is added without a default, so that this step
  fails on a table with rows; and one downgrade drops a constraint without a name and
  always fails. All are run once, by hand, with the service stopped.

## What could follow

Everything the code does to its state has an action in one of the modules. What is
left are compositions: `Gateway` with `Webhooks`, where a log is sent while the
handlers of the next change run, and `Clients` with `Idempotency`, where a caller
repeats the creation of a payment. Both multiply the states of runs that are near
their limits, and need a coarser model of one side first, for which
`DeliveryContract` is a start.
