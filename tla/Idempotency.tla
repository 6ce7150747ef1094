---------------------------- MODULE Idempotency -----------------------------
(***************************************************************************)
(* POST /payments under an Idempotency-Key: the dependency                 *)
(* check_idempotency runs on the event loop and looks the key up or        *)
(* inserts it, create_payment runs in a worker thread and commits twice,   *)
(* first the payment with the reserved record, then the response to be     *)
(* replayed.  Clients retry at any time, and the process may crash.        *)
(*                                                                         *)
(* The INSERT of a key that an open transaction has inserted blocks, and   *)
(* with it the event loop, until that transaction ends.                    *)
(*                                                                         *)
(* Abstractions: a body stands for its hash, a stored response for the     *)
(* payment it shows.  A request with a body that fails validation rolls    *)
(* back like a throttled one and is left out; so is the expiry of records, *)
(* which the code stores and never reads.                                  *)
(***************************************************************************)
EXTENDS Naturals, FiniteSets

CONSTANTS
  Merchants, Keys, Bodies,
  Payments,     \* payment ids
  NoPayment,    \* NULL in response_body
  Requests,     \* requests in progress at the same time
  Idle,         \* the event loop runs none of them
  MaxCrashes    \* bound on process crashes

ASSUME NoPaymentAssumption == NoPayment \notin Payments
ASSUME IdleAssumption == Idle \notin Requests
ASSUME MaxCrashesAssumption == MaxCrashes \in Nat

VARIABLES
  payments,  \* payments[p]: what the request that created p asked for
  record,    \* record[k]: the committed row of idempotency_keys
  attempt,   \* attempt[r]: the request r is serving
  loop,      \* the request that has the event loop, or Idle
  answers,   \* the 201 answers clients received
  crashes

vars == <<payments, record, attempt, loop, answers, crashes>>

Asked == [merchant : Merchants, key : Keys, body : Bodies]
NotCreated == [merchant |-> "none"]
NoRecord == [merchant |-> "none"]
Free == [phase |-> "free"]

Record == [merchant : Merchants, body : Bodies, response : Payments \cup {NoPayment}]
Attempt == [asked : Asked, payment : Payments \cup {NoPayment},
            inserted : BOOLEAN,  \* its transaction holds a record of its key
            phase : {"inserting", "ready", "working", "created", "saved",
                     "unwinding", "closing"}]

Active(r) == attempt[r] # Free
InPhase(r, phase) == Active(r) /\ attempt[r].phase = phase
KeyOf(r) == attempt[r].asked.key

\* Faulty variant: the merchant is left out of the filter.
FoundForAnybody(asked) == record[asked.key] # NoRecord

\* get_idempotency_record filters by merchant and key.
Found(asked) ==
  /\ record[asked.key] # NoRecord
  /\ record[asked.key].merchant = asked.merchant

\* Faulty variants: the hash is not compared; no response is ever recognised.
AnyBody(asked) == TRUE
NeverCompleted(asked) == FALSE

SameBody(asked) == record[asked.key].body = asked.body
Completed(asked) == record[asked.key].response # NoPayment

Start(asked, phase) ==
  [asked |-> asked, payment |-> NoPayment, inserted |-> FALSE, phase |-> phase]

Enter(r, phase) == attempt' = [attempt EXCEPT ![r].phase = phase]
Leave(r) == attempt' = [attempt EXCEPT ![r] = Free]

Init ==
  /\ payments = [p \in Payments |-> NotCreated]
  /\ record = [k \in Keys |-> NoRecord]
  /\ attempt = [r \in Requests |-> Free]
  /\ loop = Idle
  /\ answers = {}
  /\ crashes = 0
-----------------------------------------------------------------------------
\* Same key, same body, completed: the stored response is replayed.
Replay(asked) ==
  /\ loop = Idle
  /\ Found(asked) /\ SameBody(asked) /\ Completed(asked)
  /\ answers' = answers \cup {[asked |-> asked, payment |-> record[asked.key].response]}
  /\ UNCHANGED <<payments, record, attempt, loop, crashes>>

\* Same key, same body, not completed: the route goes on with the record.  With
\* another body the request is refused and nothing changes.
Resume(r, asked) ==
  /\ loop = Idle
  /\ ~Active(r)
  /\ Found(asked) /\ SameBody(asked) /\ ~Completed(asked)
  /\ attempt' = [attempt EXCEPT ![r] = Start(asked, "ready")]
  /\ UNCHANGED <<payments, record, loop, answers, crashes>>

\* Faulty variant: the dependency runs in a thread, without the loop.
BeginInsertInThread(r, asked) ==
  /\ ~Active(r)
  /\ ~Found(asked)
  /\ loop' = r
  /\ attempt' = [attempt EXCEPT ![r] = Start(asked, "inserting")]
  /\ UNCHANGED <<payments, record, answers, crashes>>

\* No record of this merchant and key: the request goes on to insert one and
\* keeps the loop while the database does not answer.
BeginInsert(r, asked) ==
  /\ loop = Idle
  /\ ~Active(r)
  /\ ~Found(asked)
  /\ loop' = r
  /\ attempt' = [attempt EXCEPT ![r] = Start(asked, "inserting")]
  /\ UNCHANGED <<payments, record, answers, crashes>>

\* Faulty variant: the key column is not unique.
KeyIsNotUnique(r) == TRUE

\* The key is unique: an INSERT waits for the transaction that inserted it.
KeyIsFree(r) ==
  \A q \in Requests \ {r} : Active(q) /\ attempt[q].inserted => KeyOf(q) # KeyOf(r)

Reserve(r) ==
  /\ loop = r
  /\ KeyIsFree(r)
  /\ record[KeyOf(r)] = NoRecord
  /\ attempt' = [attempt EXCEPT ![r].phase = "ready", ![r].inserted = TRUE]
  /\ loop' = Idle
  /\ UNCHANGED <<payments, record, answers, crashes>>

\* Somebody's record of the key is committed: an IntegrityError, answered 500.
Conflict(r) ==
  /\ loop = r
  /\ record[KeyOf(r)] # NoRecord
  /\ Leave(r)
  /\ loop' = Idle
  /\ UNCHANGED <<payments, record, answers, crashes>>

\* The loop hands the sync route to a worker thread.
Dispatch(r) ==
  /\ loop = Idle
  /\ InPhase(r, "ready")
  /\ Enter(r, "working")
  /\ UNCHANGED <<payments, record, loop, answers, crashes>>

\* The limiter wraps the route, behind check_idempotency: its exception takes
\* the reservation back, once the loop gets to close the session.
Throttle(r) ==
  /\ InPhase(r, "working")
  /\ Enter(r, "unwinding")
  /\ UNCHANGED <<payments, record, loop, answers, crashes>>

SubmitClose(r) ==
  /\ loop = Idle
  /\ InPhase(r, "unwinding")
  /\ Enter(r, "closing")
  /\ UNCHANGED <<payments, record, loop, answers, crashes>>

\* Faulty variant: the session is closed on the event loop.
RollbackOnLoop(r) ==
  /\ loop = Idle
  /\ InPhase(r, "closing")
  /\ Leave(r)
  /\ UNCHANGED <<payments, record, loop, answers, crashes>>

Rollback(r) ==
  /\ InPhase(r, "closing")
  /\ Leave(r)
  /\ UNCHANGED <<payments, record, loop, answers, crashes>>

\* Faulty variant: the payment is committed without the reserved record.
CommitPaymentAlone(r, p) ==
  /\ InPhase(r, "working")
  /\ payments[p] = NotCreated
  /\ payments' = [payments EXCEPT ![p] = attempt[r].asked]
  /\ attempt' = [attempt EXCEPT ![r].phase = "created", ![r].payment = p,
                                ![r].inserted = FALSE]
  /\ UNCHANGED <<record, loop, answers, crashes>>

\* The first commit: the payment, with the record if this request inserted it.
CommitPayment(r, p) ==
  LET a == attempt[r]
  IN  /\ InPhase(r, "working")
      /\ payments[p] = NotCreated
      /\ payments' = [payments EXCEPT ![p] = a.asked]
      /\ record' = IF a.inserted
                     THEN [record EXCEPT ![a.asked.key] =
                             [merchant |-> a.asked.merchant, body |-> a.asked.body,
                              response |-> NoPayment]]
                     ELSE record
      /\ attempt' = [attempt EXCEPT ![r].phase = "created", ![r].payment = p,
                                    ![r].inserted = FALSE]
      /\ UNCHANGED <<loop, answers, crashes>>

\* Faulty variant: save_idempotency_response forgets to commit.
CommitResponseLost(r) ==
  /\ InPhase(r, "created")
  /\ Enter(r, "saved")
  /\ UNCHANGED <<payments, record, loop, answers, crashes>>

\* The second commit: the response to be replayed.
CommitResponse(r) ==
  /\ InPhase(r, "created")
  /\ record' = [record EXCEPT ![KeyOf(r)].response = attempt[r].payment]
  /\ Enter(r, "saved")
  /\ UNCHANGED <<payments, loop, answers, crashes>>

Answer(r) ==
  /\ loop = Idle
  /\ InPhase(r, "saved")
  /\ answers' = answers \cup {[asked |-> attempt[r].asked, payment |-> attempt[r].payment]}
  /\ Leave(r)
  /\ UNCHANGED <<payments, record, loop, crashes>>

\* The process dies and starts again: open transactions are rolled back.
Crash ==
  /\ crashes < MaxCrashes
  /\ crashes' = crashes + 1
  /\ attempt' = [r \in Requests |-> Free]
  /\ loop' = Idle
  /\ UNCHANGED <<payments, record, answers>>

Next ==
  \/ \E asked \in Asked : Replay(asked)
  \/ \E r \in Requests :
       \/ \E asked \in Asked : Resume(r, asked) \/ BeginInsert(r, asked)
       \/ \E p \in Payments : CommitPayment(r, p)
       \/ Reserve(r) \/ Conflict(r) \/ Dispatch(r) \/ Throttle(r)
       \/ SubmitClose(r) \/ Rollback(r) \/ CommitResponse(r) \/ Answer(r)
  \/ Crash

\* Code that is not blocked runs on, and what the loop has to do it does if it
\* is idle again and again.
Fairness ==
  \A r \in Requests :
    /\ WF_vars(Reserve(r) \/ Conflict(r))
    /\ SF_vars(Dispatch(r) \/ SubmitClose(r) \/ Answer(r))
    /\ WF_vars(Throttle(r) \/ \E p \in Payments : CommitPayment(r, p))
    /\ WF_vars(Rollback(r) \/ CommitResponse(r))

Spec == Init /\ [][Next]_vars /\ Fairness
-----------------------------------------------------------------------------
\* Rows and requests keep their shape; the loop belongs to the inserting one.
TypeOK ==
  /\ payments \in [Payments -> {NotCreated} \cup Asked]
  /\ record \in [Keys -> {NoRecord} \cup Record]
  /\ attempt \in [Requests -> {Free} \cup Attempt]
  /\ \A r \in Requests : loop = r <=> InPhase(r, "inserting")
  /\ answers \subseteq [asked : Asked, payment : Payments]
  /\ crashes \in 0..MaxCrashes

\* A request past check_idempotency owns its key: it alone holds a reservation
\* that is not committed, or works under a committed record of its merchant and
\* body; a payment it created is the one it asked for.
RequestsOwnTheirKey ==
  \A r \in Requests :
    Active(r) /\ attempt[r].phase # "inserting" =>
      LET a == attempt[r]  row == record[KeyOf(r)]
      IN  /\ a.inserted =>
               /\ row = NoRecord
               /\ a.phase \notin {"created", "saved"}
               /\ \A q \in Requests : Active(q) /\ attempt[q].inserted /\ KeyOf(q) = KeyOf(r)
                                       => q = r
          /\ ~a.inserted =>
               row # NoRecord /\ row.merchant = a.asked.merchant /\ row.body = a.asked.body
          /\ a.phase \in {"created", "saved"} =>
               a.payment \in Payments /\ payments[a.payment] = a.asked

\* Every payment has the record of its key, with its merchant and body, and a
\* stored response shows a payment of its record.
RecordsMatchPayments ==
  /\ \A p \in Payments :
       payments[p] # NotCreated =>
         LET row == record[payments[p].key]
         IN  /\ row # NoRecord
             /\ row.merchant = payments[p].merchant /\ row.body = payments[p].body
  /\ \A k \in Keys :
       record[k] # NoRecord /\ record[k].response # NoPayment =>
         payments[record[k].response] =
           [merchant |-> record[k].merchant, key |-> k, body |-> record[k].body]

\* Whatever overlaps or crashes, a key stands for one merchant and one body:
\* no two payments created under a key differ in either (hash comparison,
\* unique key, reservation and payment committed together).
OneRequestPerKey ==
  \A p, q \in Payments :
    /\ payments[p] # NotCreated /\ payments[q] # NotCreated
    /\ payments[p].key = payments[q].key
    => payments[p] = payments[q]

\* Every 201 answer, replayed or not, shows a payment that was committed for
\* the very merchant, key and body the client sent.
AnswersAreReal ==
  \A a \in answers : payments[a.payment] = a.asked

\* A record without a response has a request on its way to store one, unless
\* the process crashed: no rejected, throttled or blocked request leaves a key
\* behind that is reserved and never completed.
ReservationsComplete ==
  \A k \in Keys :
    /\ crashes = 0
    /\ record[k] # NoRecord /\ record[k].response = NoPayment
    => \E r \in Requests : InPhase(r, "created") /\ KeyOf(r) = k

\* A completed key whose requests are all done, turned away or still inserting
\* stays that way: no retry creates a payment or replaces the response, also
\* across a crash (the replay of check_idempotency).
Quiet(k) ==
  /\ record[k] # NoRecord /\ record[k].response # NoPayment
  /\ \A r \in Requests :
       Active(r) /\ KeyOf(r) = k => attempt[r].phase \notin {"ready", "working", "created"}

CompletedKeysReplay ==
  [][\A k \in Keys :
       Quiet(k) =>
         /\ Quiet(k)' /\ record'[k] = record[k]
         /\ \A p \in Payments :
              payments[p] = NotCreated /\ payments'[p] # NotCreated => payments'[p].key # k]_vars

\* A request that blocks the event loop gives it back, unless the transaction
\* that inserted the key needs the loop to go on.
LoopReleased ==
  \A r \in Requests :
    loop = r ~> \/ loop = Idle
                \/ \E q \in Requests : /\ InPhase(q, "ready") \/ InPhase(q, "unwinding")
                                       /\ attempt[q].inserted

\* A retry replays "instead of creating a duplicate payment": a merchant's key
\* creates one payment.
OnePaymentPerKey ==
  \A p, q \in Payments :
    /\ payments[p] # NotCreated /\ payments[q] # NotCreated
    /\ payments[p].key = payments[q].key /\ payments[p].merchant = payments[q].merchant
    => p = q

\* The event loop, which every answer needs, is never occupied for good.
LoopKeepsRunning == []<>(loop = Idle)
=============================================================================
