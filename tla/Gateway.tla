------------------------------ MODULE Gateway -------------------------------
(***************************************************************************)
(* The operations of PaymentService called by concurrent HTTP requests, as *)
(* the routers run them.  authorize, capture and refund are async handlers *)
(* on the one event loop, with blocking database calls: from its first     *)
(* read to its last write such a handler has the loop to itself.  The      *)
(* settlement endpoint is a sync handler: it runs in a worker thread, and  *)
(* whatever commits between its read and its write goes unnoticed, for the *)
(* UPDATE carries the new values and no check of the old ones.             *)
(*                                                                         *)
(* The capture endpoint never commits and returns no payment.  Its flushed *)
(* rows stay locked until get_db closes the session, and get_db needs the  *)
(* event loop to get there (unwinding) and a thread to roll back (closing).*)
(*                                                                         *)
(* authorize and refund commit twice: the change, and then a webhook log   *)
(* whose event names the status of the payment as it is read back in       *)
(* between (announcing).  The process may crash anywhere.                  *)
(*                                                                         *)
(* Left to other modules: idempotency keys, the delivery of the logs.  The *)
(* row locks of transactions that run to their commit without the loop are *)
(* not modelled, whoever waits for them gets them.                         *)
(***************************************************************************)
EXTENDS PaymentService

CONSTANTS
  Handlers,      \* requests served on the event loop at the same time
  BatchThreads,  \* worker threads serving POST /settlements/batch
  Idle,          \* the loop runs no handler
  MaxCrashes     \* bound on process crashes

ASSUME LoopAssumption == Idle \notin Handlers
ASSUME CrashesAssumption == MaxCrashes \in Nat

VARIABLES
  loop,      \* the handler that has the event loop, or Idle
  request,   \* request[h]: what handler h has read and is about to write
  selected,  \* selected[t]: the payments thread t has read, {} when it is free
  event,     \* event[p]: the status in the last webhook log of p, or "none"
  crashes

gatewayVars == <<payment, refunds, ledger, wallet, settlement, loop, request, selected,
                 event, crashes>>

Free == [op |-> "none"]
Ops == {"authorize", "capture", "refund"}
Request == [op : Ops, payment : Payments, target : PaymentStatus \cup {"timeout"},
            amount : 0..MaxInt, balance : IntColumn,
            phase : {"running", "announcing", "unwinding", "closing"}]

\* What the handler of an accepted request carries to its writes.  After a
\* timeout of the bank there is nothing to write.
Accepted(op, p, target, amt) ==
  [op |-> op, payment |-> p, target |-> target, amount |-> amt,
   balance |-> wallet[Owner[p]].balance,
   phase |-> IF target = "timeout" THEN "announcing" ELSE "running"]

InPhase(phase) == {h \in Handlers : request[h] # Free /\ request[h].phase = phase}

\* The rows that the request's transaction locks by an UPDATE.  A wallet that
\* does not exist yet is inserted, which locks nobody out.
RowsOf(r) ==
  {<<"payment", r.payment>>} \cup
    {<<"wallet", m>> : m \in {n \in Merchants : /\ n = Owner[r.payment]
                                              /\ wallet[n].exists
                                              /\ r.op # "authorize"}}

\* Locked by a capture whose transaction is still open.
LockedRows == UNION {RowsOf(request[h]) : h \in InPhase("unwinding") \cup InPhase("closing")}

GatewayInit ==
  /\ Init
  /\ loop = Idle
  /\ request = [h \in Handlers |-> Free]
  /\ selected = [t \in BatchThreads |-> {}]
  /\ event = [p \in Payments |-> "none"]
  /\ crashes = 0
-----------------------------------------------------------------------------
\* The row is new, nobody else can know it: its transaction is one step of a
\* worker thread, whoever has the loop.
ServeCreate(p, amt) ==
  /\ CreatePayment(p, amt)
  /\ UNCHANGED <<loop, request, selected, event, crashes>>

\* Faulty variant: handlers run in threads and overlap.
BeginInThread(h, r) ==
  /\ request[h] = Free
  /\ request' = [request EXCEPT ![h] = r]
  /\ UNCHANGED <<tables, loop, selected, event, crashes>>

\* A handler takes the loop, reads the payment and the wallet and decides.  A
\* request the service rejects changes nothing and is not represented.
Begin(h, r) ==
  /\ loop = Idle
  /\ request[h] = Free
  /\ loop' = h
  /\ request' = [request EXCEPT ![h] = r]
  /\ UNCHANGED <<tables, selected, event, crashes>>

BeginAuthorize(h, p, outcome) ==
  /\ payment[p].status # "absent"
  /\ outcome = "timeout" \/ CanTransition(payment[p].status, outcome)
  /\ Begin(h, Accepted("authorize", p, outcome, 0))

BeginCapture(h, p, requested) ==
  /\ CaptureAccepted(p, requested)
  /\ Begin(h, Accepted("capture", p, "captured", CaptureAmount(p, requested)))

BeginRefund(h, p, amt) ==
  /\ RefundAccepted(p, amt)
  /\ Begin(h, Accepted("refund", p, RefundTarget(p, amt), amt))

\* The running handler writes once nobody holds its rows.  Until then it blocks
\* inside the database driver and keeps the loop.
Writes(h, op) ==
  /\ h \in InPhase("running")
  /\ request[h].op = op
  /\ RowsOf(request[h]) \cap LockedRows = {}
  /\ UNCHANGED <<selected, event, crashes>>

Enter(h, phase) == request' = [request EXCEPT ![h].phase = phase]
Leave(h) == request' = [request EXCEPT ![h] = Free]

\* Faulty variant: the handler awaits something after its first commit.
CommitAuthorizeAndAwait(h) ==
  /\ Writes(h, "authorize")
  /\ payment' = [payment EXCEPT ![request[h].payment].status = request[h].target]
  /\ Enter(h, "announcing")
  /\ loop' = Idle
  /\ UNCHANGED <<refunds, ledger, wallet, settlement>>

CommitAuthorize(h) ==
  /\ Writes(h, "authorize")
  /\ payment' = [payment EXCEPT ![request[h].payment].status = request[h].target]
  /\ Enter(h, "announcing")
  /\ UNCHANGED <<refunds, ledger, wallet, settlement, loop>>

\* Faulty variant: a refund creates no webhook log.
CommitRefundSilently(h) ==
  LET r == request[h]
  IN  /\ Writes(h, "refund")
      /\ WriteRefund(r.payment, r.amount, r.target, r.balance)
      /\ Leave(h)
      /\ loop' = Idle

CommitRefund(h) ==
  LET r == request[h]
  IN  /\ Writes(h, "refund")
      /\ WriteRefund(r.payment, r.amount, r.target, r.balance)
      /\ Enter(h, "announcing")
      /\ UNCHANGED loop

\* The payment is read back, a log is committed that names its status as it is
\* by now, and the loop is free while the log is sent (module Webhooks).
Announce(h) ==
  LET p == request[h].payment
  IN  /\ h \in InPhase("announcing")
      /\ event' = [event EXCEPT ![p] = payment[p].status]
      /\ Leave(h)
      /\ loop' = Idle
      /\ UNCHANGED <<tables, selected, crashes>>

\* capture_payment has flushed its rows, the handler returns without a commit
\* and the missing response body turns into an exception.
AbandonCapture(h) ==
  /\ Writes(h, "capture")
  /\ Enter(h, "unwinding")
  /\ loop' = Idle
  /\ UNCHANGED tables

\* The exception reaches get_db, which hands db.close to a thread.
SubmitClose(h) ==
  /\ loop = Idle
  /\ h \in InPhase("unwinding")
  /\ Enter(h, "closing")
  /\ UNCHANGED <<tables, loop, selected, event, crashes>>

\* Faulty variant: the session is closed on the event loop.
RollbackOnLoop(h) ==
  /\ loop = Idle
  /\ h \in InPhase("closing")
  /\ Leave(h)
  /\ UNCHANGED <<tables, loop, selected, event, crashes>>

\* The thread rolls back: the flushed rows vanish with their locks.
Rollback(h) ==
  /\ h \in InPhase("closing")
  /\ Leave(h)
  /\ UNCHANGED <<tables, loop, selected, event, crashes>>

\* A thread reads the unsettled payments, whoever has the loop; with none of them
\* it answers 400.
ReadBatch(t, m) ==
  /\ selected[t] = {}
  /\ UnsettledPayments(m) # {}
  /\ selected' = [selected EXCEPT ![t] = UnsettledPayments(m)]
  /\ UNCHANGED <<tables, loop, request, event, crashes>>

\* The sum always fits: the wallet has held at least as much since the payments
\* were captured.
CommitBatch(t, s) ==
  /\ selected[t] # {}
  /\ WriteBatch(s, selected[t])
  /\ selected' = [selected EXCEPT ![t] = {}]
  /\ UNCHANGED <<loop, request, event, crashes>>

\* The process dies and starts again: what was not committed is gone, and so is
\* an event whose log was not written yet.
Crash ==
  /\ crashes < MaxCrashes
  /\ crashes' = crashes + 1
  /\ loop' = Idle
  /\ request' = [h \in Handlers |-> Free]
  /\ selected' = [t \in BatchThreads |-> {}]
  /\ UNCHANGED <<tables, event>>

Finish(h) == CommitAuthorize(h) \/ CommitRefund(h) \/ Announce(h) \/ AbandonCapture(h)

GatewayNext ==
  \/ \E p \in Payments, amt \in Amounts : ServeCreate(p, amt)
  \/ \E h \in Handlers :
       \/ \E p \in Payments :
            \/ \E outcome \in BankOutcomes : BeginAuthorize(h, p, outcome)
            \/ \E requested \in Amounts \cup {0} : BeginCapture(h, p, requested)
            \/ \E amt \in Amounts : BeginRefund(h, p, amt)
       \/ Finish(h) \/ SubmitClose(h) \/ Rollback(h)
  \/ \E t \in BatchThreads :
       \/ \E m \in Merchants : ReadBatch(t, m)
       \/ \E s \in Settlements : CommitBatch(t, s)
  \/ Crash

\* A handler that is not blocked runs on, and so do the threads that roll back.
\* Nothing is assumed of what the loop has to do next.
Fairness ==
  /\ WF_gatewayVars(\E h \in Handlers : Finish(h))
  /\ WF_gatewayVars(\E h \in Handlers : Rollback(h))

GatewaySpec == GatewayInit /\ [][GatewayNext]_gatewayVars /\ Fairness
-----------------------------------------------------------------------------
\* The tables keep their types, a request its shape, and the loop belongs to
\* the one handler that is running.
GatewayTypeOK ==
  /\ TypeOK
  /\ loop \in Handlers \cup {Idle}
  /\ request \in [Handlers -> {Free} \cup Request]
  /\ selected \in [BatchThreads -> SUBSET Payments]
  /\ event \in [Payments -> PaymentStatus \cup {"none"}]
  /\ crashes \in 0..MaxCrashes
  /\ InPhase("running") \cup InPhase("announcing") = {loop} \ {Idle}

\* What a request in progress has decided from its reads still holds, whatever
\* committed since: its payment is there, its transition is legal for the stored
\* status, a refund fits what is left and starts from the stored balance, and a
\* thread's batch holds collected payments only.  For the handlers this rests on the event
\* loop and, after a capture was abandoned, on its row locks.
DecisionsHold ==
  /\ \A h \in Handlers :
       LET r == request[h]
       IN  /\ r # Free => payment[r.payment].status # "absent"
           /\ r # Free /\ r.phase # "announcing" =>
                /\ CanTransition(payment[r.payment].status, r.target)
                /\ r.op = "authorize" =>
                     r.target \in {"authorized", "failed"} /\ r.phase = "running"
                /\ r.op = "capture" => r.target = "captured"
                /\ r.op = "refund" =>
                     /\ r.phase = "running"
                     /\ r.target \in {"refunded", "partially_refunded"}
                     /\ r.amount <= Remaining(r.payment)
                     /\ r.balance = wallet[Owner[r.payment]].balance
  /\ \A t \in BatchThreads : \A p \in selected[t] : payment[p].status \in CapturedStatus

\* Between its two commits nobody changes the payment under a handler, so that
\* its log names its own change; only a refund may find that a batch has settled
\* the payment, and then announces "payment.settled".
AnnouncesOwnChange ==
  \A h \in InPhase("announcing") :
    LET r == request[h]  status == payment[r.payment].status
    IN  /\ r.op = "authorize" =>
             \/ r.target = "timeout"
             \/ status = r.target /\ status \in {"authorized", "failed"}
        /\ r.op = "refund" => status \in {r.target, "settled"}
        /\ r.op # "capture"

\* As long as the process has not crashed, the last webhook log of a payment
\* tells the merchant its status: only settlements, and rows from before the
\* first call, go untold.
LastEventTold ==
  crashes = 0 =>
    \A p \in Payments :
      \/ \E h \in InPhase("announcing") : request[h].payment = p
      \/ event[p] = payment[p].status
      \/ payment[p].status = "settled"
      \/ event[p] = "none" /\ payment[p].status \in {"absent", "created", "captured"}

\* Whatever the requests do to each other, no customer gets back more than was
\* collected (refund_payment's check against refunds that are still being
\* written, batches that overwrite the status it relies on).
RefundsWithinCaptured == \A p \in Payments : refunds[p].total <= Collected(p)

\* The ledger of a payment is its capture, its refunds and its settlements, also
\* when two batches settle it: nothing but the number of its settlements is left
\* open, and without a settlement_id there is none.
AuditedUpToRepeats(p) ==
  LET d == ledger[p].debit  c == ledger[p].credit
  IN  /\ d["customer_holding"] = Collected(p)
      /\ c["customer_holding"] = refunds[p].total
      /\ d["merchant_wallet"] = refunds[p].total + c["bank_settlement"]
      /\ c["merchant_wallet"] = Collected(p)
      /\ d["bank_settlement"] = 0
      /\ c["bank_settlement"] >= SettledAmount(p)
      /\ c["bank_settlement"] > 0 <=> payment[p].settlement_id # NoSettlement

AuditTrailUpToRepeats == \A p \in Payments : AuditedUpToRepeats(p)

\* The bank account of the ledger holds what the settlements say was sent to
\* the bank, also when two batches take the same payments.
BankMatchesSettlements ==
  SumFunction([p \in Payments |-> ledger[p].credit["bank_settlement"]])
    = SumFunction([s \in Settlements |-> settlement[s].amount])

\* Of the contract of a payment, requests that overlap keep everything but the
\* clause that a batch takes captured payments only, and each of them once.
ImplementsOverlappingContract == Contract!OverlappingSpec

\* A handler that gets the event loop gives it back, or else waits for the rows
\* of a capture whose cleanup in turn waits for the loop: nothing but an
\* abandoned capture can stop the process.
LoopReleased == loop # Idle ~> (loop = Idle \/ InPhase("unwinding") # {})
-----------------------------------------------------------------------------
\* "Already settled payment is excluded from next batch": a payment that belongs
\* to a settlement is never moved into another one.
SettledOnce ==
  [][\A p \in Payments :
       payment[p].settlement_id # NoSettlement =>
         payment'[p].settlement_id = payment[p].settlement_id]_gatewayVars

\* "Captures a previously authorized payment": once an accepted capture request
\* is over, its payment is captured.
CaptureTakesEffect ==
  [][\A h \in Handlers :
       /\ request[h] # Free /\ request'[h] = Free
       /\ request[h].op = "capture"
       => payment'[request[h].payment].status = "captured"]_gatewayVars
=============================================================================
