--------------------------- MODULE GatewayProofs ----------------------------
(***************************************************************************)
(* Proofs about Gateway: for any number of handlers and batch threads, no  *)
(* interleaving gives a customer back more than was collected, although    *)
(* batches overwrite the status that refund_payment relies on; ledger,     *)
(* wallets and bank account agree, and the webhook logs keep up with the   *)
(* status. All that overlapping requests can do to the contract of a       *)
(* payment is to settle it late or again.                                  *)
(***************************************************************************)
EXTENDS Gateway, ContractProofs

\* The inductive invariant.  RefundsWithinCaptured needs to know that the amount
\* a running refund has checked still fits, and that no authorization or batch
\* changes what counts as collected: that is DecisionsHold.
GInv == GatewayTypeOK /\ DecisionsHold /\ RefundsWithinCaptured

USE LoopAssumption, CrashesAssumption

\* What DecisionsHold says of the handler h.
Holds(h) ==
  LET r == request[h]
  IN  /\ r # Free => payment[r.payment].status # "absent"
      /\ r # Free /\ r.phase # "announcing" =>
           /\ CanTransition(payment[r.payment].status, r.target)
           /\ r.op = "authorize" =>
                r.target \in {"authorized", "failed"} /\ r.phase = "running"
           /\ r.op = "capture" => r.target = "captured"
           /\ r.op = "refund" =>
                /\ r.phase = "running"
                /\ r.target \in {"refunded", "partially_refunded"}
                /\ r.amount <= Remaining(r.payment)
                /\ r.balance = wallet[Owner[r.payment]].balance

\* What DecisionsHold says of the thread t.
Collects(t) == \A p \in selected[t] : payment[p].status \in CapturedStatus

LEMMA DecisionsSplit ==
  /\ DecisionsHold <=> (\A h \in Handlers : Holds(h)) /\ \A t \in BatchThreads : Collects(t)
  /\ DecisionsHold' <=> (\A h \in Handlers : Holds(h)') /\ \A t \in BatchThreads : Collects(t)'
  BY DEF DecisionsHold, Holds, Collects

\* A request that is still there and whose rows did not change holds on.
LEMMA HoldsFrame ==
  ASSUME NEW h \in Handlers, Holds(h), request'[h] = request[h],
         request[h] # Free =>
           /\ payment'[request[h].payment] = payment[request[h].payment]
           /\ refunds'[request[h].payment] = refunds[request[h].payment]
           /\ wallet'[Owner[request[h].payment]] = wallet[Owner[request[h].payment]]
  PROVE  Holds(h)'
  BY DEF Holds, Remaining, CapturedOrAmount

\* The handler h has the loop.
OnLoop(h) == request[h] # Free /\ request[h].phase \in {"running", "announcing"}

\* The shape of what is not a table.
RequestsOK ==
  /\ loop \in Handlers \cup {Idle}
  /\ request \in [Handlers -> {Free} \cup Request]
  /\ selected \in [BatchThreads -> SUBSET Payments]
  /\ event \in [Payments -> PaymentStatus \cup {"none"}]
  /\ crashes \in 0..MaxCrashes
  /\ \A h \in Handlers : OnLoop(h) <=> loop = h

LEMMA TypeSplit ==
  /\ GatewayTypeOK <=> TypeOK /\ RequestsOK
  /\ GatewayTypeOK' <=> TypeOK' /\ RequestsOK'
  BY DEF GatewayTypeOK, RequestsOK, OnLoop, InPhase

LEMMA RequestIsNotFree == Free \notin Request
  BY DEF Free, Request, Ops

LEMMA RunningHasLoop ==
  ASSUME RequestsOK, NEW h \in InPhase("running")
  PROVE  h \in Handlers /\ request[h] # Free /\ request[h] \in Request /\ loop = h
  BY DEF RequestsOK, OnLoop, InPhase

LEMMA InitInv == GatewayInit => GInv
  <1> SUFFICES ASSUME GatewayInit PROVE GInv
    OBVIOUS
  <1>1. TypeOK /\ \A p \in Payments : GoodPayment(p)
    BY InitTypeOK, InitGood DEF GatewayInit
  <1>2. RequestsOK
    BY DEF GatewayInit, RequestsOK, OnLoop
  <1>3. DecisionsHold
    BY DEF GatewayInit, DecisionsHold
  <1>4. RefundsWithinCaptured
    BY <1>1 DEF RefundsWithinCaptured, GoodPayment, RefundsMatch
  <1> QED
    BY <1>1, <1>2, <1>3, <1>4, TypeSplit DEF GInv

\* A step that leaves the tables alone: it has to keep the shape of the requests
\* and what they decided.
LEMMA SameTables ==
  ASSUME GInv, UNCHANGED tables, RequestsOK', DecisionsHold'
  PROVE  GInv'
  BY TypeSplit DEF GInv, tables, TypeOK, RefundsWithinCaptured, Collected, CapturedOrAmount
-----------------------------------------------------------------------------
LEMMA CreateInv ==
  ASSUME GInv, NEW p \in Payments, NEW amt \in Amounts, ServeCreate(p, amt)
  PROVE  GInv'
  <1>1. /\ TypeOK
        /\ RequestsOK
        /\ payment[p].status = "absent"
        /\ payment' = [payment EXCEPT ![p] = NewRow("created", amt)]
        /\ UNCHANGED <<refunds, ledger, wallet, settlement, loop, request, selected, event,
                       crashes>>
    BY TypeSplit DEF GInv, ServeCreate, CreatePayment
  <1>2. amt \in 0..MaxInt
    BY AmountsAssumption
  <1>3. NewRow("created", amt) \in PaymentRow
    BY <1>2, AmountsAssumption DEF NewRow, PaymentRow, PaymentStatus
  <1>4. TypeOK'
    BY <1>1, <1>3 DEF TypeOK
  <1>5. RequestsOK'
    BY <1>1 DEF RequestsOK, OnLoop
  <1>6. ASSUME NEW h \in Handlers PROVE Holds(h)'
    <2>1. Holds(h)
      BY DecisionsSplit DEF GInv
    <2>2. CASE request[h] = Free
      BY <1>1, <2>2 DEF Holds
    <2>3. CASE request[h] # Free
      <3>1. request[h].payment \in Payments /\ request[h].payment # p
        BY <1>1, <2>1, <2>3 DEF RequestsOK, Request, Holds
      <3> QED
        BY <1>1, <2>1, <2>3, <3>1, HoldsFrame DEF TypeOK
    <2> QED
      BY <2>2, <2>3
  <1>7. ASSUME NEW t \in BatchThreads PROVE Collects(t)'
    <2>1. Collects(t)
      BY DecisionsSplit DEF GInv
    <2> QED
      BY <1>1, <2>1 DEF Collects, CapturedStatus, RequestsOK, TypeOK
  <1>8. RefundsWithinCaptured'
    <2> SUFFICES ASSUME NEW q \in Payments PROVE (refunds[q].total <= Collected(q))'
      BY DEF RefundsWithinCaptured
    <2>1. refunds[q].total <= Collected(q)
      BY DEF GInv, RefundsWithinCaptured
    <2>2. Collected(q)' = Collected(q)
      BY <1>1 DEF Collected, CapturedOrAmount, CapturedStatus, NewRow, TypeOK
    <2> QED
      BY <1>1, <2>1, <2>2
  <1> QED
    BY <1>4, <1>5, <1>6, <1>7, <1>8, DecisionsSplit, TypeSplit DEF GInv

\* A request that was accepted is one, and still holds when the handler starts.
LEMMA BeginInv ==
  ASSUME GInv, NEW h \in Handlers, NEW op \in Ops, NEW p \in Payments,
         NEW target \in PaymentStatus \cup {"timeout"}, NEW amt \in 0..MaxInt,
         Begin(h, Accepted(op, p, target, amt)),
         target = "timeout" \/ CanTransition(payment[p].status, target),
         payment[p].status # "absent",
         op = "authorize" => target \in BankOutcomes,
         op = "capture" => target = "captured",
         op = "refund" => /\ target \in {"refunded", "partially_refunded"}
                          /\ amt <= Remaining(p)
  PROVE  GInv'
  <1> DEFINE r == Accepted(op, p, target, amt)
  <1>1. /\ TypeOK
        /\ RequestsOK
        /\ loop = Idle
        /\ loop' = h
        /\ request[h] = Free
        /\ request' = [request EXCEPT ![h] = r]
        /\ UNCHANGED <<payment, refunds, ledger, wallet, settlement, selected, event, crashes>>
    BY TypeSplit DEF GInv, Begin, tables
  <1>2. r \in Request
    <2>1. wallet[Owner[p]].balance \in IntColumn
      BY <1>1, PaymentsAssumption DEF TypeOK, WalletRow
    <2> QED
      BY <2>1 DEF Accepted, Request
  <1>3. r # Free
    BY <1>2, RequestIsNotFree
  <1>4. /\ r.op = op /\ r.payment = p /\ r.target = target /\ r.amount = amt
        /\ r.balance = wallet[Owner[p]].balance
        /\ r.phase \in {"running", "announcing"}
        /\ r.phase = "announcing" <=> target = "timeout"
    BY DEF Accepted
  <1> HIDE DEF r
  <1>5. RequestsOK'
    <2>1. request' \in [Handlers -> {Free} \cup Request]
      BY <1>1, <1>2 DEF RequestsOK
    <2>2. \A g \in Handlers : OnLoop(g)' <=> g = h
      BY <1>1, <1>3, <1>4 DEF RequestsOK, OnLoop
    <2> QED
      BY <1>1, <2>1, <2>2 DEF RequestsOK
  <1>6. ASSUME NEW g \in Handlers PROVE Holds(g)'
    <2>1. Holds(g)
      BY DecisionsSplit DEF GInv
    <2>2. CASE g # h
      BY <1>1, <2>1, <2>2, HoldsFrame DEF RequestsOK
    <2>3. CASE g = h
      <3>1. request'[g] = r
        BY <1>1, <2>3 DEF RequestsOK
      <3> QED
        BY <1>1, <1>4, <3>1 DEF Holds, Remaining, CapturedOrAmount, BankOutcomes, Ops
    <2> QED
      BY <2>2, <2>3
  <1>7. ASSUME NEW t \in BatchThreads PROVE Collects(t)'
    BY <1>1, DecisionsSplit DEF GInv, Collects
  <1> QED
    BY <1>1, <1>5, <1>6, <1>7, DecisionsSplit, SameTables DEF tables

\* The request of h ends, or goes on without its loop: the loop stays with the
\* handler that has it, or is given back by h.
LEMMA EndOfRequest ==
  ASSUME RequestsOK, NEW h \in Handlers, NEW next \in {Free} \cup Request,
         next = Free \/ next.phase \in {"unwinding", "closing"},
         request' = [request EXCEPT ![h] = next],
         (loop = h /\ loop' = Idle) \/ (~OnLoop(h) /\ loop' = loop),
         event' \in [Payments -> PaymentStatus \cup {"none"}],
         UNCHANGED <<selected, crashes>>
  PROVE  RequestsOK'
  <1>1. request' \in [Handlers -> {Free} \cup Request]
    BY DEF RequestsOK
  <1>2. \A g \in Handlers : OnLoop(g)' <=> OnLoop(g) /\ g # h
    BY DEF RequestsOK, OnLoop
  <1>3. \A g \in Handlers : OnLoop(g)' <=> loop' = g
    BY <1>2 DEF RequestsOK
  <1> QED
    BY <1>1, <1>3 DEF RequestsOK

\* The steps after the writes of a handler touch no table: the request ends or
\* a capture enters another phase.
LEMMA EndInv ==
  ASSUME GInv, NEW h \in Handlers,
         Announce(h) \/ AbandonCapture(h) \/ SubmitClose(h) \/ Rollback(h)
  PROVE  GInv'
  <1>1. /\ TypeOK
        /\ RequestsOK
        /\ DecisionsHold
        /\ UNCHANGED tables
        /\ UNCHANGED <<selected, crashes>>
        /\ request[h] # Free /\ request[h] \in Request
    BY TypeSplit DEF GInv, Announce, AbandonCapture, Writes, SubmitClose, Rollback, InPhase,
       RequestsOK
  <1>2. PICK next \in {Free} \cup Request :
          /\ request' = [request EXCEPT ![h] = next]
          /\ next # Free => /\ request[h].op = "capture"
                            /\ request[h].phase # "announcing"
                            /\ next = [request[h] EXCEPT !.phase = next.phase]
                            /\ next.phase \in {"unwinding", "closing"}
    <2>1. CASE Announce(h) \/ Rollback(h)
      BY <2>1 DEF Announce, Rollback, Leave
    <2>2. CASE AbandonCapture(h) \/ SubmitClose(h)
      <3>1. Holds(h)
        BY <1>1, DecisionsSplit
      <3>2. request[h].op = "capture" /\ request[h].phase # "announcing"
        BY <2>2, <3>1, <1>1 DEF AbandonCapture, Writes, SubmitClose, InPhase, Holds, Request, Ops
      <3>3. PICK ph \in {"unwinding", "closing"} :
              request' = [request EXCEPT ![h] = [request[h] EXCEPT !.phase = ph]]
        BY <2>2 DEF AbandonCapture, SubmitClose, Enter
      <3>4. [request[h] EXCEPT !.phase = ph] \in Request
        BY <1>1 DEF Request
      <3>5. [request[h] EXCEPT !.phase = ph].phase = ph
        BY <1>1 DEF Request
      <3> QED
        BY <3>2, <3>3, <3>4, <3>5
    <2> QED
      BY <2>1, <2>2
  <1>3. RequestsOK'
    <2>1. next = Free \/ next.phase \in {"unwinding", "closing"}
      BY <1>2
    <2>2. (loop = h /\ loop' = Idle) \/ (~OnLoop(h) /\ loop' = loop)
      <3>1. CASE Announce(h) \/ AbandonCapture(h)
        <4>1. OnLoop(h) /\ loop' = Idle
          BY <3>1 DEF Announce, AbandonCapture, Writes, InPhase, OnLoop
        <4>2. loop = h
          BY <1>1, <4>1 DEF RequestsOK
        <4> QED
          BY <4>1, <4>2
      <3>2. CASE SubmitClose(h) \/ Rollback(h)
        BY <3>2 DEF SubmitClose, Rollback, InPhase, OnLoop
      <3> QED
        BY <3>1, <3>2
    <2>3. event' \in [Payments -> PaymentStatus \cup {"none"}]
      <3>1. CASE Announce(h)
        <4> DEFINE p == request[h].payment
        <4>1. p \in Payments /\ event' = [event EXCEPT ![p] = payment[p].status]
          BY <1>1, <3>1 DEF Announce, Request
        <4>2. payment[p].status # "absent"
          BY <1>1, DecisionsSplit DEF Holds
        <4>3. payment[p].status \in PaymentStatus
          BY <1>1, <4>1, <4>2 DEF TypeOK, PaymentRow
        <4> QED
          BY <1>1, <4>1, <4>3 DEF RequestsOK
      <3>2. CASE ~Announce(h)
        BY <1>1, <3>2 DEF AbandonCapture, Writes, SubmitClose, Rollback, RequestsOK
      <3> QED
        BY <3>1, <3>2
    <2> QED
      BY <1>1, <1>2, <2>1, <2>2, <2>3, EndOfRequest
  <1>4. ASSUME NEW g \in Handlers PROVE Holds(g)'
    <2>1. Holds(g)
      BY <1>1, DecisionsSplit
    <2>2. CASE g # h
      BY <1>1, <1>2, <2>1, <2>2, HoldsFrame DEF RequestsOK, tables
    <2>3. CASE g = h
      <3>1. request'[h] = next
        BY <1>1, <1>2 DEF RequestsOK
      <3>2. CASE next = Free
        BY <2>3, <3>1, <3>2 DEF Holds
      <3>3. CASE next # Free
        <4>1. /\ next.op = "capture" /\ next.target = request[h].target
              /\ next.payment = request[h].payment
          BY <1>1, <1>2, <3>3 DEF Request
        <4> QED
          BY <1>1, <1>2, <2>1, <2>3, <3>1, <3>3, <4>1 DEF Holds, tables
      <3> QED
        BY <3>2, <3>3
    <2> QED
      BY <2>2, <2>3
  <1>5. ASSUME NEW t \in BatchThreads PROVE Collects(t)'
    BY <1>1, DecisionsSplit DEF Collects, tables
  <1> QED
    BY <1>1, <1>3, <1>4, <1>5, DecisionsSplit, SameTables

LEMMA ReadBatchInv ==
  ASSUME GInv, NEW t \in BatchThreads, NEW m \in Merchants, ReadBatch(t, m)
  PROVE  GInv'
  <1>1. /\ RequestsOK /\ DecisionsHold
        /\ UNCHANGED tables /\ UNCHANGED <<loop, request, event, crashes>>
    BY TypeSplit DEF GInv, ReadBatch
  <1>2. selected' = [selected EXCEPT ![t] = UnsettledPayments(m)]
    BY DEF ReadBatch
  <1>3. RequestsOK'
    BY <1>1, <1>2 DEF RequestsOK, OnLoop, UnsettledPayments, PaymentsOf
  <1>4. ASSUME NEW h \in Handlers PROVE Holds(h)'
    BY <1>1, DecisionsSplit, HoldsFrame DEF tables
  <1>5. ASSUME NEW u \in BatchThreads PROVE Collects(u)'
    BY <1>1, <1>2, DecisionsSplit
       DEF Collects, RequestsOK, UnsettledPayments, CapturedStatus, tables
  <1> QED
    BY <1>1, <1>3, <1>4, <1>5, DecisionsSplit, SameTables

\* After its first commit the handler keeps the loop and announces the change.
LEMMA Announcing ==
  ASSUME RequestsOK, NEW h \in Handlers, request[h] \in Request, loop = h, loop' = h,
         request' = [request EXCEPT ![h].phase = "announcing"],
         UNCHANGED <<selected, event, crashes>>
  PROVE  RequestsOK'
  <1>1. [request[h] EXCEPT !.phase = "announcing"] \in Request
    BY DEF Request
  <1>2. request' \in [Handlers -> {Free} \cup Request]
    BY <1>1 DEF RequestsOK
  <1>3. \A g \in Handlers : OnLoop(g)' <=> OnLoop(g)
    <2>1. OnLoop(h) /\ OnLoop(h)'
      <3>1. request'[h] = [request[h] EXCEPT !.phase = "announcing"]
        BY DEF RequestsOK
      <3>2. request'[h].phase = "announcing"
        BY <3>1 DEF Request
      <3> QED
        BY <1>1, <3>1, <3>2, RequestIsNotFree DEF RequestsOK, OnLoop
    <2> QED
      BY <2>1 DEF RequestsOK, OnLoop
  <1> QED
    BY <1>2, <1>3 DEF RequestsOK

LEMMA CommitAuthorizeInv ==
  ASSUME GInv, NEW h \in Handlers, CommitAuthorize(h)
  PROVE  GInv'
  <1>0. PICK r \in Request : r = request[h] /\ r # Free /\ loop = h
    <2>1. RequestsOK /\ h \in InPhase("running")
      BY TypeSplit DEF CommitAuthorize, Writes, GInv
    <2> QED
      BY <2>1, RunningHasLoop
  <1> DEFINE p == r.payment
  <1>1. /\ TypeOK /\ RequestsOK /\ DecisionsHold
        /\ loop = h /\ loop' = h
        /\ r.op = "authorize" /\ r.phase = "running"
        /\ RowsOf(r) \cap LockedRows = {}
        /\ payment' = [payment EXCEPT ![p].status = r.target]
        /\ request' = [request EXCEPT ![h].phase = "announcing"]
        /\ UNCHANGED <<refunds, ledger, wallet, settlement, selected, event, crashes>>
    BY <1>0, TypeSplit DEF CommitAuthorize, Writes, InPhase, Enter, GInv
  <1>2. p \in Payments /\ Holds(h)
    BY <1>1, DecisionsSplit DEF Request
  <1>3. /\ r.target \in {"authorized", "failed"}
        /\ payment[p].status \in {"created", "authorized"}
    BY <1>0, <1>1, <1>2 DEF Holds, CanTransition, TRANSITIONS
  <1>4. TypeOK'
    <2>1. [payment[p] EXCEPT !.status = r.target] \in PaymentRow
      BY <1>1, <1>2, <1>3 DEF TypeOK, PaymentRow, PaymentStatus
    <2> QED
      BY <1>1, <1>2, <2>1 DEF TypeOK
  <1>5. RequestsOK'
    BY <1>0, <1>1, Announcing
  <1>6. ASSUME NEW g \in Handlers PROVE Holds(g)'
    <2>1. Holds(g)
      BY <1>1, DecisionsSplit
    <2>2. CASE g = h
      <3>1. request'[h] = [r EXCEPT !.phase = "announcing"]
        BY <1>0, <1>1 DEF RequestsOK
      <3>2. request'[h].phase = "announcing" /\ request'[h].payment = p
        BY <3>1 DEF Request
      <3>3. payment'[p].status # "absent"
        BY <1>1, <1>2, <1>3 DEF TypeOK, PaymentRow
      <3> QED
        BY <2>2, <3>2, <3>3 DEF Holds
    <2>4. CASE g # h /\ request[g] = Free
      BY <1>1, <2>4 DEF Holds, RequestsOK
    <2>3. CASE g # h /\ request[g] # Free
      <3>1. /\ request'[g] = request[g]
            /\ request[g] \in Request
            /\ request[g].phase \notin {"running", "announcing"}
        BY <1>1, <2>3 DEF RequestsOK, OnLoop
      <3>2. g \in InPhase("unwinding") \cup InPhase("closing")
        BY <2>3, <3>1 DEF InPhase, Request
      <3>3. request[g].payment # p
        <4>1. <<"payment", request[g].payment>> \in LockedRows
          BY <3>2 DEF LockedRows, RowsOf
        <4>2. <<"payment", p>> \in RowsOf(r)
          BY DEF RowsOf
        <4> QED
          BY <1>1, <4>1, <4>2
      <3>4. request[g].payment \in Payments
        BY <3>1 DEF Request
      <3> QED
        BY <1>1, <1>2, <2>1, <3>1, <3>3, <3>4, HoldsFrame DEF TypeOK
    <2> QED
      BY <2>2, <2>3, <2>4
  <1>7. ASSUME NEW t \in BatchThreads PROVE Collects(t)'
    <2>1. p \notin selected[t]
      BY <1>1, <1>3, DecisionsSplit DEF Collects, CapturedStatus
    <2> QED
      BY <1>1, <2>1, DecisionsSplit DEF Collects, RequestsOK, TypeOK
  <1>8. RefundsWithinCaptured'
    <2> SUFFICES ASSUME NEW q \in Payments PROVE (refunds[q].total <= Collected(q))'
      BY DEF RefundsWithinCaptured
    <2>1. refunds[q].total <= Collected(q)
      BY DEF GInv, RefundsWithinCaptured
    <2>2. CASE q # p
      BY <1>1, <2>1, <2>2 DEF Collected, CapturedOrAmount, TypeOK
    <2>3. CASE q = p
      <3>1. payment'[p].status = r.target
        BY <1>1, <1>2 DEF TypeOK, PaymentRow
      <3> QED
        BY <1>1, <1>3, <2>1, <2>3, <3>1 DEF Collected, CapturedStatus
    <2> QED
      BY <2>2, <2>3
  <1> QED
    BY <1>4, <1>5, <1>6, <1>7, <1>8, DecisionsSplit, TypeSplit DEF GInv

LEMMA CommitRefundInv ==
  ASSUME GInv, NEW h \in Handlers, CommitRefund(h)
  PROVE  GInv'
  <1>0. PICK r \in Request : r = request[h] /\ r # Free /\ loop = h
    <2>1. RequestsOK /\ h \in InPhase("running")
      BY TypeSplit DEF CommitRefund, Writes, GInv
    <2> QED
      BY <2>1, RunningHasLoop
  <1> DEFINE p == r.payment
             amt == r.amount
  <1>1. /\ TypeOK /\ RequestsOK /\ DecisionsHold
        /\ loop = h /\ loop' = h
        /\ r.op = "refund" /\ r.phase = "running"
        /\ WriteRefund(p, amt, r.target, r.balance)
        /\ request' = [request EXCEPT ![h].phase = "announcing"]
        /\ UNCHANGED <<selected, event, crashes>>
    BY <1>0, TypeSplit DEF CommitRefund, Writes, InPhase, Enter, GInv
  <1>2. p \in Payments /\ amt \in Nat /\ Holds(h)
    BY <1>1, AmountsAssumption, DecisionsSplit DEF Request
  <1>3. /\ r.target \in {"refunded", "partially_refunded"}
        /\ payment[p].status \in {"captured", "settled", "partially_refunded"}
        /\ amt <= Remaining(p)
    BY <1>0, <1>1, <1>2 DEF Holds, CanTransition, TRANSITIONS
  <1>4. /\ payment' = [payment EXCEPT ![p].status = r.target]
        /\ refunds' = [refunds EXCEPT ![p] = [count |-> refunds[p].count + 1,
                                             total |-> refunds[p].total + amt]]
    BY <1>1 DEF WriteRefund
  <1>5. TypeOK'
    <2>1. r.target \in PaymentStatus
      BY <1>3 DEF PaymentStatus
    <2> QED
      BY <1>1, <1>2, <2>1, WriteRefundType
  <1>6. RequestsOK'
    BY <1>0, <1>1, Announcing
  <1>7. ASSUME NEW g \in Handlers PROVE Holds(g)'
    <2>1. Holds(g)
      BY <1>1, DecisionsSplit
    <2>2. CASE g = h
      <3>1. request'[h] = [r EXCEPT !.phase = "announcing"]
        BY <1>0, <1>1 DEF RequestsOK
      <3>2. request'[h].phase = "announcing" /\ request'[h].payment = p
        BY <3>1 DEF Request
      <3>3. payment'[p].status # "absent"
        BY <1>1, <1>2, <1>3, <1>4 DEF TypeOK, PaymentRow
      <3> QED
        BY <2>2, <3>2, <3>3 DEF Holds
    <2>4. CASE g # h /\ request[g] = Free
      BY <1>1, <2>4 DEF Holds, RequestsOK
    <2>3. CASE g # h /\ request[g] # Free
      <3>1. /\ request'[g] = request[g]
            /\ request[g] \in Request
            /\ request[g].phase \notin {"running", "announcing"}
        BY <1>1, <2>3 DEF RequestsOK, OnLoop
      <3>2. request[g].op = "capture" /\ request[g].target = "captured"
        BY <2>1, <2>3, <3>1 DEF Holds, Request, Ops
      <3>3. request[g].payment # p
        BY <1>3, <2>1, <2>3, <3>1, <3>2 DEF Holds, CanTransition, TRANSITIONS
      <3>4. payment'[request[g].payment] = payment[request[g].payment]
        BY <1>1, <1>4, <3>1, <3>3 DEF Request, TypeOK
      <3> QED
        BY <2>1, <2>3, <3>1, <3>2, <3>4 DEF Holds
    <2> QED
      BY <2>2, <2>3, <2>4
  <1>8. ASSUME NEW t \in BatchThreads PROVE Collects(t)'
    <2>1. payment'[p].status \in CapturedStatus
      BY <1>1, <1>2, <1>3, <1>4 DEF TypeOK, PaymentRow, CapturedStatus
    <2>2. \A q \in selected[t] : q \in Payments /\ payment[q].status \in CapturedStatus
      BY <1>1, DecisionsSplit DEF Collects, RequestsOK
    <2> QED
      BY <1>1, <1>4, <2>1, <2>2 DEF Collects, TypeOK
  <1>9. RefundsWithinCaptured'
    <2> SUFFICES ASSUME NEW q \in Payments PROVE (refunds[q].total <= Collected(q))'
      BY DEF RefundsWithinCaptured
    <2>1. refunds[q].total <= Collected(q)
      BY DEF GInv, RefundsWithinCaptured
    <2>2. CASE q # p
      BY <1>1, <1>4, <2>1, <2>2 DEF Collected, CapturedOrAmount, TypeOK
    <2>3. CASE q = p
      <3>1. /\ payment'[p].status = r.target
            /\ payment'[p].amount = payment[p].amount
            /\ payment'[p].captured_amount = payment[p].captured_amount
            /\ refunds'[p].total = refunds[p].total + amt
        BY <1>1, <1>2, <1>4 DEF TypeOK, PaymentRow
      <3>2. Collected(p)' = CapturedOrAmount(payment[p])
        BY <1>3, <3>1 DEF Collected, CapturedOrAmount, CapturedStatus
      <3>3. CapturedOrAmount(payment[p]) \in Nat /\ refunds[p].total \in Nat
        BY <1>1, <1>2, AmountsAssumption DEF TypeOK, CapturedOrAmount, PaymentRow, RefundRows
      <3> QED
        BY <1>2, <1>3, <2>3, <3>1, <3>2, <3>3 DEF Remaining
    <2> QED
      BY <2>2, <2>3
  <1> QED
    BY <1>5, <1>6, <1>7, <1>8, <1>9, DecisionsSplit, TypeSplit DEF GInv

\* A batch may overwrite a status, but never turns a collected payment into one
\* that is not, nor makes a decided refund illegal.
LEMMA CommitBatchInv ==
  ASSUME GInv, NEW t \in BatchThreads, NEW s \in Settlements, CommitBatch(t, s)
  PROVE  GInv'
  <1> DEFINE batch == selected[t]
  <1>1. /\ TypeOK /\ RequestsOK /\ DecisionsHold
        /\ WriteBatch(s, batch)
        /\ batch \in SUBSET Payments
        /\ selected' = [selected EXCEPT ![t] = {}]
        /\ UNCHANGED <<loop, request, event, crashes>>
    BY TypeSplit DEF CommitBatch, GInv, RequestsOK
  <1>2. \A q \in batch : payment[q].status \in CapturedStatus
    BY <1>1, DecisionsSplit DEF Collects
  <1> HIDE DEF batch
  <1>3. /\ payment' = [q \in Payments |->
             IF q \in batch
               THEN [payment[q] EXCEPT !.status = "settled", !.settlement_id = s]
               ELSE payment[q]]
        /\ refunds' = refunds
        /\ wallet' = wallet
    BY <1>1 DEF WriteBatch
  <1>4. TypeOK'
    BY <1>1, WriteBatchType
  <1>5. RequestsOK'
    BY <1>1 DEF RequestsOK, OnLoop
  <1>6. ASSUME NEW q \in Payments
        PROVE  /\ \/ payment'[q] = payment[q]
                  \/ /\ payment[q].status \in CapturedStatus
                     /\ payment'[q].status = "settled"
               /\ CapturedOrAmount(payment[q])' = CapturedOrAmount(payment[q])
    <2>1. payment[q] \in PaymentRow
      BY <1>1 DEF TypeOK
    <2>2. CASE q \notin batch
      BY <1>3, <2>2 DEF CapturedOrAmount
    <2>3. CASE q \in batch
      <3>1. /\ payment'[q].status = "settled"
            /\ payment'[q].amount = payment[q].amount
            /\ payment'[q].captured_amount = payment[q].captured_amount
        BY <1>3, <2>1, <2>3 DEF PaymentRow
      <3> QED
        BY <1>2, <2>3, <3>1 DEF CapturedOrAmount
    <2> QED
      BY <2>2, <2>3
  <1>7. ASSUME NEW h \in Handlers PROVE Holds(h)'
    <2>1. Holds(h)
      BY <1>1, DecisionsSplit
    <2>2. CASE request[h] = Free
      BY <1>1, <2>2 DEF Holds
    <2>3. CASE request[h] # Free
      <3>1. PICK r \in Request : r = request[h] /\ r # Free
        BY <1>1, <2>3 DEF RequestsOK
      <3> DEFINE q == r.payment
      <3>2. q \in Payments /\ r.op \in Ops
        BY DEF Request
      <3>3. Remaining(q)' = Remaining(q)
        BY <1>3, <1>6, <3>2 DEF Remaining
      <3>4. payment'[q].status # "absent"
        BY <1>6, <2>1, <3>1, <3>2 DEF Holds
      <3>5. CASE r.phase = "announcing"
        BY <1>1, <3>1, <3>4, <3>5 DEF Holds
      <3>6. CASE r.phase # "announcing"
        <4>1. CanTransition(payment[q].status, r.target)
          BY <2>1, <3>1, <3>6 DEF Holds
        <4>2. r.target \in {"authorized", "failed", "captured", "refunded", "partially_refunded"}
          BY <2>1, <3>1, <3>2, <3>6 DEF Holds, Ops
        <4>3. CASE payment'[q] = payment[q]
          BY <1>1, <1>3, <2>1, <3>1, <3>3, <3>4, <4>3 DEF Holds
        <4>4. CASE payment[q].status \in CapturedStatus /\ payment'[q].status = "settled"
          <5>1. CanTransition(payment'[q].status, r.target)
            BY <4>1, <4>2, <4>4 DEF CanTransition, TRANSITIONS, CapturedStatus
          <5> QED
            BY <1>1, <1>3, <2>1, <3>1, <3>3, <3>4, <5>1 DEF Holds
        <4> QED
          BY <1>6, <3>2, <4>3, <4>4
      <3> QED
        BY <3>5, <3>6
    <2> QED
      BY <2>2, <2>3
  <1>8. ASSUME NEW u \in BatchThreads PROVE Collects(u)'
    <2>1. selected'[u] \subseteq selected[u] /\ selected[u] \subseteq Payments
      BY <1>1 DEF RequestsOK
    <2>2. \A q \in selected[u] : payment[q].status \in CapturedStatus
      BY <1>1, DecisionsSplit DEF Collects
    <2> QED
      BY <1>6, <2>1, <2>2 DEF Collects, CapturedStatus
  <1>9. RefundsWithinCaptured'
    <2> SUFFICES ASSUME NEW q \in Payments PROVE (refunds[q].total <= Collected(q))'
      BY DEF RefundsWithinCaptured
    <2>1. refunds[q].total <= Collected(q)
      BY DEF GInv, RefundsWithinCaptured
    <2>2. Collected(q)' = Collected(q)
      BY <1>6 DEF Collected, CapturedStatus
    <2> QED
      BY <1>3, <2>1, <2>2
  <1> QED
    BY <1>4, <1>5, <1>7, <1>8, <1>9, DecisionsSplit, TypeSplit DEF GInv

LEMMA CrashInv ==
  ASSUME GInv, Crash
  PROVE  GInv'
  <1>1. /\ RequestsOK
        /\ crashes < MaxCrashes /\ crashes' = crashes + 1
        /\ loop' = Idle
        /\ request' = [h \in Handlers |-> Free]
        /\ selected' = [t \in BatchThreads |-> {}]
        /\ UNCHANGED tables /\ event' = event
    BY TypeSplit DEF GInv, Crash
  <1>2. RequestsOK'
    BY <1>1 DEF RequestsOK, OnLoop
  <1>3. DecisionsHold'
    BY <1>1 DEF DecisionsHold
  <1> QED
    BY <1>1, <1>2, <1>3, SameTables
-----------------------------------------------------------------------------
LEMMA GatewayStep == GInv /\ [GatewayNext]_gatewayVars => GInv'
  <1> SUFFICES ASSUME GInv, [GatewayNext]_gatewayVars PROVE GInv'
    OBVIOUS
  <1>1. CASE UNCHANGED gatewayVars
    <2>1. UNCHANGED <<tables, loop, request, selected, event, crashes>>
      BY <1>1 DEF gatewayVars, tables
    <2>2. RequestsOK' /\ DecisionsHold'
      BY <2>1, TypeSplit DEF GInv, RequestsOK, OnLoop, DecisionsHold, Remaining,
         CapturedOrAmount, tables
    <2> QED
      BY <2>1, <2>2, SameTables
  <1>2. ASSUME NEW p \in Payments, NEW amt \in Amounts, ServeCreate(p, amt) PROVE GInv'
    BY <1>2, CreateInv
  <1>3. ASSUME NEW h \in Handlers, NEW p \in Payments, NEW outcome \in BankOutcomes,
               BeginAuthorize(h, p, outcome)
        PROVE  GInv'
    <2>1. outcome \in PaymentStatus \cup {"timeout"}
      BY DEF BankOutcomes, PaymentStatus
    <2>2. 0 \in 0..MaxInt
      BY AmountsAssumption
    <2> QED
      BY <1>3, <2>1, <2>2, BeginInv DEF BeginAuthorize, Ops
  <1>4. ASSUME NEW h \in Handlers, NEW p \in Payments, NEW requested \in Amounts \cup {0},
               BeginCapture(h, p, requested)
        PROVE  GInv'
    <2>1. CaptureAmount(p, requested) \in 0..MaxInt
      BY AmountsAssumption DEF CaptureAmount, GInv, GatewayTypeOK, TypeOK, PaymentRow
    <2>2. "captured" \in PaymentStatus
      BY DEF PaymentStatus
    <2>3. payment[p].status # "absent"
      BY <1>4 DEF BeginCapture, CaptureAccepted, CanTransition, TRANSITIONS
    <2> QED
      BY <1>4, <2>1, <2>2, <2>3, BeginInv DEF BeginCapture, CaptureAccepted, Ops
  <1>5. ASSUME NEW h \in Handlers, NEW p \in Payments, NEW amt \in Amounts,
               BeginRefund(h, p, amt)
        PROVE  GInv'
    <2>1. amt \in 0..MaxInt
      BY AmountsAssumption
    <2>2. RefundTarget(p, amt) \in {"refunded", "partially_refunded"}
      BY DEF RefundTarget
    <2>3. RefundTarget(p, amt) \in PaymentStatus
      BY <2>2 DEF PaymentStatus
    <2>4. payment[p].status # "absent"
      BY <1>5 DEF BeginRefund, RefundAccepted, CanTransition, TRANSITIONS
    <2> QED
      BY <1>5, <2>1, <2>2, <2>3, <2>4, BeginInv DEF BeginRefund, RefundAccepted, Ops
  <1>6. ASSUME NEW h \in Handlers, Finish(h) \/ SubmitClose(h) \/ Rollback(h)
        PROVE  GInv'
    BY <1>6, CommitAuthorizeInv, CommitRefundInv, EndInv DEF Finish
  <1>7. ASSUME NEW t \in BatchThreads, NEW m \in Merchants, ReadBatch(t, m) PROVE GInv'
    BY <1>7, ReadBatchInv
  <1>8. ASSUME NEW t \in BatchThreads, NEW s \in Settlements, CommitBatch(t, s) PROVE GInv'
    BY <1>8, CommitBatchInv
  <1>9. CASE Crash
    BY <1>9, CrashInv
  <1> QED
    BY <1>1, <1>2, <1>3, <1>4, <1>5, <1>6, <1>7, <1>8, <1>9 DEF GatewayNext

\* In every interleaving of the requests the inductive invariant holds.
THEOREM GatewayInvariance == GatewaySpec => []GInv
  BY InitInv, GatewayStep, PTL DEF GatewaySpec

-----------------------------------------------------------------------------
\* The handler that announces has the loop.
LEMMA AnnouncerHasLoop ==
  ASSUME NEW h
  PROVE  /\ RequestsOK /\ h \in InPhase("announcing") =>
              h \in Handlers /\ loop = h /\ request[h] \in Request
         /\ RequestsOK' /\ h \in InPhase("announcing")' =>
              h \in Handlers /\ loop' = h /\ request'[h] \in Request
  BY DEF RequestsOK, OnLoop, InPhase

\* What a batch does to one payment: nothing, or it settles a collected one.
LEMMA BatchOfOne ==
  ASSUME GInv, NEW t \in BatchThreads, NEW s \in Settlements, CommitBatch(t, s),
         NEW p \in Payments
  PROVE  \/ p \notin selected[t] /\ payment'[p] = payment[p] /\ ledger'[p] = ledger[p]
         \/ /\ p \in selected[t]
            /\ payment[p].status \in CapturedStatus
            /\ payment'[p].status = "settled"
            /\ payment'[p].amount = payment[p].amount
            /\ payment'[p].captured_amount = payment[p].captured_amount
            /\ payment'[p].settlement_id = s
            /\ ledger'[p] = Booked(ledger[p], "merchant_wallet", "bank_settlement",
                                   payment[p].amount)
  <1>1. payment[p] \in PaymentRow
    BY TypeSplit DEF GInv, TypeOK
  <1>2. p \in selected[t] => payment[p].status \in CapturedStatus
    BY DecisionsSplit DEF GInv, Collects
  <1>3. /\ payment'[p] = IF p \in selected[t]
                           THEN [payment[p] EXCEPT !.status = "settled", !.settlement_id = s]
                           ELSE payment[p]
        /\ ledger'[p] = IF p \in selected[t]
                          THEN Booked(ledger[p], "merchant_wallet", "bank_settlement",
                                      payment[p].amount)
                          ELSE ledger[p]
    BY DEF CommitBatch, WriteBatch
  <1> QED
    BY <1>1, <1>2, <1>3 DEF PaymentRow

\* A new payment is none that a request in progress is about.
LEMMA CreateFrame ==
  ASSUME GInv, NEW p \in Payments, NEW amt \in Amounts, ServeCreate(p, amt),
         NEW h \in Handlers, request[h] # Free
  PROVE  /\ request[h].payment \in Payments
         /\ payment'[request[h].payment] = payment[request[h].payment]
         /\ UNCHANGED <<request, refunds>>
  <1>1. /\ TypeOK /\ RequestsOK /\ Holds(h)
        /\ payment[p].status = "absent"
        /\ payment' = [payment EXCEPT ![p] = NewRow("created", amt)]
        /\ UNCHANGED <<request, refunds>>
    BY TypeSplit, DecisionsSplit DEF GInv, ServeCreate, CreatePayment
  <1>2. request[h].payment \in Payments /\ request[h].payment # p
    BY <1>1 DEF RequestsOK, Request, Holds
  <1> QED
    BY <1>1, <1>2 DEF TypeOK

\* One step of the requests, as far as the announcements can tell.
LEMMA AnnouncesStep ==
  ASSUME GInv, GInv', AnnouncesOwnChange, [GatewayNext]_gatewayVars
  PROVE  AnnouncesOwnChange'
  <1> SUFFICES ASSUME NEW g \in InPhase("announcing")'
               PROVE  LET r == request'[g]  now == payment'[r.payment].status
                      IN  /\ r.op = "authorize" =>
                               \/ r.target = "timeout"
                               \/ now = r.target /\ now \in {"authorized", "failed"}
                          /\ r.op = "refund" => now \in {r.target, "settled"}
                          /\ r.op # "capture"
    BY DEF AnnouncesOwnChange
  <1>1. /\ TypeOK /\ RequestsOK /\ RequestsOK' /\ g \in Handlers /\ loop' = g /\ loop' # Idle
        /\ request'[g] \in Request /\ request'[g].phase = "announcing" /\ request'[g] # Free
    BY TypeSplit, AnnouncerHasLoop DEF GInv, InPhase
  <1>2. request'[g] = request[g] => g \in InPhase("announcing") /\ loop = g
    BY <1>1 DEF InPhase, RequestsOK, OnLoop
  <1>3. CASE request'[g] = request[g] /\ UNCHANGED payment
    BY <1>2, <1>3 DEF AnnouncesOwnChange
  <1>4. ASSUME NEW h \in Handlers, NEW op \in Ops, NEW p \in Payments, NEW target,
               NEW amt, Begin(h, Accepted(op, p, target, amt)),
               op = "authorize" \/ target # "timeout"
        PROVE  op = "authorize" /\ request'[g].op = op /\ request'[g].target = "timeout"
    <2>1. g = h /\ request'[g] = Accepted(op, p, target, amt)
      BY <1>1, <1>4 DEF Begin, RequestsOK
    <2> QED
      BY <1>1, <1>4, <2>1 DEF Accepted
  <1>5. ASSUME NEW h \in Handlers, CommitAuthorize(h) \/ CommitRefund(h)
        PROVE  LET r == request'[g]  now == payment'[r.payment].status
               IN  /\ r.op = "authorize" =>
                        now = r.target /\ now \in {"authorized", "failed"}
                   /\ r.op = "refund" => now = r.target
                   /\ r.op # "capture"
    <2>1. h \in InPhase("running") /\ request' = [request EXCEPT ![h].phase = "announcing"]
          /\ loop' = loop
      BY <1>5 DEF CommitAuthorize, CommitRefund, Writes, Enter
    <2>2. g = h /\ request[h] \in Request /\ Holds(h) /\ request[h].phase = "running"
          /\ request[h] # Free
      BY <1>1, <2>1, RunningHasLoop, DecisionsSplit DEF GInv, InPhase
    <2>3. request'[h] = [request[h] EXCEPT !.phase = "announcing"]
      BY <1>1, <2>1 DEF RequestsOK
    <2>4. /\ request'[h].op = request[h].op
          /\ request'[h].target = request[h].target
          /\ request'[h].payment = request[h].payment
          /\ request[h].payment \in Payments
      BY <2>2, <2>3 DEF Request
    <2>5. /\ request[h].op \in {"authorize", "refund"}
          /\ payment' = [payment EXCEPT ![request[h].payment].status = request[h].target]
      BY <1>5 DEF CommitAuthorize, CommitRefund, Writes, WriteRefund
    <2>6. payment'[request[h].payment].status = request[h].target
      BY <1>1, <2>4, <2>5 DEF TypeOK, PaymentRow
    <2> QED
      BY <2>2, <2>4, <2>5, <2>6 DEF Holds
  <1>6. ASSUME NEW h \in Handlers, SubmitClose(h) \/ Rollback(h)
        PROVE  request'[g] = request[g] /\ UNCHANGED payment
    <2>1. UNCHANGED payment /\ request[h] # Free /\ request[h].phase \in {"unwinding", "closing"}
      BY <1>6 DEF SubmitClose, Rollback, tables, InPhase
    <2>2. CASE g # h
      BY <1>1, <1>6, <2>1, <2>2 DEF SubmitClose, Rollback, Enter, Leave, RequestsOK
    <2>3. CASE g = h
      <3>1. loop' = loop /\ loop = h
        BY <1>1, <1>6, <2>3 DEF SubmitClose, Rollback
      <3> QED
        BY <1>1, <2>1, <3>1 DEF RequestsOK, OnLoop
    <2> QED
      BY <2>2, <2>3
  <1>7. ASSUME NEW t \in BatchThreads, NEW s \in Settlements, CommitBatch(t, s)
        PROVE  LET r == request'[g]  now == payment'[r.payment].status
               IN  /\ r.op = "authorize" =>
                        \/ r.target = "timeout"
                        \/ now = r.target /\ now \in {"authorized", "failed"}
                   /\ r.op = "refund" => now \in {r.target, "settled"}
                   /\ r.op # "capture"
    <2>1. request' = request /\ g \in InPhase("announcing") /\ request[g].payment \in Payments
      BY <1>1, <1>2, <1>7 DEF CommitBatch, Request
    <2>2. \/ payment'[request[g].payment] = payment[request[g].payment]
          \/ /\ payment[request[g].payment].status \in CapturedStatus
             /\ payment'[request[g].payment].status = "settled"
      BY <1>7, <2>1, BatchOfOne
    <2> QED
      BY <2>1, <2>2 DEF AnnouncesOwnChange, CapturedStatus
  <1>8. CASE UNCHANGED gatewayVars
    BY <1>3, <1>8 DEF gatewayVars
  <1>9. ASSUME NEW p \in Payments, NEW amt \in Amounts, ServeCreate(p, amt)
        PROVE  LET r == request'[g]  now == payment'[r.payment].status
               IN  /\ r.op = "authorize" =>
                        \/ r.target = "timeout"
                        \/ now = r.target /\ now \in {"authorized", "failed"}
                   /\ r.op = "refund" => now \in {r.target, "settled"}
                   /\ r.op # "capture"
    <2>1. request' = request
      BY <1>9 DEF ServeCreate
    <2>2. payment'[request[g].payment] = payment[request[g].payment]
      BY <1>1, <1>9, <2>1, CreateFrame
    <2> QED
      BY <1>2, <2>1, <2>2 DEF AnnouncesOwnChange
  <1>10. ASSUME NEW h \in Handlers, NEW p \in Payments, NEW outcome \in BankOutcomes,
                BeginAuthorize(h, p, outcome)
         PROVE  request'[g].op = "authorize" /\ request'[g].target = "timeout"
    BY <1>4, <1>10 DEF BeginAuthorize, Ops
  <1>11. ASSUME NEW h \in Handlers, NEW p \in Payments, NEW requested \in Amounts \cup {0},
                BeginCapture(h, p, requested)
         PROVE  FALSE
    BY <1>4, <1>11 DEF BeginCapture, Ops
  <1>12. ASSUME NEW h \in Handlers, NEW p \in Payments, NEW amt \in Amounts,
                BeginRefund(h, p, amt)
         PROVE  FALSE
    BY <1>4, <1>12 DEF BeginRefund, Ops, RefundTarget
  <1>13. ASSUME NEW h \in Handlers, Announce(h) \/ AbandonCapture(h) PROVE FALSE
    BY <1>1, <1>13 DEF Announce, AbandonCapture
  <1>14. ASSUME NEW t \in BatchThreads, NEW m \in Merchants, ReadBatch(t, m)
         PROVE  request'[g] = request[g] /\ UNCHANGED payment
    BY <1>14 DEF ReadBatch, tables
  <1>15. CASE Crash
    BY <1>1, <1>15 DEF Crash
  <1> QED
    BY <1>3, <1>5, <1>6, <1>7, <1>8, <1>9, <1>10, <1>11, <1>12, <1>13, <1>14, <1>15
       DEF GatewayNext, Finish

\* The last log of p tells its status, or nothing has to be told.
Told(p) ==
  \/ event[p] = payment[p].status
  \/ payment[p].status = "settled"
  \/ event[p] = "none" /\ payment[p].status \in {"absent", "created", "captured"}

\* Somebody is about to write the log of p.
Pending(p) == \E h \in InPhase("announcing") : request[h].payment = p

LEMMA ToldSplit ==
  /\ LastEventTold <=> (crashes = 0 => \A p \in Payments : Pending(p) \/ Told(p))
  /\ LastEventTold' <=> (crashes' = 0 => \A p \in Payments : Pending(p)' \/ Told(p)')
  BY DEF LastEventTold, Pending, Told

LEMMA ToldFrame ==
  ASSUME NEW p, Told(p), event'[p] = event[p], payment'[p] = payment[p]
  PROVE  Told(p)'
  BY DEF Told

LEMMA ToldStep ==
  ASSUME GInv, LastEventTold, [GatewayNext]_gatewayVars
  PROVE  LastEventTold'
  <1> SUFFICES ASSUME crashes' = 0, NEW p \in Payments PROVE Pending(p)' \/ Told(p)'
    BY ToldSplit
  <1>1. TypeOK /\ RequestsOK
    BY TypeSplit DEF GInv
  <1>2. ~Crash /\ crashes = 0
    <2>1. crashes \in Nat
      BY <1>1 DEF RequestsOK
    <2>2. ~Crash
      BY <2>1 DEF Crash
    <2>3. crashes' = crashes
      BY <2>2 DEF GatewayNext, gatewayVars, ServeCreate, BeginAuthorize, BeginCapture,
         BeginRefund, Begin, Finish, CommitAuthorize, CommitRefund, Writes, Announce,
         AbandonCapture, SubmitClose, Rollback, ReadBatch, CommitBatch
    <2> QED
      BY <2>2, <2>3
  <1>3. Pending(p) \/ Told(p)
    BY <1>2, ToldSplit
  <1>4. loop = Idle => Told(p)
    BY <1>1, <1>3, AnnouncerHasLoop, LoopAssumption DEF Pending
  <1>5. CASE UNCHANGED gatewayVars
    BY <1>3, <1>5 DEF gatewayVars, Pending, InPhase, Told
  <1>6. ASSUME NEW q \in Payments, NEW amt \in Amounts, ServeCreate(q, amt), Told(p)
        PROVE  Told(p)'
    <2>1. /\ payment[q].status = "absent" /\ event' = event
          /\ payment' = [payment EXCEPT ![q] = NewRow("created", amt)]
      BY <1>6 DEF ServeCreate, CreatePayment
    <2>2. CASE p # q
      BY <1>1, <1>6, <2>1, <2>2, ToldFrame DEF TypeOK
    <2>3. CASE p = q
      <3>1. event[p] # "absent"
        BY <1>1 DEF RequestsOK, PaymentStatus
      <3>2. payment'[p].status = "created"
        BY <1>1, <2>1, <2>3 DEF TypeOK, NewRow
      <3> QED
        BY <1>6, <2>1, <2>3, <3>1, <3>2 DEF Told
    <2> QED
      BY <2>2, <2>3
  <1>7. ASSUME NEW h \in Handlers, NEW r, Begin(h, r) PROVE Told(p)'
    BY <1>4, <1>7, ToldFrame DEF Begin, tables
  <1>8. ASSUME NEW h \in Handlers, CommitAuthorize(h) \/ CommitRefund(h)
        PROVE  Pending(p)' \/ Told(p)'
    <2>1. /\ h \in InPhase("running") /\ event' = event
          /\ request' = [request EXCEPT ![h].phase = "announcing"]
          /\ payment' = [payment EXCEPT ![request[h].payment].status = request[h].target]
      BY <1>8 DEF CommitAuthorize, CommitRefund, Writes, WriteRefund, Enter
    <2>2. request[h] \in Request /\ loop = h /\ request[h].phase = "running"
      BY <1>1, <2>1, RunningHasLoop DEF InPhase
    <2>3. CASE p = request[h].payment
      <3>1. request'[h] = [request[h] EXCEPT !.phase = "announcing"]
        BY <1>1, <2>1 DEF RequestsOK
      <3>2. /\ request'[h].phase = "announcing" /\ request'[h].payment = p
            /\ request'[h] \in Request
        BY <2>2, <2>3, <3>1 DEF Request
      <3> QED
        BY <3>2, RequestIsNotFree DEF Pending, InPhase
    <2>4. CASE p # request[h].payment
      <3>1. ~Pending(p)
        <4>1. ASSUME NEW g \in InPhase("announcing") PROVE FALSE
          BY <1>1, <2>2, <4>1, AnnouncerHasLoop DEF InPhase
        <4> QED
          BY <4>1 DEF Pending
      <3> QED
        BY <1>1, <1>3, <2>1, <2>4, <3>1, ToldFrame DEF TypeOK
    <2> QED
      BY <2>3, <2>4
  <1>9. ASSUME NEW h \in Handlers, Announce(h) PROVE Told(p)'
    <2>1. h \in InPhase("announcing") /\ payment' = payment
          /\ event' = [event EXCEPT ![request[h].payment] = payment[request[h].payment].status]
      BY <1>9 DEF Announce, tables
    <2>2. CASE p = request[h].payment
      BY <1>1, <2>1, <2>2 DEF Told, RequestsOK
    <2>3. CASE p # request[h].payment
      <3>1. ~Pending(p)
        <4>1. loop = h
          BY <1>1, <2>1, AnnouncerHasLoop
        <4>2. \A g \in InPhase("announcing") : g = h
          BY <1>1, <4>1, AnnouncerHasLoop
        <4> QED
          BY <2>3, <4>2 DEF Pending
      <3> QED
        BY <1>1, <1>3, <2>1, <2>3, <3>1, ToldFrame DEF RequestsOK
    <2> QED
      BY <2>2, <2>3
  <1>10. ASSUME NEW h \in Handlers, AbandonCapture(h) \/ SubmitClose(h) \/ Rollback(h)
         PROVE  Pending(p)' \/ Told(p)'
    <2>1. /\ h \notin InPhase("announcing") /\ UNCHANGED <<payment, event>>
          /\ \A g \in Handlers \ {h} : request'[g] = request[g]
      BY <1>1, <1>10 DEF AbandonCapture, SubmitClose, Rollback, Writes, Enter, Leave, tables,
         InPhase, RequestsOK
    <2>2. Pending(p) => Pending(p)'
      BY <2>1 DEF Pending, InPhase
    <2> QED
      BY <1>3, <2>1, <2>2, ToldFrame
  <1>11. ASSUME NEW t \in BatchThreads, NEW m \in Merchants, ReadBatch(t, m), Told(p)
         PROVE  Told(p)'
    BY <1>11, ToldFrame DEF ReadBatch, tables
  <1>12. ASSUME NEW t \in BatchThreads, NEW s \in Settlements, CommitBatch(t, s)
         PROVE  Pending(p)' \/ Told(p)'
    <2>1. UNCHANGED <<request, event>>
      BY <1>12 DEF CommitBatch
    <2>2. Pending(p) => Pending(p)'
      BY <2>1 DEF Pending, InPhase
    <2>3. payment'[p] = payment[p] \/ payment'[p].status = "settled"
      BY <1>12, BatchOfOne
    <2> QED
      BY <1>3, <2>1, <2>2, <2>3 DEF Told
  <1>13. ASSUME Pending(p),
                \/ \E q \in Payments, amt \in Amounts : ServeCreate(q, amt)
                \/ \E t \in BatchThreads, m \in Merchants : ReadBatch(t, m)
         PROVE  Pending(p)'
    BY <1>13 DEF ServeCreate, ReadBatch, Pending, InPhase
  <1> QED
    BY <1>2, <1>3, <1>5, <1>6, <1>7, <1>8, <1>9, <1>10, <1>11, <1>12, <1>13
       DEF GatewayNext, Finish, BeginAuthorize, BeginCapture, BeginRefund

\* What the audit trail rests on: a payment asks for some money once it is there.
RowBasics(p) ==
  /\ payment[p].status = "absent" => payment[p] = NoPayment
  /\ payment[p].status # "absent" => payment[p].amount > 0

Audits == \A p \in Payments : RowBasics(p) /\ AuditedUpToRepeats(p)

LEMMA AuditsFrame ==
  ASSUME NEW p \in Payments, RowBasics(p), AuditedUpToRepeats(p),
         payment'[p] = payment[p], refunds'[p] = refunds[p], ledger'[p] = ledger[p]
  PROVE  RowBasics(p)' /\ AuditedUpToRepeats(p)'
  BY DEF RowBasics, AuditedUpToRepeats, Collected, CapturedOrAmount, SettledAmount

LEMMA AuditsInit == GatewayInit => Audits
  <1> SUFFICES ASSUME GatewayInit, NEW p \in Payments
               PROVE  RowBasics(p) /\ AuditedUpToRepeats(p)
    BY DEF Audits
  <1>1. GoodPayment(p) /\ payment[p] \in PaymentRow
    BY InitTypeOK, InitGood DEF GatewayInit, TypeOK
  <1>2. RowBasics(p)
    BY <1>1, AmountsAssumption DEF GoodPayment, RowMatchesStatus, RowBasics, PaymentRow
  <1>3. payment[p].settlement_id = NoSettlement
    BY DEF GatewayInit, Init, NoPayment, LegacyRow, NewRow
  <1> QED
    BY <1>1, <1>2, <1>3 DEF GoodPayment, Audited, AuditedUpToRepeats, SettledAmount

\* Only a refund and a batch write the ledger, and both write whole pairs; a
\* batch may find its pair already there.
LEMMA AuditsStep ==
  ASSUME GInv, Audits, [GatewayNext]_gatewayVars
  PROVE  Audits'
  <1> SUFFICES ASSUME NEW p \in Payments PROVE RowBasics(p)' /\ AuditedUpToRepeats(p)'
    BY DEF Audits
  <1>1. /\ TypeOK /\ RequestsOK /\ RowBasics(p) /\ AuditedUpToRepeats(p)
        /\ payment[p] \in PaymentRow /\ refunds[p] \in RefundRows /\ ledger[p] \in LedgerRows
    BY TypeSplit DEF GInv, Audits, TypeOK
  <1>2. CASE UNCHANGED tables
    BY <1>1, <1>2, AuditsFrame DEF tables
  <1>3. ASSUME NEW q \in Payments, NEW amt \in Amounts, ServeCreate(q, amt)
        PROVE  RowBasics(p)' /\ AuditedUpToRepeats(p)'
    <2>1. /\ payment[q].status = "absent" /\ UNCHANGED <<refunds, ledger>>
          /\ payment' = [payment EXCEPT ![q] = NewRow("created", amt)]
      BY <1>3 DEF ServeCreate, CreatePayment
    <2>2. CASE p # q
      BY <1>1, <2>1, <2>2, AuditsFrame DEF TypeOK
    <2>3. CASE p = q
      <3>1. payment'[p] = NewRow("created", amt) /\ payment[p] = NoPayment /\ amt > 0
        BY <1>1, <2>1, <2>3, AmountsAssumption DEF TypeOK, RowBasics
      <3>2. Collected(p)' = Collected(p) /\ SettledAmount(p)' = SettledAmount(p)
            /\ payment'[p].settlement_id = payment[p].settlement_id
        BY <3>1 DEF Collected, SettledAmount, NewRow, NoPayment, CapturedStatus
      <3> QED
        BY <1>1, <2>1, <3>1, <3>2 DEF RowBasics, AuditedUpToRepeats, NewRow
    <2> QED
      BY <2>2, <2>3
  <1>4. ASSUME NEW h \in Handlers, CommitAuthorize(h)
        PROVE  RowBasics(p)' /\ AuditedUpToRepeats(p)'
    <2> DEFINE q == request[h].payment
               target == request[h].target
    <2>1. /\ request[h] \in Request /\ request[h] # Free /\ request[h].phase = "running"
          /\ request[h].op = "authorize"
          /\ payment' = [payment EXCEPT ![q].status = target] /\ UNCHANGED <<refunds, ledger>>
      BY <1>1, <1>4, RunningHasLoop DEF CommitAuthorize, Writes, InPhase
    <2>2. /\ target \in {"authorized", "failed"}
          /\ payment[q].status \in {"created", "authorized"}
      <3>1. Holds(h)
        BY DecisionsSplit DEF GInv
      <3> QED
        BY <2>1, <3>1 DEF Holds, CanTransition, TRANSITIONS
    <2> HIDE DEF q, target
    <2>3. CASE p # q
      BY <1>1, <2>1, <2>3, AuditsFrame DEF TypeOK
    <2>4. CASE p = q
      <3>1. /\ payment'[p].status = target
            /\ payment'[p].amount = payment[p].amount
            /\ payment'[p].settlement_id = payment[p].settlement_id
        BY <1>1, <2>1, <2>4 DEF TypeOK, PaymentRow
      <3>2. Collected(p)' = Collected(p) /\ SettledAmount(p)' = SettledAmount(p)
        BY <2>2, <2>4, <3>1 DEF Collected, SettledAmount, CapturedStatus
      <3> QED
        BY <1>1, <2>1, <2>2, <2>4, <3>1, <3>2 DEF RowBasics, AuditedUpToRepeats
    <2> QED
      BY <2>3, <2>4
  <1>5. ASSUME NEW h \in Handlers, CommitRefund(h)
        PROVE  RowBasics(p)' /\ AuditedUpToRepeats(p)'
    <2> DEFINE q == request[h].payment
               target == request[h].target
               amt == request[h].amount
    <2>1. /\ request[h] \in Request /\ request[h] # Free /\ request[h].phase = "running"
          /\ request[h].op = "refund"
          /\ payment' = [payment EXCEPT ![q].status = target]
          /\ refunds' = [refunds EXCEPT ![q] = [count |-> refunds[q].count + 1,
                                               total |-> refunds[q].total + amt]]
          /\ ledger' = [ledger EXCEPT ![q] =
               Booked(ledger[q], "merchant_wallet", "customer_holding", amt)]
      BY <1>1, <1>5, RunningHasLoop DEF CommitRefund, Writes, InPhase, WriteRefund, RecordRefund
    <2>2. /\ target \in {"refunded", "partially_refunded"}
          /\ payment[q].status \in {"captured", "settled", "partially_refunded"}
          /\ amt \in Nat
      <3>1. Holds(h)
        BY DecisionsSplit DEF GInv
      <3> QED
        BY <2>1, <3>1 DEF Holds, CanTransition, TRANSITIONS, Request
    <2> HIDE DEF q, target, amt
    <2>3. CASE p # q
      BY <1>1, <2>1, <2>3, AuditsFrame DEF TypeOK
    <2>4. CASE p = q
      <3>1. /\ payment'[p].status = target
            /\ payment'[p].amount = payment[p].amount
            /\ payment'[p].captured_amount = payment[p].captured_amount
            /\ payment'[p].settlement_id = payment[p].settlement_id
            /\ refunds'[p].total = refunds[p].total + amt
            /\ ledger'[p] = Booked(ledger[p], "merchant_wallet", "customer_holding", amt)
        BY <1>1, <2>1, <2>4 DEF TypeOK, PaymentRow
      <3>2. Collected(p)' = Collected(p) /\ SettledAmount(p)' = SettledAmount(p)
        BY <2>2, <2>4, <3>1 DEF Collected, CapturedOrAmount, SettledAmount, CapturedStatus
      <3>3. Collected(p) \in Nat /\ SettledAmount(p) \in Nat
        BY <1>1, AmountsAssumption DEF Collected, CapturedOrAmount, SettledAmount, PaymentRow
      <3>4. RowBasics(p)'
        BY <1>1, <2>2, <2>4, <3>1 DEF RowBasics
      <3>5. AuditedUpToRepeats(p)'
        BY <1>1, <2>2, <3>1, <3>2, <3>3
           DEF AuditedUpToRepeats, Booked, LedgerRows, RefundRows, Accounts
      <3> QED
        BY <3>4, <3>5
    <2> QED
      BY <2>3, <2>4
  <1>6. ASSUME NEW t \in BatchThreads, NEW s \in Settlements, CommitBatch(t, s)
        PROVE  RowBasics(p)' /\ AuditedUpToRepeats(p)'
    <2>1. refunds' = refunds
      BY <1>6 DEF CommitBatch, WriteBatch
    <2>2. CASE payment'[p] = payment[p] /\ ledger'[p] = ledger[p]
      BY <1>1, <2>1, <2>2, AuditsFrame
    <2>3. CASE /\ payment[p].status \in CapturedStatus
               /\ payment'[p].status = "settled"
               /\ payment'[p].amount = payment[p].amount
               /\ payment'[p].captured_amount = payment[p].captured_amount
               /\ payment'[p].settlement_id = s
               /\ ledger'[p] = Booked(ledger[p], "merchant_wallet", "bank_settlement",
                                      payment[p].amount)
      <3>1. Collected(p)' = Collected(p) /\ SettledAmount(p)' = payment[p].amount
        BY <2>3, SettlementsAssumption DEF Collected, CapturedOrAmount, SettledAmount, CapturedStatus
      <3>2. payment[p].amount \in Nat /\ payment[p].amount > 0 /\ Collected(p) \in Nat
        BY <1>1, <2>3, AmountsAssumption
           DEF RowBasics, CapturedStatus, PaymentRow, Collected, CapturedOrAmount
      <3>3. RowBasics(p)'
        BY <2>3, <3>2 DEF RowBasics
      <3>4. AuditedUpToRepeats(p)'
        BY <1>1, <2>1, <2>3, <3>1, <3>2, SettlementsAssumption
           DEF AuditedUpToRepeats, Booked, LedgerRows, RefundRows, Accounts
      <3> QED
        BY <3>3, <3>4
    <2> QED
      BY <1>6, <2>2, <2>3, BatchOfOne
  <1> QED
    BY <1>2, <1>3, <1>4, <1>5, <1>6 DEF GatewayNext, gatewayVars, tables, BeginAuthorize,
       BeginCapture, BeginRefund, Begin, Finish, Announce, AbandonCapture, SubmitClose,
       Rollback, ReadBatch, Crash

\* What every payment brought in and did not give back is a sum of money.
LEMMA NetInGateway ==
  /\ GInv => \A q \in Payments : Net(q) \in Nat
  /\ GInv' => \A q \in Payments : Net(q)' \in Nat
  <1>1. GInv => \A q \in Payments : Net(q) \in Nat
    <2> SUFFICES ASSUME GInv, NEW q \in Payments PROVE Net(q) \in Nat
      OBVIOUS
    <2>1. payment[q] \in PaymentRow /\ refunds[q] \in RefundRows
      BY TypeSplit DEF GInv, TypeOK
    <2>2. Collected(q) \in Nat /\ refunds[q].total \in Nat
      BY <2>1, AmountsAssumption DEF Collected, CapturedOrAmount, PaymentRow, RefundRows
    <2>3. refunds[q].total <= Collected(q)
      BY DEF GInv, RefundsWithinCaptured
    <2> QED
      BY <2>2, <2>3 DEF Net
  <1>2. (GInv => \A q \in Payments : Net(q) \in Nat)'
    BY <1>1, PTL
  <1> QED
    BY <1>1, <1>2

\* Only a refund moves money, and the balance it has read is the stored one when
\* it writes.
LEMMA GatewayWalletStep ==
  ASSUME GInv, GInv', WalletIsNetFunds, [GatewayNext]_gatewayVars
  PROVE  WalletIsNetFunds'
  <1>1. /\ TypeOK /\ RequestsOK
        /\ \A q \in Payments : payment[q] \in PaymentRow /\ refunds[q] \in RefundRows
    BY TypeSplit DEF GInv, TypeOK
  <1>2. \A q \in Payments : Net(q) \in Nat /\ Net(q)' \in Nat
    BY NetInGateway
  <1>3. CASE UNCHANGED tables
    <2>1. ASSUME NEW q \in Payments PROVE Net(q)' = Net(q)
      BY <1>3 DEF tables, Net, Collected, CapturedOrAmount
    <2> QED
      BY <1>2, <1>3, <2>1, WalletFrame DEF tables
  <1>4. ASSUME NEW p \in Payments, NEW amt \in Amounts, ServeCreate(p, amt)
        PROVE  WalletIsNetFunds'
    <2>1. ASSUME NEW q \in Payments PROVE Net(q)' = Net(q)
      BY <1>1, <1>4 DEF ServeCreate, CreatePayment, TypeOK, NewRow, Net, Collected,
         CapturedOrAmount, CapturedStatus
    <2> QED
      BY <1>2, <1>4, <2>1, WalletFrame DEF ServeCreate, CreatePayment
  <1>5. ASSUME NEW h \in Handlers, CommitAuthorize(h) PROVE WalletIsNetFunds'
    <2> DEFINE p == request[h].payment
               target == request[h].target
    <2>1. /\ request[h] \in Request /\ request[h] # Free /\ request[h].phase = "running"
          /\ request[h].op = "authorize"
          /\ payment' = [payment EXCEPT ![p].status = target] /\ UNCHANGED <<refunds, wallet>>
      BY <1>1, <1>5, RunningHasLoop DEF CommitAuthorize, Writes, InPhase
    <2>2. /\ target \in {"authorized", "failed"}
          /\ payment[p].status \in {"created", "authorized"}
      <3>1. Holds(h)
        BY DecisionsSplit DEF GInv
      <3> QED
        BY <2>1, <3>1 DEF Holds, CanTransition, TRANSITIONS
    <2> HIDE DEF p, target
    <2>3. ASSUME NEW q \in Payments PROVE Net(q)' = Net(q)
      <3>1. (q # p /\ payment'[q] = payment[q]) \/ (q = p /\ payment'[q].status = target)
        BY <1>1, <2>1 DEF TypeOK, PaymentRow
      <3> QED
        BY <2>1, <2>2, <3>1 DEF Net, Collected, CapturedOrAmount, CapturedStatus
    <2> QED
      BY <1>2, <2>1, <2>3, WalletFrame
  <1>6. ASSUME NEW h \in Handlers, CommitRefund(h) PROVE WalletIsNetFunds'
    <2>0. PICK r \in Request : r = request[h] /\ r # Free
      BY <1>1, <1>6, RunningHasLoop DEF CommitRefund, Writes
    <2> DEFINE p == r.payment
               target == r.target
               amt == r.amount
    <2>1. /\ r.phase = "running" /\ r.op = "refund"
          /\ payment' = [payment EXCEPT ![p].status = target]
          /\ refunds' = [refunds EXCEPT ![p] = [count |-> refunds[p].count + 1,
                                               total |-> refunds[p].total + amt]]
          /\ SetWallet(p, r.balance - amt)
      BY <1>6, <2>0 DEF CommitRefund, Writes, InPhase, WriteRefund, RecordRefund
    <2>2. /\ p \in Payments
          /\ target \in CapturedStatus
          /\ payment[p].status \in CapturedStatus
          /\ amt \in Nat
          /\ r.balance = wallet[Owner[p]].balance
      <3>1. Holds(h)
        BY DecisionsSplit DEF GInv
      <3> QED
        BY <2>0, <2>1, <3>1, AmountsAssumption DEF Holds, CanTransition, TRANSITIONS, Request,
           CapturedStatus
    <2>3. SetWallet(p, wallet[Owner[p]].balance + (-amt))
      <3>1. wallet[Owner[p]] \in WalletRow
        BY <1>1, <2>2, PaymentsAssumption DEF TypeOK
      <3>2. wallet[Owner[p]].balance - amt = wallet[Owner[p]].balance + (-amt)
        BY <2>2, <3>1 DEF WalletRow, IntColumn
      <3> QED
        BY <2>1, <2>2, <3>2
    <2> HIDE DEF p, target, amt
    <2>4. /\ payment'[p].status = target
          /\ payment'[p].amount = payment[p].amount
          /\ payment'[p].captured_amount = payment[p].captured_amount
          /\ refunds'[p].total = refunds[p].total + amt
          /\ \A q \in Payments \ {p} : payment'[q] = payment[q] /\ refunds'[q] = refunds[q]
      BY <1>1, <2>1, <2>2 DEF TypeOK, PaymentRow
    <2>5. Net(p)' = Net(p) + (-amt)
      <3>1. Collected(p)' = Collected(p)
        BY <2>2, <2>4 DEF Collected, CapturedOrAmount
      <3>2. Collected(p) \in Nat /\ refunds[p].total \in Nat
        BY <1>1, <2>2, AmountsAssumption DEF Collected, CapturedOrAmount, PaymentRow, RefundRows
      <3> QED
        BY <2>2, <2>4, <3>1, <3>2 DEF Net
    <2>6. \A q \in Payments \ {p} : Net(q)' = Net(q)
      BY <2>4 DEF Net, Collected, CapturedOrAmount
    <2>7. -amt \in Int
      BY <2>2
    <2> QED
      BY <1>1, <1>2, <2>2, <2>3, <2>5, <2>6, <2>7, WalletFollows
  <1>7. ASSUME NEW t \in BatchThreads, NEW s \in Settlements, CommitBatch(t, s)
        PROVE  WalletIsNetFunds'
    <2>1. UNCHANGED <<refunds, wallet>>
      BY <1>7 DEF CommitBatch, WriteBatch
    <2>2. ASSUME NEW q \in Payments PROVE Net(q)' = Net(q)
      <3>1. Collected(q)' = Collected(q)
        BY <1>7, BatchOfOne DEF Collected, CapturedOrAmount, CapturedStatus
      <3> QED
        BY <2>1, <3>1 DEF Net
    <2> QED
      BY <1>2, <2>1, <2>2, WalletFrame
  <1> QED
    BY <1>3, <1>4, <1>5, <1>6, <1>7 DEF GatewayNext, gatewayVars, tables, BeginAuthorize,
       BeginCapture, BeginRefund, Begin, Finish, Announce, AbandonCapture, SubmitClose,
       Rollback, ReadBatch, Crash

\* What was sent to the bank for each payment, and with each settlement.
Sent == [p \in Payments |-> ledger[p].credit["bank_settlement"]]
SentWith == [s \in Settlements |-> settlement[s].amount]

\* The inductive form of BankMatchesSettlements: no settlement takes money back.
BankInv == BankMatchesSettlements /\ \A s \in Settlements : settlement[s].amount \in Nat

LEMMA BankSplit ==
  /\ BankMatchesSettlements <=>
       SumFunctionOnSet(Sent, Payments) = SumFunctionOnSet(SentWith, Settlements)
  /\ BankMatchesSettlements' <=>
       SumFunctionOnSet(Sent', Payments) = SumFunctionOnSet(SentWith', Settlements)
  BY DEF BankMatchesSettlements, SumFunction, Sent, SentWith

LEMMA BankInit == GatewayInit => BankInv
  <1> SUFFICES ASSUME GatewayInit PROVE BankInv
    OBVIOUS
  <1>1. \A p \in Payments : Sent[p] = 0
    <2>1. \A p \in Payments : payment[p].amount \in Nat
      BY InitTypeOK, AmountsAssumption DEF GatewayInit, TypeOK, PaymentRow
    <2> QED
      BY <2>1 DEF GatewayInit, Init, Sent, Booked, NoEntries, Accounts
  <1>2. \A s \in Settlements : SentWith[s] = 0 /\ settlement[s].amount = 0
    BY DEF GatewayInit, Init, SentWith, NoBatch
  <1>3. SumFunctionOnSet(Sent, Payments) = 0 /\ SumFunctionOnSet(SentWith, Settlements) = 0
    BY <1>1, <1>2, SumZero, PaymentsAssumption, SettlementsAssumption
  <1> QED
    BY <1>2, <1>3, BankSplit DEF BankInv

\* A batch sends the amounts of its payments with a settlement that had none.
LEMMA BankStep ==
  ASSUME GInv, BankInv, [GatewayNext]_gatewayVars
  PROVE  BankInv'
  <1>1. /\ TypeOK /\ RequestsOK
        /\ \A p \in Payments : payment[p] \in PaymentRow /\ ledger[p] \in LedgerRows
    BY TypeSplit DEF GInv, TypeOK
  <1>2. ASSUME Sent' = Sent, settlement' = settlement PROVE BankInv'
    <2>1. SentWith' = SentWith
      BY <1>2 DEF SentWith
    <2> QED
      BY <1>2, <2>1, BankSplit DEF BankInv
  <1>3. CASE ledger' = ledger /\ settlement' = settlement
    BY <1>2, <1>3 DEF Sent
  <1>4. ASSUME NEW h \in Handlers, CommitRefund(h) PROVE BankInv'
    <2> DEFINE p == request[h].payment
               amt == request[h].amount
    <2>1. /\ settlement' = settlement
          /\ ledger' = [ledger EXCEPT ![p] =
               Booked(ledger[p], "merchant_wallet", "customer_holding", amt)]
      BY <1>4 DEF CommitRefund, WriteRefund, RecordRefund
    <2> HIDE DEF p, amt
    <2>2. ASSUME NEW q \in Payments PROVE Sent'[q] = Sent[q]
      BY <1>1, <2>1 DEF TypeOK, Sent, Booked, LedgerRows, Accounts
    <2>3. Sent' = Sent
      BY <2>2 DEF Sent
    <2> QED
      BY <1>2, <2>1, <2>3
  <1>5. ASSUME NEW t \in BatchThreads, NEW s \in Settlements, CommitBatch(t, s) PROVE BankInv'
    <2> DEFINE batch == selected[t]
               amount == [p \in Payments |-> payment[p].amount]
    <2>1. batch \in SUBSET Payments
      BY <1>1 DEF RequestsOK
    <2>2. /\ settlement[s] = NoBatch
          /\ settlement' = [settlement EXCEPT ![s] =
               [amount |-> SumFunctionOnSet(amount, batch), payment_count |-> Cardinality(batch)]]
          /\ ledger' = [p \in Payments |->
               IF p \in batch
                 THEN Booked(ledger[p], "merchant_wallet", "bank_settlement", payment[p].amount)
                 ELSE ledger[p]]
      BY <1>5 DEF CommitBatch, WriteBatch, BatchAmount
    <2> HIDE DEF batch
    <2>3. /\ IsFiniteSet(batch) /\ IsFiniteSet(Payments \ batch)
          /\ \A p \in Payments : amount[p] \in Nat /\ Sent[p] \in Nat
      <3>1. IsFiniteSet(batch) /\ IsFiniteSet(Payments \ batch)
        BY <2>1, FS_Subset, PaymentsAssumption
      <3>2. \A p \in Payments : amount[p] \in Nat
        BY <1>1, AmountsAssumption DEF PaymentRow
      <3>3. \A p \in Payments : Sent[p] \in Nat
        BY <1>1 DEF LedgerRows, Accounts, Sent
      <3> QED
        BY <3>1, <3>2, <3>3
    <2>4. \A p \in Payments :
            Sent'[p] = IF p \in batch THEN Sent[p] + amount[p] ELSE Sent[p]
      BY <1>1, <2>2 DEF Sent, Booked, LedgerRows, Accounts
    <2> HIDE DEF amount
    <2>5. SumFunctionOnSet(amount, batch) \in Nat
      BY <2>1, <2>3, SumType
    <2>6. SumFunctionOnSet(Sent', Payments) =
            SumFunctionOnSet(Sent, Payments) + SumFunctionOnSet(amount, batch)
      <3>1. SumFunctionOnSet(Sent', batch) =
              SumFunctionOnSet(Sent, batch) + SumFunctionOnSet(amount, batch)
        BY <2>1, <2>3, <2>4, SumAdd
      <3>2. SumFunctionOnSet(Sent', Payments \ batch) = SumFunctionOnSet(Sent, Payments \ batch)
        BY <2>3, <2>4, SumSame
      <3>3. SumFunctionOnSet(Sent, Payments) =
              SumFunctionOnSet(Sent, batch) + SumFunctionOnSet(Sent, Payments \ batch)
        BY <2>1, <2>3, PaymentsAssumption, SumSplit
      <3>4. SumFunctionOnSet(Sent', Payments) =
              SumFunctionOnSet(Sent', batch) + SumFunctionOnSet(Sent', Payments \ batch)
        <4>1. \A p \in Payments : Sent'[p] \in Nat
          BY <2>3, <2>4
        <4> QED
          BY <2>1, <4>1, PaymentsAssumption, SumSplit
      <3>5. /\ SumFunctionOnSet(Sent, batch) \in Nat
            /\ SumFunctionOnSet(Sent, Payments \ batch) \in Nat
        BY <2>1, <2>3, SumType
      <3> QED
        BY <2>5, <3>1, <3>2, <3>3, <3>4, <3>5
    <2>7. /\ SentWith[s] = 0 /\ SentWith'[s] = SumFunctionOnSet(amount, batch)
          /\ \A u \in Settlements \ {s} : SentWith'[u] = SentWith[u]
          /\ \A u \in Settlements : SentWith[u] \in Nat
      BY <1>1, <2>2 DEF SentWith, NoBatch, BankInv, TypeOK
    <2>8. \A u \in Settlements : SentWith'[u] \in Nat
      BY <2>5, <2>7
    <2>9. SumFunctionOnSet(SentWith', Settlements) =
            SumFunctionOnSet(SentWith, Settlements) + SumFunctionOnSet(amount, batch)
      <3>1. SumFunctionOnSet(SentWith', Settlements) =
              SumFunctionOnSet(SentWith, Settlements) + SentWith'[s] - SentWith[s]
        BY <2>7, <2>8, SettlementsAssumption, SumUpdate
      <3>2. SumFunctionOnSet(SentWith, Settlements) \in Nat
        BY <2>7, SettlementsAssumption, SumType
      <3> QED
        BY <2>5, <2>7, <3>1, <3>2
    <2>10. \A u \in Settlements : settlement'[u].amount \in Nat
      BY <2>8 DEF SentWith
    <2> QED
      BY <2>6, <2>9, <2>10, BankSplit DEF BankInv
  <1> QED
    BY <1>3, <1>4, <1>5 DEF GatewayNext, gatewayVars, tables, ServeCreate, CreatePayment,
       BeginAuthorize, BeginCapture, BeginRefund, Begin, Finish, CommitAuthorize, Announce,
       AbandonCapture, SubmitClose, Rollback, ReadBatch, Crash

\* No interleaving of refunds, authorizations, abandoned captures and batches
\* gives a customer back more than was collected (create_refund against
\* create_settlement_batch).
THEOREM NeverOverRefunded == GatewaySpec => []RefundsWithinCaptured
  BY GatewayInvariance, PTL DEF GInv

\* What a handler decided before it blocked in the database still holds when it
\* writes, and a batch only ever takes collected payments.
THEOREM DecisionsStayValid == GatewaySpec => []DecisionsHold
  BY GatewayInvariance, PTL DEF GInv

\* The tables keep their types and the loop runs one handler at most.
THEOREM GatewayTypeCorrect == GatewaySpec => []GatewayTypeOK
  BY GatewayInvariance, PTL DEF GInv

\* Until its log is written, the change that a handler announces is the last
\* one of the payment, or a batch has settled the refunded payment.
THEOREM AnnouncementsAreOwn == GatewaySpec => []AnnouncesOwnChange
  <1>1. GatewayInit => AnnouncesOwnChange
    BY DEF GatewayInit, AnnouncesOwnChange, InPhase
  <1>2. GInv /\ GInv' /\ AnnouncesOwnChange /\ [GatewayNext]_gatewayVars => AnnouncesOwnChange'
    BY AnnouncesStep
  <1> QED
    BY <1>1, <1>2, GatewayInvariance, PTL DEF GatewaySpec

\* The last log of a payment tells its status, whatever handlers and batches
\* overlap, until a crash comes between the two commits of a handler.
THEOREM EventsKeepUp == GatewaySpec => []LastEventTold
  <1>1. GatewayInit => LastEventTold
    <2> SUFFICES ASSUME GatewayInit, NEW p \in Payments PROVE Told(p)
      BY ToldSplit
    <2> QED
      BY DEF GatewayInit, Init, Told, NoPayment, LegacyRow, NewRow
  <1>2. GInv /\ LastEventTold /\ [GatewayNext]_gatewayVars => LastEventTold'
    BY ToldStep
  <1> QED
    BY <1>1, <1>2, GatewayInvariance, PTL DEF GatewaySpec

\* Whatever overlaps, the ledger of a payment is its capture, its refunds and a
\* number of settlements that is 0 iff it belongs to none.
THEOREM LedgerUpToRepeats == GatewaySpec => []AuditTrailUpToRepeats
  <1>1. GInv /\ Audits /\ [GatewayNext]_gatewayVars => Audits'
    BY AuditsStep
  <1>2. Audits => AuditTrailUpToRepeats
    BY DEF Audits, AuditTrailUpToRepeats
  <1> QED
    BY <1>1, <1>2, AuditsInit, GatewayInvariance, PTL DEF GatewaySpec

\* However refunds, abandoned captures and batches overlap, no update of a
\* wallet is lost: its balance is what the merchant's payments brought in and
\* did not give back.
THEOREM WalletsKeepUp == GatewaySpec => []WalletIsNetFunds
  <1>1. GatewayInit => WalletIsNetFunds
    BY DEF GatewayInit, Init, WalletIsNetFunds
  <1>2. GInv /\ GInv' /\ WalletIsNetFunds /\ [GatewayNext]_gatewayVars => WalletIsNetFunds'
    BY GatewayWalletStep
  <1> QED
    BY <1>1, <1>2, GatewayInvariance, PTL DEF GatewaySpec

\* The bank account of the ledger and the settlements tell of the same money,
\* also when several batches take the same payments.
THEOREM BankAccountMatches == GatewaySpec => []BankMatchesSettlements
  <1>1. GInv /\ BankInv /\ [GatewayNext]_gatewayVars => BankInv'
    BY BankStep
  <1>2. BankInv => BankMatchesSettlements
    BY DEF BankInv
  <1> QED
    BY <1>1, <1>2, BankInit, GatewayInvariance, PTL DEF GatewaySpec

\* Nor does any overlap of requests let a refund overdraw a wallet.
THEOREM GatewayRefundsCovered == GatewaySpec => []WalletsCoverRefunds
  <1>1. GInv /\ WalletIsNetFunds => WalletsCoverRefunds
    BY RefundsCovered, NetInGateway, TypeSplit DEF GInv
  <1> QED
    BY <1>1, GatewayInvariance, WalletsKeepUp, PTL

\* The cached wallets and the ledger are as far apart as the money sent to the
\* bank, also when batches send the same money twice.
THEOREM GatewayWalletMatchesLedger == GatewaySpec => []WalletAgainstLedger
  <1>1. GInv /\ Audits /\ WalletIsNetFunds => WalletAgainstLedger
    <2> SUFFICES ASSUME GInv, Audits, WalletIsNetFunds PROVE WalletAgainstLedger
      OBVIOUS
    <2>1. TypeOK
      BY TypeSplit DEF GInv
    <2>2. ASSUME NEW q \in Payments
          PROVE  Net(q) + ledger[q].debit["merchant_wallet"] =
                   ledger[q].credit["merchant_wallet"] + ledger[q].credit["bank_settlement"]
      <3>1. AuditedUpToRepeats(q)
        BY DEF Audits
      <3>2. /\ payment[q] \in PaymentRow /\ refunds[q] \in RefundRows
            /\ ledger[q] \in LedgerRows
        BY <2>1 DEF TypeOK
      <3>3. /\ Collected(q) \in Nat /\ refunds[q].total \in Nat
            /\ ledger[q].credit["bank_settlement"] \in Nat
        BY <3>2, AmountsAssumption
           DEF Collected, CapturedOrAmount, PaymentRow, RefundRows, LedgerRows, Accounts
      <3> QED
        BY <3>1, <3>3 DEF AuditedUpToRepeats, Net
    <2> QED
      BY <2>1, <2>2, NetInGateway, WalletLedgerSum
  <1>2. GInv /\ Audits /\ [GatewayNext]_gatewayVars => Audits'
    BY AuditsStep
  <1> QED
    BY <1>1, <1>2, AuditsInit, GatewayInvariance, WalletsKeepUp, PTL DEF GatewaySpec
-----------------------------------------------------------------------------
\* No request collects any money: the capture endpoint, which never commits, is
\* the only one that could.  What was collected before the first call is all
\* that refunds and batches will ever move.
NothingCollected == \A p \in Payments : Collected(p)' = Collected(p)

LEMMA CollectedStep ==
  ASSUME GInv, [GatewayNext]_gatewayVars, NEW p \in Payments
  PROVE  /\ Collected(p)' = Collected(p)
         /\ payment'[p].captured_amount \in {payment[p].captured_amount, 0}
  <1>1. TypeOK /\ RequestsOK
    BY TypeSplit DEF GInv
  <1>2. ASSUME payment'[p] = payment[p]
        PROVE  /\ Collected(p)' = Collected(p)
               /\ payment'[p].captured_amount = payment[p].captured_amount
    BY <1>2 DEF Collected, CapturedOrAmount
  <1>3. ASSUME NEW q \in Payments, NEW amt \in Amounts, ServeCreate(q, amt)
        PROVE  /\ Collected(p)' = Collected(p)
               /\ payment'[p].captured_amount \in {payment[p].captured_amount, 0}
    <2>1. /\ payment[q].status = "absent"
          /\ payment' = [payment EXCEPT ![q] = NewRow("created", amt)]
      BY <1>3 DEF ServeCreate, CreatePayment
    <2>2. CASE p # q
      BY <1>1, <1>2, <2>1, <2>2 DEF TypeOK
    <2>3. CASE p = q
      BY <1>1, <2>1, <2>3 DEF TypeOK, NewRow, Collected, CapturedOrAmount, CapturedStatus
    <2> QED
      BY <2>2, <2>3
  <1>4. ASSUME NEW h \in Handlers, CommitAuthorize(h) \/ CommitRefund(h)
        PROVE  /\ Collected(p)' = Collected(p)
               /\ payment'[p].captured_amount = payment[p].captured_amount
    <2> DEFINE q == request[h].payment
               target == request[h].target
    <2>1. /\ request[h] # Free /\ request[h].phase = "running" /\ Holds(h)
          /\ payment' = [payment EXCEPT ![q].status = target]
      BY <1>1, <1>4, RunningHasLoop, DecisionsSplit
         DEF GInv, CommitAuthorize, CommitRefund, Writes, WriteRefund, InPhase
    <2>2. payment[q].status \in CapturedStatus <=> target \in CapturedStatus
      <3>1. request[h].op \in {"authorize", "refund"}
        BY <1>4 DEF CommitAuthorize, CommitRefund, Writes
      <3>2. target \in {"authorized", "failed", "refunded", "partially_refunded"}
        BY <2>1, <3>1 DEF Holds
      <3>3. CanTransition(payment[q].status, target)
        BY <2>1 DEF Holds
      <3> QED
        BY <3>2, <3>3 DEF CanTransition, TRANSITIONS, CapturedStatus
    <2> HIDE DEF q, target
    <2>3. CASE p # q
      BY <1>1, <1>2, <2>1, <2>3 DEF TypeOK
    <2>4. CASE p = q
      <3>1. /\ payment'[p].status = target
            /\ payment'[p].amount = payment[p].amount
            /\ payment'[p].captured_amount = payment[p].captured_amount
        BY <1>1, <2>1, <2>4 DEF TypeOK, PaymentRow
      <3> QED
        BY <2>2, <2>4, <3>1 DEF Collected, CapturedOrAmount
    <2> QED
      BY <2>3, <2>4
  <1>5. ASSUME NEW t \in BatchThreads, NEW s \in Settlements, CommitBatch(t, s)
        PROVE  /\ Collected(p)' = Collected(p)
               /\ payment'[p].captured_amount = payment[p].captured_amount
    BY <1>5, BatchOfOne DEF Collected, CapturedOrAmount, CapturedStatus
  <1> QED
    BY <1>2, <1>3, <1>4, <1>5 DEF GatewayNext, gatewayVars, tables, BeginAuthorize,
       BeginCapture, BeginRefund, Begin, Finish, Announce, AbandonCapture, SubmitClose,
       Rollback, ReadBatch, Crash

\* No sequence of requests, however they overlap, makes a payment a collected
\* one (the capture handler returns without a commit).
THEOREM NothingIsCollected == GatewaySpec => [][NothingCollected]_gatewayVars
  <1>1. GInv /\ [GatewayNext]_gatewayVars => NothingCollected
    BY CollectedStep DEF NothingCollected
  <1> QED
    BY <1>1, GatewayInvariance, PTL DEF GatewaySpec

\* What a request is about to write fits its INTEGER column: no refund or batch
\* that was accepted fails in the database.
WritesFit ==
  /\ \A h \in Handlers :
       LET r == request[h]
       IN  r # Free /\ r.op = "refund" /\ r.phase = "running"
             => r.balance - r.amount \in IntColumn
  /\ \A t \in BatchThreads : BatchAmount(selected[t]) \in IntColumn

\* What was collected for the merchant m, refunds not counted.
Gross(m) == SumFunctionOnSet([p \in Payments |-> Collected(p)], PaymentsOf(m))

\* What WritesFit rests on: captured payments were captured in full, the wallet
\* had room for all of them, and a batch is one merchant's.
FitInv ==
  /\ \A p \in Payments : payment[p].captured_amount = 0
  /\ \A m \in Merchants : Gross(m) <= MaxInt
  /\ \A t \in BatchThreads : \A p, q \in selected[t] : Owner[p] = Owner[q]

LEMMA FitInit == GatewayInit => FitInv
  <1> SUFFICES ASSUME GatewayInit PROVE FitInv
    OBVIOUS
  <1>1. ASSUME NEW m \in Merchants PROVE Gross(m) <= MaxInt
    <2>1. /\ wallet[m].balance = NetFunds(m) /\ wallet[m].balance \in IntColumn
          /\ \A p \in Payments : payment[p].amount \in Nat
          /\ \A p \in Payments : payment[p].captured_amount = 0 /\ refunds[p].total = 0
      BY InitTypeOK, AmountsAssumption
         DEF GatewayInit, Init, WalletRow, NoPayment, LegacyRow, NewRow, NoRefunds, TypeOK,
             PaymentRow
    <2>2. \A p \in Payments : Collected(p) - refunds[p].total = Collected(p)
      BY <2>1 DEF Collected, CapturedOrAmount
    <2>3. [p \in Payments |-> Collected(p) - refunds[p].total] =
            [p \in Payments |-> Collected(p)]
      BY <2>2
    <2> QED
      BY <2>1, <2>3, AmountsAssumption DEF NetFunds, Gross, IntColumn
  <1>2. \A p \in Payments : payment[p].captured_amount = 0
    BY DEF GatewayInit, Init, NoPayment, LegacyRow, NewRow
  <1> QED
    BY <1>1, <1>2 DEF FitInv, GatewayInit

LEMMA FitStep ==
  ASSUME GInv, FitInv, [GatewayNext]_gatewayVars
  PROVE  FitInv'
  <1>1. \A p \in Payments : payment'[p].captured_amount = 0
    BY CollectedStep DEF FitInv
  <1>2. ASSUME NEW m \in Merchants PROVE Gross(m)' <= MaxInt
    <2>1. [p \in Payments |-> Collected(p)'] = [p \in Payments |-> Collected(p)]
      BY CollectedStep
    <2>2. Gross(m)' = SumFunctionOnSet([p \in Payments |-> Collected(p)'], PaymentsOf(m))
      BY DEF Gross, PaymentsOf
    <2> QED
      BY <2>1, <2>2 DEF Gross, FitInv
  <1>3. ASSUME NEW t \in BatchThreads
        PROVE  \A p, q \in selected'[t] : Owner[p] = Owner[q]
    <2>1. selected \in [BatchThreads -> SUBSET Payments]
      BY TypeSplit DEF GInv, RequestsOK
    <2>2. CASE selected' = selected
      BY <2>2 DEF FitInv
    <2>3. ASSUME NEW u \in BatchThreads, NEW m \in Merchants, ReadBatch(u, m)
          PROVE  \A p, q \in selected'[t] : Owner[p] = Owner[q]
      <3>1. selected' = [selected EXCEPT ![u] = UnsettledPayments(m)]
        BY <2>3 DEF ReadBatch
      <3>2. \A p \in UnsettledPayments(m) : Owner[p] = m
        BY DEF UnsettledPayments, PaymentsOf
      <3> QED
        BY <2>1, <3>1, <3>2 DEF FitInv
    <2>4. ASSUME NEW u \in BatchThreads, NEW s \in Settlements, CommitBatch(u, s)
          PROVE  \A p, q \in selected'[t] : Owner[p] = Owner[q]
      BY <2>1, <2>4 DEF CommitBatch, FitInv
    <2>5. CASE Crash
      BY <2>5 DEF Crash
    <2> QED
      BY <2>2, <2>3, <2>4, <2>5 DEF GatewayNext, gatewayVars, ServeCreate, BeginAuthorize,
         BeginCapture, BeginRefund, Begin, Finish, CommitAuthorize, CommitRefund, Writes,
         Announce, AbandonCapture, SubmitClose, Rollback
  <1> QED
    BY <1>1, <1>2, <1>3 DEF FitInv

LEMMA FitsBecause ==
  ASSUME GInv, WalletIsNetFunds, FitInv
  PROVE  WritesFit
  <1>1. TypeOK /\ RequestsOK
    BY TypeSplit DEF GInv
  <1>2. ASSUME NEW h \in Handlers, request[h] # Free, request[h].op = "refund",
               request[h].phase = "running"
        PROVE  request[h].balance - request[h].amount \in IntColumn
    <2> DEFINE p == request[h].payment
    <2>1. Holds(h) /\ request[h] \in Request
      BY <1>1, <1>2, DecisionsSplit DEF GInv, RequestsOK
    <2>2. /\ p \in Payments /\ request[h].amount \in Nat
          /\ request[h].amount <= Remaining(p)
          /\ request[h].balance = wallet[Owner[p]].balance
          /\ payment[p].status \in CapturedStatus
      BY <1>2, <2>1, AmountsAssumption DEF Holds, Request, CanTransition, TRANSITIONS,
         CapturedStatus
    <2>3. Remaining(p) = Net(p)
      BY <2>2 DEF Remaining, Net, Collected
    <2>4. wallet[Owner[p]].balance \in 0..MaxInt /\ Net(p) <= wallet[Owner[p]].balance
          /\ Net(p) \in Nat
      BY <1>1, <2>2, WalletCovers, NetInGateway, PaymentsAssumption
    <2> QED
      BY <2>2, <2>3, <2>4, AmountsAssumption DEF IntColumn
  <1>3. ASSUME NEW t \in BatchThreads PROVE BatchAmount(selected[t]) \in IntColumn
    <2> DEFINE batch == selected[t]
               amount == [p \in Payments |-> payment[p].amount]
               collected == [p \in Payments |-> Collected(p)]
    <2>1. batch \in SUBSET Payments /\ BatchAmount(batch) = SumFunctionOnSet(amount, batch)
      BY <1>1 DEF RequestsOK, BatchAmount
    <2>2. \A p \in Payments : amount[p] \in Nat /\ collected[p] \in Nat
      BY <1>1, AmountsAssumption DEF TypeOK, PaymentRow, Collected, CapturedOrAmount
    <2>3. \A p \in batch : amount[p] = collected[p]
      <3>1. \A p \in batch : payment[p].status \in CapturedStatus
        BY DecisionsSplit DEF GInv, Collects
      <3> QED
        BY <2>1, <3>1 DEF FitInv, Collected, CapturedOrAmount
    <2>4. CASE batch = {}
      BY <2>1, <2>4, SumEmpty, AmountsAssumption DEF IntColumn
    <2>5. CASE batch # {}
      <3>1. PICK q \in batch : TRUE
        BY <2>5
      <3> DEFINE S == PaymentsOf(Owner[q])
      <3>2. Owner[q] \in Merchants /\ IsFiniteSet(S) /\ S \subseteq Payments
        BY <2>1, PaymentsAssumption, FS_Subset DEF PaymentsOf
      <3>3. batch \in SUBSET S
        BY <2>1 DEF FitInv, PaymentsOf
      <3>4. SumFunctionOnSet(collected, S) <= MaxInt
        BY <3>2 DEF FitInv, Gross
      <3> HIDE DEF batch, amount, collected, S
      <3>5. IsFiniteSet(batch) /\ IsFiniteSet(S \ batch)
        BY <3>2, <3>3, FS_Subset
      <3>6. SumFunctionOnSet(amount, batch) = SumFunctionOnSet(collected, batch)
        BY <2>1, <2>2, <2>3, <3>5, SumSame
      <3>7. SumFunctionOnSet(collected, S) =
              SumFunctionOnSet(collected, batch) + SumFunctionOnSet(collected, S \ batch)
        BY <2>2, <3>2, <3>3, SumSplit
      <3>8. /\ SumFunctionOnSet(collected, batch) \in Nat
            /\ SumFunctionOnSet(collected, S \ batch) \in Nat
        BY <2>1, <2>2, <3>2, <3>5, SumType
      <3>9. SumFunctionOnSet(amount, batch) \in 0..MaxInt
        BY <3>4, <3>6, <3>7, <3>8, AmountsAssumption
      <3> QED
        BY <2>1, <3>9, AmountsAssumption DEF IntColumn, batch
    <2> QED
      BY <2>4, <2>5
  <1> QED
    BY <1>2, <1>3 DEF WritesFit

\* Once it is accepted, no refund and no batch fails for the width of a column,
\* whatever overlaps with it (wallets.balance and settlements.amount).
THEOREM NoWriteOverflows == GatewaySpec => []WritesFit
  <1>1. GInv /\ FitInv /\ [GatewayNext]_gatewayVars => FitInv'
    BY FitStep
  <1>2. GInv /\ WalletIsNetFunds /\ FitInv => WritesFit
    BY FitsBecause
  <1> QED
    BY <1>1, <1>2, FitInit, GatewayInvariance, WalletsKeepUp, PTL DEF GatewaySpec
-----------------------------------------------------------------------------
\* What a running refund has decided is still what refund_payment would decide.
Decided(r) == r.amount \in Amounts /\ r.target = RefundTarget(r.payment, r.amount)
RefundsDecided ==
  \A h \in Handlers :
    request[h] # Free /\ request[h].op = "refund" /\ request[h].phase = "running"
      => Decided(request[h])

LEMMA DecidedStep ==
  ASSUME GInv, GInv', RefundsDecided, [GatewayNext]_gatewayVars
  PROVE  RefundsDecided'
  <1> SUFFICES ASSUME NEW g \in Handlers, request'[g] # Free, request'[g].op = "refund",
                      request'[g].phase = "running"
               PROVE  Decided(request[g])'
    BY DEF RefundsDecided
  <1>1. /\ TypeOK /\ RequestsOK /\ RequestsOK' /\ loop' = g /\ loop' # Idle
        /\ request'[g] \in Request
    BY TypeSplit, LoopAssumption DEF GInv, RequestsOK, OnLoop
  <1>2. ASSUME request'[g] = request[g],
               Remaining(request[g].payment)' = Remaining(request[g].payment)
        PROVE  Decided(request[g])'
    BY <1>2 DEF RefundsDecided, Decided, RefundTarget
  <1>3. CASE request'[g] = request[g] /\ UNCHANGED <<payment, refunds>>
    BY <1>2, <1>3 DEF Remaining, CapturedOrAmount
  <1>4. ASSUME NEW h \in Handlers, NEW r, Begin(h, r)
        PROVE  request'[g] = r /\ UNCHANGED tables
    BY <1>1, <1>4 DEF Begin, RequestsOK
  <1>5. ASSUME NEW h \in Handlers, NEW p \in Payments, NEW amt \in Amounts,
               BeginRefund(h, p, amt)
        PROVE  Decided(request[g])'
    <2>1. request'[g] = Accepted("refund", p, RefundTarget(p, amt), amt) /\ UNCHANGED tables
      BY <1>4, <1>5 DEF BeginRefund
    <2>2. /\ request'[g].amount = amt /\ request'[g].payment = p
          /\ request'[g].target = RefundTarget(p, amt)
      BY <2>1 DEF Accepted
    <2> QED
      BY <2>1, <2>2 DEF Decided, RefundTarget, Remaining, CapturedOrAmount, tables
  <1>6. ASSUME NEW h \in Handlers, NEW op \in {"authorize", "capture"}, NEW p, NEW target,
               NEW amt, Begin(h, Accepted(op, p, target, amt))
        PROVE  FALSE
    BY <1>4, <1>6 DEF Accepted
  <1>7. ASSUME NEW h \in Handlers, CommitAuthorize(h) \/ CommitRefund(h) PROVE FALSE
    <2>1. h \in InPhase("running") /\ loop' = loop
          /\ request' = [request EXCEPT ![h].phase = "announcing"]
      BY <1>7 DEF CommitAuthorize, CommitRefund, Writes, Enter
    <2>2. g = h /\ request[h] \in Request
      BY <1>1, <2>1, RunningHasLoop
    <2>3. request'[h] = [request[h] EXCEPT !.phase = "announcing"]
      BY <1>1, <2>1 DEF RequestsOK
    <2>4. request'[h].phase = "announcing"
      BY <2>2, <2>3 DEF Request
    <2> QED
      BY <2>2, <2>4
  <1>8. ASSUME NEW h \in Handlers, SubmitClose(h) \/ Rollback(h)
        PROVE  request'[g] = request[g] /\ UNCHANGED <<payment, refunds>>
    <2>1. /\ UNCHANGED tables /\ loop' = loop
          /\ request[h] # Free /\ request[h].phase \in {"unwinding", "closing"}
      BY <1>8 DEF SubmitClose, Rollback, InPhase
    <2>2. g # h
      BY <1>1, <2>1 DEF RequestsOK, OnLoop
    <2> QED
      BY <1>1, <1>8, <2>1, <2>2 DEF SubmitClose, Rollback, Enter, Leave, RequestsOK, tables
  <1>9. ASSUME NEW t \in BatchThreads, NEW s \in Settlements, CommitBatch(t, s)
        PROVE  Decided(request[g])'
    <2>1. request' = request /\ refunds' = refunds
      BY <1>9 DEF CommitBatch, WriteBatch
    <2>2. Remaining(request[g].payment)' = Remaining(request[g].payment)
      BY <1>1, <1>9, <2>1, BatchOfOne DEF Remaining, CapturedOrAmount, Request
    <2> QED
      BY <1>2, <2>1, <2>2
  <1>10. CASE UNCHANGED gatewayVars
    BY <1>3, <1>10 DEF gatewayVars
  <1>11. ASSUME NEW h \in Handlers, Announce(h) \/ AbandonCapture(h) PROVE FALSE
    BY <1>1, <1>11 DEF Announce, AbandonCapture
  <1>12. ASSUME NEW p \in Payments, NEW amt \in Amounts, ServeCreate(p, amt)
         PROVE  Decided(request[g])'
    <2>1. request' = request
      BY <1>12 DEF ServeCreate
    <2>2. /\ payment'[request[g].payment] = payment[request[g].payment]
          /\ refunds' = refunds
      BY <1>12, <2>1, CreateFrame
    <2> QED
      BY <1>2, <2>1, <2>2 DEF Remaining, CapturedOrAmount
  <1>13. ASSUME NEW t \in BatchThreads, NEW m \in Merchants, ReadBatch(t, m)
         PROVE  request'[g] = request[g] /\ UNCHANGED <<payment, refunds>>
    BY <1>13 DEF ReadBatch, tables
  <1>14. CASE Crash
    BY <1>1, <1>14 DEF Crash
  <1>15. ASSUME NEW h \in Handlers, NEW p \in Payments, NEW outcome \in BankOutcomes,
                BeginAuthorize(h, p, outcome)
         PROVE  FALSE
    BY <1>6, <1>15 DEF BeginAuthorize
  <1>16. ASSUME NEW h \in Handlers, NEW p \in Payments, NEW requested \in Amounts \cup {0},
                BeginCapture(h, p, requested)
         PROVE  FALSE
    BY <1>6, <1>16 DEF BeginCapture
  <1> QED
    BY <1>3, <1>5, <1>6, <1>7, <1>8, <1>9, <1>10, <1>11, <1>12, <1>13, <1>14, <1>15,
       <1>16 DEF GatewayNext, Finish
-----------------------------------------------------------------------------
\* A batch that may come late.
LEMMA LateBatch ==
  ASSUME GInv, NEW t \in BatchThreads, NEW s \in Settlements, CommitBatch(t, s)
  PROVE  \E batch \in SUBSET Payments : Contract!SettleLate(batch)
  <1>1. PICK batch \in SUBSET Payments : batch = selected[t]
    BY TypeSplit DEF GInv, RequestsOK
  <1>2. batch # {} /\ refunds' = refunds
    BY <1>1 DEF CommitBatch, WriteBatch
  <1>3. \A p \in batch : /\ payment[p].status \in CapturedStatus
                         /\ payment'[p].status = "settled"
                         /\ payment'[p].settlement_id # NoSettlement
    BY <1>1, BatchOfOne, SettlementsAssumption
  <1>4. \A p \in Payments \ batch : payment'[p] = payment[p]
    BY <1>1, BatchOfOne
  <1>5. captured' = captured /\ refunded' = refunded
    BY <1>2, CollectedStep DEF captured, refunded, GatewayNext
  <1>6. status' = [p \in Payments |-> IF p \in batch THEN "settled" ELSE status[p]]
    BY <1>3, <1>4 DEF status
  <1>7. settled' = settled \cup batch
    BY <1>3, <1>4 DEF settled
  <1>8. Contract!SettleLate(batch)
    BY <1>2, <1>3, <1>5, <1>6, <1>7 DEF Contract!SettleLate, Contract!CapturedStatus,
       CapturedStatus, status, captured, refunded, settled
  <1> QED
    BY <1>8

\* The first commit of a handler is a step of the contract.
LEMMA LateAuthorize ==
  ASSUME GInv, NEW h \in Handlers, CommitAuthorize(h)
  PROVE  \E p \in Payments : Contract!Decide(p)
  <1> DEFINE r == request[h]
  <1>1. /\ TypeOK /\ r \in Request /\ r # Free /\ r.phase = "running" /\ r.op = "authorize"
        /\ payment' = [payment EXCEPT ![r.payment].status = r.target] /\ refunds' = refunds
        /\ Holds(h)
    BY TypeSplit, RunningHasLoop, DecisionsSplit DEF GInv, CommitAuthorize, Writes, InPhase
  <1>2. r.target \in {"authorized", "failed"} /\ CanTransition(payment[r.payment].status, r.target)
    BY <1>1 DEF Holds
  <1>3. r.payment \in Payments
    BY <1>1 DEF Request
  <1> QED
    BY <1>1, <1>2, <1>3, ContractDecide

LEMMA LateRefund ==
  ASSUME GInv, RefundsDecided, NEW h \in Handlers, CommitRefund(h)
  PROVE  \E p \in Payments : Contract!Refund(p)
  <1> DEFINE r == request[h]
  <1>1. /\ TypeOK /\ r \in Request /\ r # Free /\ r.phase = "running" /\ r.op = "refund"
        /\ WriteRefund(r.payment, r.amount, r.target, r.balance)
        /\ Holds(h)
    BY TypeSplit, RunningHasLoop, DecisionsSplit DEF GInv, CommitRefund, Writes, InPhase
  <1>2. /\ r.payment \in Payments /\ r.amount \in Amounts
        /\ r.target = RefundTarget(r.payment, r.amount)
    BY <1>1 DEF RefundsDecided, Decided, Request
  <1>3. RefundAccepted(r.payment, r.amount)
    BY <1>1, <1>2 DEF Holds, RefundAccepted
  <1> QED
    BY <1>1, <1>2, <1>3, ContractRefund

\* The other steps of a handler do not show, and of the tables a thread writes
\* nothing but its batch.
LEMMA OverlappingStep ==
  ASSUME GInv, Audits, RefundsDecided, [GatewayNext]_gatewayVars
  PROVE  \/ Contract!Next
         \/ \E batch \in SUBSET Payments : Contract!SettleLate(batch)
         \/ UNCHANGED Contract!vars
  <1>1. CASE UNCHANGED tables
    BY <1>1 DEF tables, Contract!vars, Collected, CapturedOrAmount
  <1>2. ASSUME NEW p \in Payments, NEW amt \in Amounts, ServeCreate(p, amt)
        PROVE  Contract!Create(p)
    <2>1. TypeOK /\ (payment[p].status = "absent" => payment[p] = NoPayment)
      BY TypeSplit DEF GInv, Audits, RowBasics
    <2> QED
      BY <1>2, <2>1, ContractCreate DEF ServeCreate
  <1> QED
    BY <1>1, <1>2, LateAuthorize, LateRefund, LateBatch DEF Contract!Next, GatewayNext,
       gatewayVars, tables, BeginAuthorize, BeginCapture, BeginRefund, Begin, Finish, Announce,
       AbandonCapture, SubmitClose, Rollback, ReadBatch, Crash

\* Overlapping requests keep the contract of every payment, except that a batch
\* may come late: whatever goes wrong when they overlap, a batch did it.
THEOREM OverlapsKeepContract == GatewaySpec => ImplementsOverlappingContract
  <1>1. GatewayInit => Contract!Init /\ RefundsDecided
    BY ContractInit DEF GatewayInit, RefundsDecided
  <1>2. GInv /\ GInv' /\ RefundsDecided /\ [GatewayNext]_gatewayVars => RefundsDecided'
    BY DecidedStep
  <1>3. GInv /\ Audits /\ [GatewayNext]_gatewayVars => Audits'
    BY AuditsStep
  <1>4. GInv /\ Audits /\ RefundsDecided /\ [GatewayNext]_gatewayVars =>
          [\/ Contract!Next
           \/ \E batch \in SUBSET Payments : Contract!SettleLate(batch)]_(Contract!vars)
    BY OverlappingStep
  <1> QED
    BY <1>1, <1>2, <1>3, <1>4, AuditsInit, GatewayInvariance, PTL
       DEF GatewaySpec, ImplementsOverlappingContract, Contract!OverlappingSpec
=============================================================================
