---------------------------- MODULE ClientsProofs ----------------------------
(***************************************************************************)
(* Proofs about Clients, for any number of callers, payments and requests  *)
(* under way.  No request that is served leads back: Moves lists what one  *)
(* can do to a payment, and from this follow what a refusal, an answer and *)
(* an effect mean for good.                                                *)
(***************************************************************************)
EXTENDS Clients, ContractProofs

USE RequestsAssumption

\* What can become of a payment in a step.
Same(p) == payment'[p] = payment[p] /\ refunds'[p] = refunds[p]
SameAmounts(p) ==
  /\ payment'[p].amount = payment[p].amount
  /\ payment'[p].captured_amount = payment[p].captured_amount
Created(p) == payment[p].status = "absent" /\ payment'[p].status = "created"
Decided(p) ==
  \/ payment[p].status = "created" /\ payment'[p].status \in {"authorized", "failed"}
  \/ payment[p].status = "authorized" /\ payment'[p].status = "failed"
Refunded(p) ==
  \E x \in Amounts :
    /\ RefundAccepted(p, x)
    /\ payment'[p].status = RefundTarget(p, x)
    /\ SameAmounts(p)
    /\ refunds'[p].total = refunds[p].total + x
Settled(p) ==
  /\ payment[p].status = "captured" /\ payment'[p].status = "settled"
  /\ SameAmounts(p)
  /\ refunds'[p] = refunds[p]
Moves(p) == Same(p) \/ Created(p) \/ Decided(p) \/ Refunded(p) \/ Settled(p)

\* How often a call took effect, against what its payment has become.
Effects(c) ==
  LET r == call[c]  p == call[c].about
  IN  /\ r.op = "authorize" =>
           /\ r.applied > 0 => payment[p].status \in {"authorized", "failed"}
           /\ r.applied > 1 => payment[p].status = "failed"
      /\ r.op = "capture" => r.applied = 0
      /\ r.op = "refund" =>
           /\ r.amount \in Amounts
           /\ r.applied > 0 => payment[p].status \in {"partially_refunded", "refunded"}
           /\ r.applied > 0 /\ payment[p].status = "partially_refunded" =>
                r.applied = 1 /\ refunds[p].total = r.amount
           /\ r.applied > 1 => 2 * r.amount = Collected(p)
      /\ r.op = "batch" =>
           /\ r.applied < 2
           /\ r.applied > 0 => UnsettledPayments(p) = {}

\* An authorized payment was authorized by a call.
Authorizer(p) ==
  \E c \in Calls("authorize") : call[c].about = p /\ call[c].applied > 0

Authorizers == \A p \in Payments : payment[p].status = "authorized" => Authorizer(p)

AllStand(c) == \A answer \in call[c].answers \cup {call[c].told} : Stands(c, answer)

CInv ==
  /\ IInv
  /\ ClientsTypeOK
  /\ Authorizers
  /\ \A c \in Callers : call[c] # NoCall => Effects(c) /\ AllStand(c)

-----------------------------------------------------------------------------
LEMMA CallIsNotNoCall == NoCall \notin Call
  BY DEF NoCall, Call, Ops

LEMMA CallType ==
  ASSUME ClientsTypeOK, NEW c \in Callers, call[c] # NoCall
  PROVE  /\ call[c] \in Call
         /\ call[c].op = "batch" => call[c].about \in Merchants
         /\ call[c].op # "batch" => call[c].about \in Payments
  BY DEF ClientsTypeOK

\* What a step of a payment leads to, and never leads back to.
LEMMA MovesOn ==
  ASSUME IInv, NEW p \in Payments, Moves(p)
  PROVE  /\ payment'[p].status = "captured" => Same(p)
         /\ payment[p].status = "failed" => payment'[p].status = "failed"
         /\ payment[p].status = "authorized" => payment'[p].status \in {"authorized", "failed"}
         /\ payment[p].status \in {"partially_refunded", "refunded"} =>
              /\ payment'[p].status \in {"partially_refunded", "refunded"}
              /\ Collected(p)' = Collected(p)
              /\ payment'[p].status = "partially_refunded" =>
                   /\ payment[p].status = "partially_refunded"
                   /\ refunds'[p].total = refunds[p].total
         /\ \A amt \in Amounts : RefundAccepted(p, amt)' => RefundAccepted(p, amt)
<1>1. /\ payment[p] \in PaymentRow
      /\ refunds[p] \in RefundRows
      /\ RefundsMatch(p)
  BY DEF IInv, TypeOK, RefundsMatchStatus
<1>2. /\ payment[p].amount \in 0..MaxInt /\ payment[p].captured_amount \in 0..MaxInt
      /\ refunds[p].total \in Nat
      /\ MaxInt \in Nat
  BY <1>1, AmountsAssumption DEF PaymentRow, RefundRows
<1>3. CASE Same(p)
  BY <1>3 DEF Same, Collected, CapturedOrAmount, RefundAccepted, RefundTarget, Remaining
<1>4. CASE Created(p) \/ Decided(p)
  BY <1>4 DEF Created, Decided, RefundAccepted, RefundTarget, CanTransition, TRANSITIONS
<1>5. CASE Refunded(p)
  <2>1. PICK x \in Amounts : /\ RefundAccepted(p, x)
                             /\ payment'[p].status = RefundTarget(p, x)
                             /\ SameAmounts(p)
                             /\ refunds'[p].total = refunds[p].total + x
    BY <1>5 DEF Refunded
  <2>2. x \in Nat \ {0}
    BY AmountsAssumption
  <2>3. CapturedOrAmount(payment[p]) \in Nat
    BY <1>2 DEF CapturedOrAmount
  <2>4. /\ CapturedOrAmount(payment[p])' = CapturedOrAmount(payment[p])
        /\ Remaining(p)' = Remaining(p) - x
        /\ Remaining(p) \in Int
    BY <1>2, <2>1, <2>2, <2>3 DEF SameAmounts, CapturedOrAmount, Remaining
  <2>5. payment[p].status \in {"captured", "settled", "partially_refunded"}
    BY <2>1 DEF RefundAccepted, RefundTarget, CanTransition, TRANSITIONS
  <2>6. payment'[p].status \in {"partially_refunded", "refunded"}
    BY <2>1 DEF RefundTarget
  <2>7. payment[p].status = "partially_refunded" => payment'[p].status = "refunded"
    BY <2>1 DEF RefundAccepted, CanTransition, TRANSITIONS
  <2>8. Collected(p)' = Collected(p)
    BY <2>4, <2>5, <2>6 DEF Collected, CapturedStatus
  <2>9. ASSUME NEW amt \in Amounts, RefundAccepted(p, amt)' PROVE RefundAccepted(p, amt)
    <3>1. payment'[p].status = "partially_refunded" /\ amt = Remaining(p)'
      BY <2>6, <2>9 DEF RefundAccepted, RefundTarget, CanTransition, TRANSITIONS
    <3>2. amt < Remaining(p) /\ payment[p].status \in {"captured", "settled"}
      BY <3>1, <2>2, <2>4, <2>5, <2>7, AmountsAssumption
    <3> QED
      BY <3>2, <2>4, AmountsAssumption DEF RefundAccepted, RefundTarget, CanTransition, TRANSITIONS
  <2> QED
    BY <2>5, <2>6, <2>7, <2>8, <2>9
<1>6. CASE Settled(p)
  <2>1. Remaining(p)' = Remaining(p)
    BY <1>6 DEF Settled, SameAmounts, Remaining, CapturedOrAmount
  <2> QED
    BY <1>6, <2>1 DEF Settled, RefundAccepted, RefundTarget, CanTransition, TRANSITIONS
<1> QED
  BY <1>3, <1>4, <1>5, <1>6 DEF Moves

\* Nothing becomes unsettled again.
LEMMA SettledStays ==
  ASSUME IInv, \A p \in Payments : Moves(p), NEW m, UnsettledPayments(m) = {}
  PROVE  UnsettledPayments(m)' = {}
<1> SUFFICES ASSUME NEW p \in Payments, p \in UnsettledPayments(m)' PROVE FALSE
  BY DEF UnsettledPayments, PaymentsOf
<1>1. payment'[p].status = "captured" /\ payment'[p].settlement_id = NoSettlement /\ Owner[p] = m
  BY DEF UnsettledPayments, PaymentsOf
<1>2. payment'[p] = payment[p]
  BY <1>1, MovesOn DEF Same
<1> QED
  BY <1>1, <1>2 DEF UnsettledPayments, PaymentsOf

-----------------------------------------------------------------------------
\* The table steps of this module.
LEMMA TablesMove ==
  ASSUME IInv,
         \/ UNCHANGED tables
         \/ \E p \in Payments :
              \/ \E amt \in Amounts : CreatePayment(p, amt) \/ RefundPayment(p, amt)
              \/ \E outcome \in BankOutcomes : AuthorizePayment(p, outcome)
         \/ \E m \in Merchants, s \in Settlements : CreateSettlementBatch(m, s)
  PROVE  IInv' /\ \A p \in Payments : Moves(p)
<1>1. IInv'
  BY NextStep DEF Next
<1>2. ASSUME NEW p \in Payments PROVE Moves(p)
  <2>1. payment \in [Payments -> PaymentRow] /\ refunds \in [Payments -> RefundRows]
    BY DEF IInv, TypeOK
  <2>2. CASE UNCHANGED tables
    BY <2>2 DEF tables, Moves, Same
  <2>3. ASSUME NEW q \in Payments, NEW amt \in Amounts, CreatePayment(q, amt) PROVE Moves(p)
    BY <2>1, <2>3 DEF CreatePayment, NewRow, Moves, Same, Created
  <2>4. ASSUME NEW q \in Payments, NEW amt \in Amounts, RefundPayment(q, amt) PROVE Moves(p)
    <3>1. CASE p # q
      BY <2>1, <2>4, <3>1 DEF RefundPayment, WriteRefund, Moves, Same
    <3>2. CASE p = q
      <4>1. Refunded(p)
        <5>1. /\ RefundAccepted(p, amt)
              /\ payment' = [payment EXCEPT ![p].status = RefundTarget(p, amt)]
              /\ refunds' = [refunds EXCEPT ![p] = [count |-> @.count + 1, total |-> @.total + amt]]
          BY <2>4, <3>2 DEF RefundPayment, WriteRefund
        <5>2. payment'[p] = [payment[p] EXCEPT !.status = RefundTarget(p, amt)]
          BY <5>1, <2>1
        <5>3. refunds'[p].total = refunds[p].total + amt
          BY <5>1, <2>1
        <5>4. payment'[p].status = RefundTarget(p, amt) /\ SameAmounts(p)
          BY <5>2, <2>1 DEF PaymentRow, SameAmounts
        <5> QED
          BY <5>1, <5>3, <5>4 DEF Refunded
      <4> QED
        BY <4>1 DEF Moves
    <3> QED
      BY <3>1, <3>2
  <2>5. ASSUME NEW q \in Payments, NEW outcome \in BankOutcomes, AuthorizePayment(q, outcome)
        PROVE  Moves(p)
    <3>1. CASE UNCHANGED payment \/ p # q
      BY <2>1, <2>5, <3>1 DEF AuthorizePayment, Moves, Same
    <3>2. CASE p = q /\ CanTransition(payment[q].status, outcome)
               /\ payment' = [payment EXCEPT ![q].status = outcome]
      <4>1. payment'[p].status = outcome
        BY <2>1, <3>2 DEF PaymentRow
      <4>2. Decided(p)
        BY <4>1, <3>2 DEF Decided, CanTransition, TRANSITIONS, BankOutcomes
      <4> QED
        BY <4>2 DEF Moves
    <3> QED
      BY <2>5, <3>1, <3>2 DEF AuthorizePayment
  <2>6. ASSUME NEW m \in Merchants, NEW s \in Settlements, CreateSettlementBatch(m, s)
        PROVE  Moves(p)
    <3>1. CASE p \notin UnsettledPayments(m)
      BY <2>1, <2>6, <3>1 DEF CreateSettlementBatch, WriteBatch, Moves, Same
    <3>2. CASE p \in UnsettledPayments(m)
      <4>1. payment'[p] = [payment[p] EXCEPT !.status = "settled", !.settlement_id = s]
        BY <2>1, <2>6, <3>2 DEF CreateSettlementBatch, WriteBatch
      <4>2. refunds' = refunds /\ payment[p].status = "captured"
        BY <2>6, <3>2 DEF CreateSettlementBatch, WriteBatch, UnsettledPayments
      <4>3. payment'[p].status = "settled" /\ SameAmounts(p)
        BY <4>1, <2>1 DEF PaymentRow, SameAmounts
      <4> QED
        BY <4>2, <4>3 DEF Settled, Moves
    <3> QED
      BY <3>1, <3>2
  <2> QED
    BY <2>2, <2>3, <2>4, <2>5, <2>6
<1> QED
  BY <1>1, <1>2

-----------------------------------------------------------------------------
\* A step keeps what a call is about, and never forgets an effect.
Grows(c) ==
  /\ call'[c].op = call[c].op /\ call'[c].about = call[c].about
  /\ call'[c].amount = call[c].amount
  /\ call'[c].applied \in Nat /\ call'[c].applied >= call[c].applied

AllGrow == \A c \in Callers : call[c] # NoCall => call'[c] # NoCall /\ Grows(c)

\* A payment is declined after its authorization by a second call only.
Declines ==
  \A p \in Payments :
    payment[p].status = "authorized" /\ payment'[p].status = "failed" => AuthorizedTwice(p)'

LEMMA AuthorizersStay ==
  ASSUME ClientsTypeOK, AllGrow, NEW p \in Payments
  PROVE  /\ AuthorizedTwice(p) => AuthorizedTwice(p)'
         /\ Authorizer(p) => Authorizer(p)'
<1>1. ASSUME NEW c \in Callers, call[c].op = "authorize"
      PROVE  call[c] # NoCall /\ Grows(c) /\ call[c].applied \in Nat
  <2>1. call[c] # NoCall
    BY <1>1 DEF NoCall
  <2> QED
    BY <2>1, CallType DEF AllGrow, Call
<1>2. AuthorizedTwice(p) => AuthorizedTwice(p)'
  <2> SUFFICES ASSUME NEW c \in Callers, NEW d \in Callers,
                      call[c].op = "authorize", call[d].op = "authorize",
                      call[c].about = p, call[d].about = p,
                      call[c].applied > 0, call[d].applied > 0,
                      c = d => call[c].applied > 1
               PROVE  AuthorizedTwice(p)'
    BY DEF AuthorizedTwice, Calls
  <2>1. /\ call'[c].op = "authorize" /\ call'[c].about = p
        /\ call'[c].applied > 0 /\ (c = d => call'[c].applied > 1)
    BY <1>1 DEF Grows
  <2>2. call'[d].op = "authorize" /\ call'[d].about = p /\ call'[d].applied > 0
    BY <1>1 DEF Grows
  <2> QED
    BY <2>1, <2>2 DEF AuthorizedTwice, Calls
<1>3. Authorizer(p) => Authorizer(p)'
  <2> SUFFICES ASSUME NEW c \in Callers, call[c].op = "authorize",
                      call[c].about = p, call[c].applied > 0
               PROVE  Authorizer(p)'
    BY DEF Authorizer, Calls
  <2>1. call'[c].op = "authorize" /\ call'[c].about = p /\ call'[c].applied > 0
    BY <1>1 DEF Grows
  <2> QED
    BY <2>1 DEF Authorizer, Calls
<1> QED
  BY <1>2, <1>3

\* What an answer says survives every step.
LEMMA StandsStay ==
  ASSUME CInv, \A p \in Payments : Moves(p), AllGrow, Declines,
         NEW c \in Callers, call[c] # NoCall, NEW answer, Stands(c, answer)
  PROVE  Stands(c, answer)'
<1>0. PICK p : p = call[c].about
  OBVIOUS
<1>1. /\ IInv /\ ClientsTypeOK
      /\ Grows(c)
      /\ call[c] \in Call
      /\ call[c].op = "batch" => p \in Merchants
      /\ call[c].op # "batch" => p \in Payments
  BY <1>0, CallType DEF CInv, AllGrow
<1>2. /\ call'[c].op = call[c].op /\ call'[c].about = p /\ call'[c].amount = call[c].amount
      /\ call[c].applied > 0 => call'[c].applied > 0
  BY <1>0, <1>1 DEF Grows, Call
<1>3. call[c].op = "batch" => (UnsettledPayments(p) = {} => UnsettledPayments(p)' = {})
  BY <1>1, SettledStays
<1>4. CASE call[c].op = "authorize"
  BY <1>0, <1>1, <1>2, <1>4, MovesOn, AuthorizersStay DEF Stands, Declines
<1>5. CASE call[c].op = "refund"
  <2>1. call[c].amount \in Amounts
    BY <1>5 DEF CInv, Effects
  <2>2. RefundAccepted(p, call[c].amount)' => RefundAccepted(p, call[c].amount)
    BY <1>1, <1>2, <1>5, <2>1, MovesOn
  <2> QED
    BY <1>0, <1>2, <1>5, <2>1, <2>2 DEF Stands
<1>6. CASE call[c].op = "batch"
  <2>1. UnsettledPayments(call[c].about)' = UnsettledPayments(p)'
    BY <1>2
  <2> QED
    BY <1>0, <1>2, <1>3, <1>6, <2>1 DEF Stands
<1>7. CASE call[c].op = "capture"
  BY <1>2, <1>7 DEF Stands
<1> QED
  BY <1>1, <1>4, <1>5, <1>6, <1>7 DEF Call, Ops

\* What a call has done is still visible after a step that it has no part in.
LEMMA EffectsStay ==
  ASSUME CInv, \A p \in Payments : Moves(p),
         NEW c \in Callers, call[c] # NoCall, Grows(c), call'[c].applied = call[c].applied
  PROVE  Effects(c)'
<1>0. PICK p : p = call[c].about
  OBVIOUS
<1>1. /\ IInv /\ ClientsTypeOK /\ Effects(c)
      /\ call[c] \in Call
      /\ call[c].op = "batch" => p \in Merchants
      /\ call[c].op # "batch" => p \in Payments
  BY <1>0, CallType DEF CInv
<1>2. /\ call'[c].op = call[c].op /\ call'[c].about = p /\ call'[c].amount = call[c].amount
  BY <1>0 DEF Grows
<1>3. call[c].op = "batch" => (UnsettledPayments(p) = {} => UnsettledPayments(p)' = {})
  BY <1>1, SettledStays
<1>4. CASE call[c].op \in {"authorize", "capture"}
  BY <1>0, <1>1, <1>2, <1>4, MovesOn DEF Effects
<1>5. CASE call[c].op = "refund"
  <2>1. (payment[p].status \in {"partially_refunded", "refunded"}) =>
          /\ payment'[p].status \in {"partially_refunded", "refunded"}
          /\ Collected(p)' = Collected(p)
          /\ payment'[p].status = "partially_refunded" =>
               /\ payment[p].status = "partially_refunded"
               /\ refunds'[p].total = refunds[p].total
    BY <1>1, <1>5, MovesOn
  <2>2. Collected(call[c].about)' = Collected(p)'
    BY <1>2
  <2>3. call[c].applied \in 0..2
    BY <1>1 DEF Call
  <2> QED
    BY <1>0, <1>1, <1>2, <1>5, <2>1, <2>2, <2>3 DEF Effects
<1>6. CASE call[c].op = "batch"
  <2>1. UnsettledPayments(call[c].about)' = UnsettledPayments(p)'
    BY <1>2
  <2> QED
    BY <1>0, <1>1, <1>2, <1>3, <1>6, <2>1 DEF Effects
<1> QED
  BY <1>1, <1>4, <1>5, <1>6 DEF Call, Ops

-----------------------------------------------------------------------------
\* A step of caller c keeps the invariant, if it does so for c itself.
LEMMA CallerStep ==
  ASSUME CInv, IInv', \A p \in Payments : Moves(p), Declines, Authorizers',
         NEW c \in Callers, NEW new \in Call,
         call' = [call EXCEPT ![c] = new],
         new.about \in (IF new.op = "batch" THEN Merchants ELSE Payments),
         call[c] # NoCall => Grows(c),
         Effects(c)', AllStand(c)'
  PROVE  CInv'
<1>1. /\ call \in [Callers -> {NoCall} \cup Call]
      /\ call'[c] = new /\ new # NoCall
      /\ \A d \in Callers : d # c => call'[d] = call[d]
  BY CallIsNotNoCall DEF CInv, ClientsTypeOK
<1>2. ClientsTypeOK'
  BY <1>1 DEF CInv, ClientsTypeOK, IInv
<1>3. AllGrow
  BY <1>1, CallType DEF CInv, AllGrow, Grows, Call
<1>4. ASSUME NEW d \in Callers, call'[d] # NoCall PROVE Effects(d)' /\ AllStand(d)'
  <2>1. CASE d = c
    BY <2>1
  <2>2. CASE d # c
    <3>1. call[d] # NoCall /\ call'[d] = call[d]
      BY <1>1, <1>4, <2>2
    <3>2. Effects(d)'
      BY <1>3, <3>1, EffectsStay DEF AllGrow
    <3>3. \A answer \in call[d].answers \cup {call[d].told} : Stands(d, answer)'
      <4> SUFFICES ASSUME NEW answer \in call[d].answers \cup {call[d].told}
                   PROVE  Stands(d, answer)'
        OBVIOUS
      <4>1. Stands(d, answer)
        BY <3>1 DEF CInv, AllStand
      <4> QED
        BY <1>3, <3>1, <4>1, StandsStay
    <3> QED
      BY <3>1, <3>2, <3>3 DEF AllStand
  <2> QED
    BY <2>1, <2>2
<1> QED
  BY <1>2, <1>4 DEF CInv

\* Where the tables stay as they are, nothing is declined.
LEMMA SameTablesFacts ==
  ASSUME CInv, UNCHANGED tables
  PROVE  IInv' /\ (\A p \in Payments : Moves(p)) /\ Declines
<1>1. IInv' /\ \A p \in Payments : Moves(p)
  BY TablesMove DEF CInv
<1> QED
  BY <1>1 DEF Declines, tables

\* A step that changes what is under way only.
LEMMA NetworkStep ==
  ASSUME CInv, UNCHANGED tables, NEW c \in Callers, call[c] # NoCall,
         NEW new \in Call,
         call' = [call EXCEPT ![c] = new],
         new.op = call[c].op, new.about = call[c].about, new.amount = call[c].amount,
         new.applied = call[c].applied,
         new.answers \cup {new.told} \subseteq call[c].answers \cup {call[c].told}
  PROVE  CInv'
<1>1. /\ call \in [Callers -> {NoCall} \cup Call]
      /\ call'[c] = new /\ new # NoCall /\ call[c] \in Call
      /\ \A d \in Callers : d # c => call'[d] = call[d]
  BY CallIsNotNoCall DEF CInv, ClientsTypeOK
<1>2. IInv' /\ (\A p \in Payments : Moves(p)) /\ Declines
  BY SameTablesFacts
<1>3. AllGrow
  BY <1>1, CallType DEF CInv, AllGrow, Grows, Call
<1>4. Authorizers'
  BY <1>3, AuthorizersStay DEF CInv, Authorizers, tables
<1>5. Effects(c)'
  BY <1>1, <1>2, <1>3, EffectsStay DEF AllGrow
<1>6. AllStand(c)'
  <2>1. \A answer \in call[c].answers \cup {call[c].told} : Stands(c, answer)'
    BY <1>2, <1>3, StandsStay DEF CInv, AllStand
  <2> QED
    BY <1>1, <2>1 DEF AllStand
<1>7. new.about \in (IF new.op = "batch" THEN Merchants ELSE Payments)
  BY DEF CInv, ClientsTypeOK
<1> QED
  BY <1>1, <1>2, <1>3, <1>4, <1>5, <1>6, <1>7, CallerStep DEF AllGrow

LEMMA AskStep ==
  ASSUME CInv, NEW c \in Callers, AskAny(c)
  PROVE  CInv'
<1>1. PICK op \in Ops, x \in Payments \cup Merchants, amt \in Amounts \cup {0} :
        /\ Ask(c, op, x, amt)
        /\ x \in (IF op = "batch" THEN Merchants ELSE Payments)
        /\ op = "refund" => amt \in Amounts
  BY DEF AskAny, Ops
<1> DEFINE new == [op |-> op, about |-> x, amount |-> amt, requests |-> 1,
                   answers |-> {}, told |-> "nothing", applied |-> 0]
<1>2. call[c] = NoCall /\ call' = [call EXCEPT ![c] = new] /\ UNCHANGED tables
  BY <1>1 DEF Ask
<1>3. new \in Call
  BY AmountsAssumption DEF Call
<1>4. call'[c] = new /\ (\A d \in Callers : d # c => call'[d] = call[d])
  BY <1>2 DEF CInv, ClientsTypeOK
<1>5. IInv' /\ (\A p \in Payments : Moves(p)) /\ Declines
  BY <1>2, SameTablesFacts
<1>6. Authorizers'
  <2>1. \A d \in Callers : call[d].op = "authorize" => call'[d] = call[d]
    BY <1>2, <1>4 DEF NoCall
  <2>2. \A p \in Payments : Authorizer(p) => Authorizer(p)'
    BY <2>1 DEF Authorizer, Calls
  <2> QED
    BY <1>2, <2>2 DEF CInv, Authorizers, tables
<1>7. Effects(c)' /\ AllStand(c)'
  BY <1>1, <1>4 DEF Effects, AllStand, Stands
<1> QED
  BY <1>1, <1>2, <1>3, <1>5, <1>6, <1>7, CallerStep

LEMMA QuietStep ==
  ASSUME CInv, NEW c \in Callers, Repeat(c) \/ Receive(c) \/ Lose(c)
  PROVE  CInv'
<1>1. call[c] # NoCall /\ UNCHANGED tables
  BY DEF Repeat, Receive, Lose
<1>2. call[c] \in Call
  BY <1>1, CallType DEF CInv
<1>3. ASSUME NEW new, call' = [call EXCEPT ![c] = new],
             \/ \E n \in 0..MaxRequests : new = [call[c] EXCEPT !.requests = n]
             \/ \E left \in SUBSET call[c].answers : new = [call[c] EXCEPT !.answers = left]
             \/ \E answer \in call[c].answers \ {"error"} :
                  new = [call[c] EXCEPT !.answers = {}, !.told = answer]
      PROVE  CInv'
  <2>1. /\ new \in Call
        /\ new.op = call[c].op /\ new.about = call[c].about /\ new.amount = call[c].amount
        /\ new.applied = call[c].applied
        /\ new.answers \cup {new.told} \subseteq call[c].answers \cup {call[c].told}
    BY <1>2, <1>3 DEF Call
  <2> QED
    BY <1>1, <1>3, <2>1, NetworkStep
<1>4. CASE Repeat(c)
  <2>1. call[c].requests + 1 \in 0..MaxRequests
    BY <1>2, <1>4 DEF Repeat, Call
  <2>2. call' = [call EXCEPT ![c] = [call[c] EXCEPT !.requests = call[c].requests + 1]]
    BY <1>4 DEF Repeat, CInv, ClientsTypeOK
  <2> QED
    BY <1>3, <2>1, <2>2
<1>5. CASE Receive(c)
  <2>1. PICK answer \in call[c].answers :
          call' = IF answer = "error"
                    THEN [call EXCEPT ![c].answers = @ \ {answer}]
                    ELSE [call EXCEPT ![c].answers = {}, ![c].told = answer]
    BY <1>5 DEF Receive
  <2>2. CASE answer = "error"
    <3>1. call' = [call EXCEPT ![c] = [call[c] EXCEPT !.answers = call[c].answers \ {answer}]]
      BY <2>1, <2>2 DEF CInv, ClientsTypeOK
    <3> QED
      BY <1>3, <3>1
  <2>3. CASE answer # "error"
    <3>1. call' = [call EXCEPT ![c] = [call[c] EXCEPT !.answers = {}, !.told = answer]]
      BY <2>1, <2>3, <1>2 DEF CInv, ClientsTypeOK
    <3> QED
      BY <1>3, <2>3, <3>1
  <2> QED
    BY <2>2, <2>3
<1>6. CASE Lose(c)
  <2>1. CASE call[c].requests > 0 /\ call' = [call EXCEPT ![c].requests = @ - 1]
    <3>1. call[c].requests - 1 \in 0..MaxRequests
      BY <1>2, <2>1 DEF Call
    <3>2. call' = [call EXCEPT ![c] = [call[c] EXCEPT !.requests = call[c].requests - 1]]
      BY <2>1 DEF CInv, ClientsTypeOK
    <3> QED
      BY <1>3, <3>1, <3>2
  <2>2. CASE \E answer \in call[c].answers : call' = [call EXCEPT ![c].answers = @ \ {answer}]
    <3>1. PICK answer \in call[c].answers : call' = [call EXCEPT ![c].answers = @ \ {answer}]
      BY <2>2
    <3>2. call' = [call EXCEPT ![c] = [call[c] EXCEPT !.answers = call[c].answers \ {answer}]]
      BY <3>1 DEF CInv, ClientsTypeOK
    <3> QED
      BY <1>3, <3>2
  <2> QED
    BY <1>6, <2>1, <2>2 DEF Lose
<1> QED
  BY <1>4, <1>5, <1>6

-----------------------------------------------------------------------------
\* A served request keeps the invariant, if its own answer and effect do.
LEMMA ServeStep ==
  ASSUME CInv, IInv', \A p \in Payments : Moves(p),
         NEW c \in Callers, call[c] # NoCall, call[c].requests > 0,
         NEW answer \in Answers, NEW times \in {0, 1},
         Answered(c, answer, times),
         call[c].applied + times < 3,
         Declines, Authorizers',
         times = 1 => Effects(c)',
         Stands(c, answer)'
  PROVE  CInv'
<1> DEFINE new == [call[c] EXCEPT !.requests = @ - 1, !.applied = @ + times,
                     !.answers = IF call[c].told = "nothing" THEN @ \cup {answer} ELSE {}]
<1>1. call[c] \in Call /\ call \in [Callers -> {NoCall} \cup Call]
  BY CallType DEF CInv, ClientsTypeOK
<1>2. call' = [call EXCEPT ![c] = new]
  BY <1>1 DEF Answered
<1>3. /\ new \in Call /\ call'[c] = new
      /\ new.op = call[c].op /\ new.about = call[c].about /\ new.amount = call[c].amount
      /\ new.applied = call[c].applied + times
      /\ new.told = call[c].told
      /\ new.answers \subseteq call[c].answers \cup {answer}
  <2> DEFINE left == IF call[c].told = "nothing" THEN call[c].answers \cup {answer} ELSE {}
  <2>1. left \subseteq call[c].answers \cup {answer} /\ left \in SUBSET Answers
    BY <1>1 DEF Call
  <2>2. call[c].requests - 1 \in 0..MaxRequests /\ call[c].applied + times \in 0..2
    BY <1>1 DEF Call
  <2>3. new = [call[c] EXCEPT !.requests = call[c].requests - 1,
                              !.applied = call[c].applied + times, !.answers = left]
    BY <1>1 DEF Call
  <2> HIDE DEF left, new
  <2>4. /\ new \in Call
        /\ new.op = call[c].op /\ new.about = call[c].about /\ new.amount = call[c].amount
        /\ new.applied = call[c].applied + times
        /\ new.told = call[c].told
        /\ new.answers = left
    BY <1>1, <2>1, <2>2, <2>3 DEF Call
  <2> QED
    BY <1>1, <1>2, <2>1, <2>4
<1> HIDE DEF new
<1>4. Grows(c)
  BY <1>1, <1>3 DEF Grows, Call
<1>5. AllGrow
  <2> SUFFICES ASSUME NEW d \in Callers, call[d] # NoCall
               PROVE  call'[d] # NoCall /\ Grows(d)
    BY DEF AllGrow
  <2>1. CASE d = c
    BY <2>1, <1>3, <1>4, CallIsNotNoCall
  <2>2. CASE d # c
    BY <2>2, <1>1, <1>2, CallType DEF CInv, Grows, Call
  <2> QED
    BY <2>1, <2>2
<1>6. Effects(c)'
  BY <1>1, <1>3, <1>4, EffectsStay DEF Call
<1>7. AllStand(c)'
  <2> SUFFICES ASSUME NEW a \in call'[c].answers \cup {call'[c].told} PROVE Stands(c, a)'
    BY DEF AllStand
  <2>1. CASE a = answer
    BY <2>1
  <2>2. CASE a # answer
    <3>1. Stands(c, a)
      BY <2>2, <1>3 DEF CInv, AllStand
    <3> QED
      BY <3>1, <1>5, StandsStay
  <2> QED
    BY <2>1, <2>2
<1>8. new.about \in (IF new.op = "batch" THEN Merchants ELSE Payments)
  BY <1>3 DEF CInv, ClientsTypeOK
<1> QED
  BY <1>2, <1>3, <1>4, <1>6, <1>7, <1>8, CallerStep

\* What a caller's record becomes when its request is answered.
LEMMA AnsweredCall ==
  ASSUME CInv, NEW c \in Callers, call[c] # NoCall, NEW answer, NEW times \in {0, 1},
         Answered(c, answer, times)
  PROVE  /\ call'[c].op = call[c].op /\ call'[c].about = call[c].about
         /\ call'[c].amount = call[c].amount
         /\ call'[c].applied = call[c].applied + times
         /\ \A d \in Callers : d # c => call'[d] = call[d]
         /\ AllGrow
<1>1. call[c] \in Call /\ call \in [Callers -> {NoCall} \cup Call]
  BY CallType DEF CInv, ClientsTypeOK
<1>2. /\ call'[c].op = call[c].op /\ call'[c].about = call[c].about
      /\ call'[c].amount = call[c].amount
      /\ call'[c].applied = call[c].applied + times
      /\ call'[c].requests = call[c].requests - 1
      /\ \A d \in Callers : d # c => call'[d] = call[d]
  BY <1>1 DEF Answered, Call
<1>3. call'[c] # NoCall
  BY <1>1, <1>2 DEF Call, NoCall, Ops
<1>4. AllGrow
  BY <1>1, <1>2, <1>3, CallType DEF CInv, AllGrow, Grows, Call
<1> QED
  BY <1>2, <1>4

\* Where no payment becomes authorized or failed, its authorizers remain.
LEMMA OtherServices ==
  ASSUME CInv, AllGrow,
         \A p \in Payments : payment'[p].status \in {"authorized", "failed"} =>
                               payment'[p].status = payment[p].status
  PROVE  Declines /\ Authorizers'
  BY AuthorizersStay DEF CInv, Declines, Authorizers

LEMMA RefusedStep ==
  ASSUME CInv, NEW c \in Callers, call[c] # NoCall, call[c].requests > 0, UNCHANGED tables,
         NEW answer \in Answers, Answered(c, answer, 0), Stands(c, answer)'
  PROVE  CInv'
<1>1. IInv' /\ (\A p \in Payments : Moves(p)) /\ Declines
  BY SameTablesFacts
<1>2. Authorizers'
  BY AnsweredCall, OtherServices DEF tables
<1>3. call[c].applied + 0 < 3
  BY CallType DEF CInv, Call
<1> QED
  BY <1>1, <1>2, <1>3, ServeStep

LEMMA CaptureServed ==
  ASSUME CInv, NEW c \in Callers, ServeCapture(c)
  PROVE  CInv'
<1>1. PICK answer \in {"error", "refused"} : Answered(c, answer, 0)
  BY DEF ServeCapture
<1>2. /\ call[c].op = "capture" /\ call[c] # NoCall /\ call[c].requests > 0
      /\ UNCHANGED tables
  BY DEF ServeCapture, Arrives, NoCall
<1>3. Stands(c, answer)'
  BY <1>1, <1>2, AnsweredCall DEF Stands
<1> QED
  BY <1>1, <1>2, <1>3, RefusedStep DEF Answers

LEMMA AuthorizeServed ==
  ASSUME CInv, NEW c \in Callers, ServeAuthorize(c)
  PROVE  CInv'
<1>0. PICK p : p = call[c].about
  OBVIOUS
<1>1. /\ call[c].op = "authorize" /\ call[c] # NoCall /\ call[c].requests > 0
      /\ call[c] \in Call /\ p \in Payments
      /\ payment \in [Payments -> PaymentRow]
  BY <1>0, CallType DEF ServeAuthorize, Arrives, NoCall, CInv, IInv, TypeOK
<1>2. PICK outcome \in BankOutcomes :
        \/ /\ AuthorizePayment(p, outcome)
           /\ Answered(c, payment'[p].status, IF outcome = "timeout" THEN 0 ELSE 1)
        \/ Answered(c, "refused", 0) /\ UNCHANGED tables
  BY <1>0 DEF ServeAuthorize, Refused
<1>3. CASE Answered(c, "refused", 0) /\ UNCHANGED tables
  <2>1. Stands(c, "refused")'
    BY <1>1, <1>3, AnsweredCall DEF Stands
  <2> QED
    BY <1>1, <1>3, <2>1, RefusedStep DEF Answers
<1>4. CASE /\ outcome = "timeout"
           /\ AuthorizePayment(p, outcome)
           /\ Answered(c, payment'[p].status, 0)
  <2>1. UNCHANGED tables /\ payment[p].status \in PaymentStatus
    BY <1>1, <1>4 DEF AuthorizePayment, tables, CanTransition, TRANSITIONS, PaymentRow
  <2>2. PICK answer \in PaymentStatus : answer = payment[p].status /\ Answered(c, answer, 0)
    BY <1>4, <2>1 DEF tables
  <2>3. call'[c].about = p /\ call'[c].op = "authorize" /\ payment' = payment
    BY <1>0, <1>1, <2>1, <2>2, AnsweredCall DEF tables
  <2>4. Stands(c, answer)'
    BY <2>2, <2>3 DEF Stands
  <2> QED
    BY <1>1, <2>1, <2>2, <2>4, RefusedStep DEF Answers
<1>5. CASE /\ outcome # "timeout"
           /\ AuthorizePayment(p, outcome)
           /\ Answered(c, payment'[p].status, 1)
  <2>1. /\ CanTransition(payment[p].status, outcome)
        /\ payment' = [payment EXCEPT ![p].status = outcome]
        /\ outcome \in {"authorized", "failed"}
    BY <1>5 DEF AuthorizePayment, BankOutcomes
  <2>2. /\ payment'[p].status = outcome
        /\ \A q \in Payments : q # p => payment'[q] = payment[q]
    BY <1>1, <2>1 DEF PaymentRow
  <2>3. \/ payment[p].status = "created"
        \/ payment[p].status = "authorized" /\ outcome = "failed"
    BY <2>1 DEF CanTransition, TRANSITIONS
  <2>4. IInv' /\ \A q \in Payments : Moves(q)
    BY <1>1, <1>5, TablesMove DEF CInv
  <2>5. /\ call'[c].op = "authorize" /\ call'[c].about = p
        /\ call'[c].applied = call[c].applied + 1
        /\ \A d \in Callers : d # c => call'[d] = call[d]
        /\ AllGrow
    BY <1>0, <1>1, <1>5, AnsweredCall
  <2>6. /\ call[c].applied \in 0..2
        /\ call[c].applied > 0 => payment[p].status \in {"authorized", "failed"}
        /\ call[c].applied > 1 => payment[p].status = "failed"
    BY <1>0, <1>1 DEF CInv, Effects, Call
  <2>7. payment[p].status = "authorized" => AuthorizedTwice(p)'
    <3> SUFFICES ASSUME payment[p].status = "authorized" PROVE AuthorizedTwice(p)'
      OBVIOUS
    <3>1. PICK d \in Callers : /\ call[d].op = "authorize" /\ call[d].about = p
                               /\ call[d].applied > 0
      BY <1>1 DEF CInv, Authorizers, Authorizer, Calls
    <3>2. CASE d = c
      <4>1. call'[c].applied > 1 /\ call'[c].applied > 0
        BY <2>5, <2>6, <3>1, <3>2
      <4> QED
        BY <2>5, <4>1 DEF AuthorizedTwice, Calls
    <3>3. CASE d # c
      <4>1. call'[d].op = "authorize" /\ call'[d].about = p /\ call'[d].applied > 0
        BY <2>5, <3>1, <3>3
      <4>2. call'[c].applied > 0
        BY <2>5, <2>6
      <4> QED
        BY <2>5, <3>3, <4>1, <4>2 DEF AuthorizedTwice, Calls
    <3> QED
      BY <3>2, <3>3
  <2>8. Declines
    BY <2>2, <2>7 DEF Declines
  <2>9. Authorizers'
    <3> SUFFICES ASSUME NEW q \in Payments, payment'[q].status = "authorized"
                 PROVE  Authorizer(q)'
      BY DEF Authorizers
    <3>1. CASE q = p
      BY <2>5, <2>6, <3>1 DEF Authorizer, Calls
    <3>2. CASE q # p
      BY <2>2, <2>5, <3>2, AuthorizersStay DEF CInv, Authorizers
    <3> QED
      BY <3>1, <3>2
  <2>10. Effects(c)'
    BY <2>1, <2>2, <2>3, <2>5, <2>6 DEF Effects
  <2>11. Stands(c, outcome)'
    BY <2>1, <2>2, <2>5 DEF Stands
  <2>12. /\ outcome \in Answers /\ Answered(c, outcome, 1)
         /\ call[c].applied + 1 < 3
    BY <1>5, <2>1, <2>2, <2>3, <2>6 DEF Answers, PaymentStatus
  <2> QED
    BY <1>1, <2>4, <2>8, <2>9, <2>10, <2>11, <2>12, ServeStep
<1> QED
  BY <1>2, <1>3, <1>4, <1>5

LEMMA RefundServed ==
  ASSUME CInv, NEW c \in Callers, ServeRefund(c)
  PROVE  CInv'
<1>0. PICK p, amt : p = call[c].about /\ amt = call[c].amount
  OBVIOUS
<1>1. /\ call[c].op = "refund" /\ call[c] # NoCall /\ call[c].requests > 0
      /\ call[c] \in Call /\ p \in Payments /\ amt \in Amounts
      /\ Effects(c) /\ IInv
  <2>1. call[c].op = "refund" /\ call[c] # NoCall /\ call[c].requests > 0
    BY DEF ServeRefund, Arrives, NoCall
  <2> QED
    BY <1>0, <2>1, CallType DEF CInv, Effects
<1>2. CASE ~RefundAccepted(p, amt) /\ Refused(c)
  <2>1. UNCHANGED tables /\ Answered(c, "refused", 0)
    BY <1>2 DEF Refused
  <2>2. call'[c].op = "refund" /\ call'[c].about = p /\ call'[c].amount = amt
    BY <1>0, <1>1, <2>1, AnsweredCall
  <2>3. ~RefundAccepted(p, amt)'
    BY <1>1, <1>2, <2>1, TablesMove, MovesOn
  <2>4. Stands(c, "refused")'
    BY <2>2, <2>3 DEF Stands
  <2> QED
    BY <1>1, <2>1, <2>4, RefusedStep DEF Answers
<1>3. CASE RefundPayment(p, amt) /\ Answered(c, "done", 1)
  <2>1. IInv' /\ \A q \in Payments : Moves(q)
    BY <1>1, <1>3, TablesMove
  <2>2. /\ call'[c].op = "refund" /\ call'[c].about = p /\ call'[c].amount = amt
        /\ call'[c].applied = call[c].applied + 1
        /\ AllGrow
    BY <1>0, <1>1, <1>3, AnsweredCall
  <2>3. /\ payment \in [Payments -> PaymentRow] /\ refunds \in [Payments -> RefundRows]
        /\ RefundsMatch(p)
    BY <1>1 DEF IInv, TypeOK, RefundsMatchStatus
  <2>4. /\ RefundAccepted(p, amt)
        /\ payment'[p].status = RefundTarget(p, amt)
        /\ refunds'[p].total = refunds[p].total + amt
        /\ \A q \in Payments : q # p => payment'[q] = payment[q]
    BY <1>1, <1>3, <2>3 DEF RefundPayment, WriteRefund, PaymentRow, RefundRows
  <2>5. payment'[p].status \in {"partially_refunded", "refunded"}
    BY <2>4 DEF RefundTarget
  <2>6. payment[p].status \in {"captured", "settled", "partially_refunded"}
    BY <2>4 DEF RefundAccepted, RefundTarget, CanTransition, TRANSITIONS
  <2>7. payment[p].status = "partially_refunded" =>
          payment'[p].status = "refunded" /\ amt = Remaining(p)
    BY <2>4 DEF RefundAccepted, RefundTarget, CanTransition, TRANSITIONS
  <2>8. /\ call[c].applied \in 0..2
        /\ call[c].applied > 0 => /\ payment[p].status = "partially_refunded"
                                  /\ call[c].applied = 1 /\ refunds[p].total = amt
    BY <1>0, <1>1, <2>6 DEF Effects, Call
  <2>9. Collected(p)' = Collected(p) /\ Collected(p) = CapturedOrAmount(payment[p])
    <3>1. CapturedOrAmount(payment[p])' = CapturedOrAmount(payment[p])
      BY <1>1, <1>3, <2>3 DEF RefundPayment, WriteRefund, PaymentRow, CapturedOrAmount
    <3> QED
      BY <3>1, <2>5, <2>6 DEF Collected, CapturedStatus
  <2>10. /\ CapturedOrAmount(payment[p]) \in Int /\ refunds[p].total \in Int /\ amt \in Int
         /\ payment[p].status \in {"captured", "settled"} => refunds[p].total = 0
    <3>1. /\ payment[p] \in PaymentRow /\ refunds[p].total \in Nat
          /\ amt \in Int /\ MaxInt \in Nat
      BY <1>1, <2>3, AmountsAssumption DEF RefundRows
    <3>2. CapturedOrAmount(payment[p]) \in Nat
      BY <3>1 DEF CapturedOrAmount, PaymentRow
    <3>3. payment[p].status \in {"captured", "settled"} => refunds[p].total = 0
      BY <2>3, <2>9, <3>1, <3>2 DEF RefundsMatch
    <3> QED
      BY <3>1, <3>2, <3>3
  <2>11. call[c].applied = 1 => 2 * amt = Collected(p)
    BY <2>7, <2>8, <2>9, <2>10 DEF Remaining
  <2>12. Effects(c)'
    <3>1. Collected(call[c].about)' = Collected(p)
      BY <2>2, <2>9
    <3>2. payment'[p].status = "partially_refunded" =>
            call'[c].applied = 1 /\ refunds'[p].total = amt
      BY <2>2, <2>4, <2>6, <2>7, <2>8, <2>10
    <3>3. call'[c].applied > 1 => 2 * amt = Collected(p)
      BY <2>2, <2>8, <2>11
    <3> QED
      BY <1>1, <2>2, <2>5, <3>1, <3>2, <3>3 DEF Effects
  <2>13. Stands(c, "done")'
    BY <2>2, <2>8 DEF Stands
  <2>14. Declines /\ Authorizers'
    BY <2>2, <2>4, <2>5, OtherServices
  <2> QED
    BY <1>1, <1>3, <2>1, <2>8, <2>12, <2>13, <2>14, ServeStep DEF Answers
<1> QED
  BY <1>0, <1>2, <1>3 DEF ServeRefund

LEMMA BatchServed ==
  ASSUME CInv, NEW c \in Callers, ServeBatch(c)
  PROVE  CInv'
<1>0. PICK m : m = call[c].about
  OBVIOUS
<1>1. /\ call[c].op = "batch" /\ call[c] # NoCall /\ call[c].requests > 0
      /\ call[c] \in Call /\ m \in Merchants
      /\ Effects(c) /\ IInv
  <2>1. call[c].op = "batch" /\ call[c] # NoCall /\ call[c].requests > 0
    BY DEF ServeBatch, Arrives, NoCall
  <2> QED
    BY <1>0, <2>1, CallType DEF CInv
<1>2. CASE UnsettledPayments(m) = {} /\ Refused(c)
  <2>1. UNCHANGED tables /\ Answered(c, "refused", 0)
    BY <1>2 DEF Refused
  <2>2. call'[c].op = "batch" /\ call'[c].about = m
    BY <1>0, <1>1, <2>1, AnsweredCall
  <2>3. UnsettledPayments(m)' = {}
    BY <1>1, <1>2, <2>1, TablesMove, SettledStays
  <2>4. Stands(c, "refused")'
    BY <2>2, <2>3 DEF Stands
  <2> QED
    BY <1>1, <2>1, <2>4, RefusedStep DEF Answers
<1>3. CASE \E s \in Settlements : CreateSettlementBatch(m, s) /\ Answered(c, "error", 1)
  <2>1. PICK s \in Settlements : CreateSettlementBatch(m, s) /\ Answered(c, "error", 1)
    BY <1>3
  <2>2. IInv' /\ \A q \in Payments : Moves(q)
    BY <1>1, <2>1, TablesMove
  <2>3. /\ call'[c].op = "batch" /\ call'[c].about = m
        /\ call'[c].applied = call[c].applied + 1
        /\ AllGrow
    BY <1>0, <1>1, <2>1, AnsweredCall
  <2>4. call[c].applied = 0
    BY <1>0, <1>1, <2>1 DEF Effects, Call, CreateSettlementBatch
  <2>5. /\ payment \in [Payments -> PaymentRow]
        /\ payment' = [q \in Payments |->
             IF q \in UnsettledPayments(m)
               THEN [payment[q] EXCEPT !.status = "settled", !.settlement_id = s]
               ELSE payment[q]]
    BY <1>1, <2>1 DEF CreateSettlementBatch, WriteBatch, IInv, TypeOK
  <2>6. \A q \in Payments :
          /\ q \in UnsettledPayments(m) => payment'[q].status = "settled"
          /\ q \notin UnsettledPayments(m) => payment'[q] = payment[q]
    BY <2>5 DEF PaymentRow
  <2>7. UnsettledPayments(m)' = {}
    <3> SUFFICES ASSUME NEW q \in Payments, q \in UnsettledPayments(m)' PROVE FALSE
      BY DEF UnsettledPayments, PaymentsOf
    <3>1. /\ payment'[q].status = "captured" /\ payment'[q].settlement_id = NoSettlement
          /\ Owner[q] = m
      BY DEF UnsettledPayments, PaymentsOf
    <3>2. q \notin UnsettledPayments(m)
      BY <3>1, <2>6
    <3> QED
      BY <3>1, <3>2, <2>6 DEF UnsettledPayments, PaymentsOf
  <2>8. Effects(c)'
    <3>1. UnsettledPayments(call[c].about)' = {}
      BY <2>3, <2>7
    <3> QED
      BY <2>3, <2>4, <3>1 DEF Effects
  <2>9. Stands(c, "error")'
    BY <2>3 DEF Stands
  <2>10. Declines /\ Authorizers'
    BY <2>3, <2>6, OtherServices
  <2> QED
    BY <1>1, <2>1, <2>2, <2>4, <2>8, <2>9, <2>10, ServeStep DEF Answers
<1> QED
  BY <1>0, <1>2, <1>3 DEF ServeBatch

\* A step of the tables alone keeps what holds of the calls.
LEMMA CallsUnchanged ==
  ASSUME CInv, IInv', \A p \in Payments : Moves(p), call' = call, AllGrow, Declines, Authorizers'
  PROVE  CInv'
<1>1. ClientsTypeOK'
  BY DEF CInv, ClientsTypeOK, IInv
<1>2. ASSUME NEW c \in Callers, call'[c] # NoCall PROVE Effects(c)' /\ AllStand(c)'
  <2>1. Effects(c)'
    BY <1>2, EffectsStay DEF AllGrow
  <2>2. ASSUME NEW answer \in call[c].answers \cup {call[c].told} PROVE Stands(c, answer)'
    <3>1. Stands(c, answer)
      BY <1>2 DEF CInv, AllStand
    <3> QED
      BY <1>2, <3>1, StandsStay
  <2> QED
    BY <2>1, <2>2 DEF AllStand
<1> QED
  BY <1>1, <1>2 DEF CInv

LEMMA CreateServed ==
  ASSUME CInv, NEW p \in Payments, NEW amt \in Amounts, ServeCreate(p, amt)
  PROVE  CInv'
<1>1. CreatePayment(p, amt) /\ call' = call
  BY DEF ServeCreate
<1>2. IInv' /\ \A q \in Payments : Moves(q)
  BY <1>1, TablesMove DEF CInv
<1>3. AllGrow
  BY <1>1, CallType DEF CInv, AllGrow, Grows, Call
<1>4. \A q \in Payments : q # p => payment'[q] = payment[q]
  BY <1>1 DEF CInv, IInv, TypeOK, CreatePayment
<1>5. payment'[p].status = "created"
  BY <1>1 DEF CInv, IInv, TypeOK, CreatePayment, NewRow
<1>6. Declines /\ Authorizers'
  BY <1>3, <1>4, <1>5, OtherServices
<1> QED
  BY <1>1, <1>2, <1>3, <1>6, CallsUnchanged

LEMMA ClientsStep == CInv /\ [ClientsNext]_clientVars => CInv'
<1> SUFFICES ASSUME CInv, [ClientsNext]_clientVars PROVE CInv'
  OBVIOUS
<1>1. CASE \E p \in Payments, amt \in Amounts : ServeCreate(p, amt)
  BY <1>1, CreateServed
<1>2. CASE \E c \in Callers : AskAny(c) \/ Repeat(c) \/ Receive(c) \/ Lose(c)
  BY <1>2, AskStep, QuietStep
<1>3. CASE \E c \in Callers : Serve(c)
  BY <1>3, AuthorizeServed, CaptureServed, RefundServed, BatchServed DEF Serve
<1>4. CASE UNCHANGED clientVars
  <2>1. UNCHANGED tables /\ call' = call
    BY <1>4 DEF clientVars, tables
  <2>2. IInv' /\ (\A p \in Payments : Moves(p)) /\ Declines
    BY <2>1, SameTablesFacts
  <2>3. AllGrow
    BY <2>1, CallType DEF CInv, AllGrow, Grows, Call
  <2>4. Authorizers'
    BY <2>1, <2>3, OtherServices DEF tables
  <2> QED
    BY <2>1, <2>2, <2>3, <2>4, CallsUnchanged
<1> QED
  BY <1>1, <1>2, <1>3, <1>4 DEF ClientsNext

LEMMA InitCInv == ClientsInit => CInv
<1> SUFFICES ASSUME ClientsInit PROVE CInv
  OBVIOUS
<1>1. IInv
  BY InitTypeOK, InitGood, InvByPayment DEF ClientsInit
<1>2. Authorizers
  BY DEF ClientsInit, Init, Authorizers, NoPayment, LegacyRow, NewRow
<1> QED
  BY <1>1, <1>2 DEF CInv, ClientsInit, ClientsTypeOK, IInv

LEMMA ClientsInvariance == ClientsSpec => []CInv
  BY InitCInv, ClientsStep, PTL DEF ClientsSpec

-----------------------------------------------------------------------------
\* Calls keep their shape, and none takes effect more than twice.
THEOREM ClientsTypeCorrect == ClientsSpec => []ClientsTypeOK
  BY ClientsInvariance, PTL DEF CInv

\* A repeated request takes effect once, but for the second half of a payment
\* and a decline after an authorization (the routers, and TRANSITIONS).
THEOREM EffectsHappenOnce == ClientsSpec => []AppliedOnce
<1>1. CInv => AppliedOnce
  <2> SUFFICES ASSUME CInv, NEW c \in Callers, call[c] # NoCall, call[c].applied > 1
               PROVE  \/ call[c].op = "authorize" /\ payment[call[c].about].status = "failed"
                      \/ /\ call[c].op = "refund"
                         /\ 2 * call[c].amount = Collected(call[c].about)
    BY DEF AppliedOnce
  <2>1. Effects(c) /\ call[c] \in Call
    BY CallType DEF CInv
  <2> QED
    BY <2>1 DEF Effects, Call, Ops
<1> QED
  BY <1>1, ClientsInvariance, PTL

\* What a caller was told stays true, whatever its late requests and those of
\* others do (the answers of the routers).
THEOREM AnswersStayTrue == ClientsSpec => []AnswersStand
<1>1. CInv => AnswersStand
  BY DEF CInv, AllStand, AnswersStand
<1> QED
  BY <1>1, ClientsInvariance, PTL
-----------------------------------------------------------------------------
\* A request that is served is a call of the service layer, or none.
LEMMA ServedStep ==
  ASSUME CInv, [ClientsNext]_clientVars
  PROVE  [Next]_tables
<1>1. ASSUME NEW p \in Payments, NEW amt \in Amounts, ServeCreate(p, amt) PROVE Next
  BY <1>1 DEF ServeCreate, Next
<1>2. ASSUME NEW c \in Callers, ServeAuthorize(c) PROVE [Next]_tables
  <2>1. call[c].about \in Payments
    BY <1>2, CallType DEF ServeAuthorize, Arrives, CInv, ClientsTypeOK, NoCall
  <2>2. (\E outcome \in BankOutcomes : AuthorizePayment(call[c].about, outcome))
          \/ UNCHANGED tables
    BY <1>2 DEF ServeAuthorize, Refused
  <2> QED
    BY <2>1, <2>2 DEF Next
<1>3. ASSUME NEW c \in Callers, ServeRefund(c) PROVE [Next]_tables
  <2>1. call[c].op = "refund" /\ call[c] # NoCall
    BY <1>3 DEF ServeRefund, Arrives, NoCall
  <2>2. call[c].about \in Payments /\ call[c].amount \in Amounts
    BY <2>1 DEF CInv, ClientsTypeOK, Effects
  <2> QED
    BY <1>3, <2>2 DEF ServeRefund, Refused, Next
<1>4. ASSUME NEW c \in Callers, ServeBatch(c) PROVE [Next]_tables
  <2>1. call[c].about \in Merchants
    BY <1>4 DEF ServeBatch, Arrives, CInv, ClientsTypeOK, NoCall
  <2> QED
    BY <1>4, <2>1 DEF ServeBatch, Refused, Next
<1>5. ASSUME NEW c \in Callers, AskAny(c) \/ Repeat(c) \/ ServeCapture(c) \/ Receive(c) \/ Lose(c)
      PROVE  UNCHANGED tables
  BY <1>5 DEF AskAny, Ask, Repeat, ServeCapture, Receive, Lose
<1>6. CASE UNCHANGED clientVars
  BY <1>6 DEF clientVars, tables
<1> QED
  BY <1>1, <1>2, <1>3, <1>4, <1>5, <1>6 DEF ClientsNext, Serve

\* Callers can do nothing to the tables, by repeating requests that are delayed
\* and lost, that the service layer does not do when it is called by itself.
THEOREM ClientsUseTheService == ClientsSpec => Spec
<1>1. ClientsInit => Init
  BY DEF ClientsInit
<1>2. CInv /\ [ClientsNext]_clientVars => [Next]_tables
  BY ServedStep
<1> QED
  BY <1>1, <1>2, ClientsInvariance, PTL DEF ClientsSpec, Spec

\* Whatever the network does to the calls, the contract of a payment is kept.
THEOREM ClientsKeepContract == ClientsSpec => ImplementsContract
  BY ClientsUseTheService, Implementation

\* Repeated, delayed and lost requests leave the books in order: the ledger is
\* the audit trail of the payments, wallets and settlements say what the payments
\* say, and no accepted refund overdraws a wallet (record_capture, record_refund,
\* create_settlement_batch).
THEOREM ClientsKeepAccounts ==
  ClientsSpec => [](AuditTrail /\ WalletIsNetFunds /\ SettlementAddsUp /\ WalletsCoverRefunds)
  BY ClientsUseTheService, LedgerIsAuditTrail, WalletCorrect, SettlementsAddUp,
     RefundsAreCovered, PTL
=============================================================================
