--------------------------- MODULE ContractProofs ---------------------------
(***************************************************************************)
(* The service layer implements the contract of a payment, for any number  *)
(* of payments and any amounts: the initial states of PaymentService map   *)
(* to initial states of PaymentContract, and every operation to the step   *)
(* of the same name or, when the bank times out, to a stuttering step.     *)
(***************************************************************************)
EXTENDS PaymentServiceProofs

\* The refinement mapping, named.
status == [p \in Payments |-> payment[p].status]
captured == [p \in Payments |-> Collected(p)]
refunded == [p \in Payments |-> refunds[p].total]
settled == {p \in Payments : payment[p].settlement_id # NoSettlement}

\* What a step that touches one payment only leaves of the mapping.
LEMMA MappingOfOne ==
  ASSUME NEW p \in Payments,
         \A q \in Payments \ {p} : payment'[q] = payment[q] /\ refunds'[q] = refunds[q]
  PROVE  /\ status' = [status EXCEPT ![p] = payment'[p].status]
         /\ captured' = [captured EXCEPT ![p] = Collected(p)']
         /\ refunded' = [refunded EXCEPT ![p] = refunds'[p].total]
         /\ payment'[p].settlement_id = payment[p].settlement_id => settled' = settled
  BY DEF status, captured, refunded, settled, Collected, CapturedOrAmount

LEMMA CollectedIsNat ==
  ASSUME TypeOK, NEW p \in Payments
  PROVE  Collected(p) \in Nat
  BY AmountsAssumption DEF TypeOK, Collected, CapturedOrAmount, PaymentRow

LEMMA ContractInit == Init => Contract!Init
  <1> SUFFICES ASSUME Init PROVE Contract!Init
    OBVIOUS
  <1>1. TypeOK /\ \A p \in Payments : GoodPayment(p)
    BY InitTypeOK, InitGood
  <1>2. \A p \in Payments : /\ payment[p].status \in {"absent", "captured"}
                            /\ payment[p].settlement_id = NoSettlement
                            /\ refunds[p].total = 0
    BY DEF Init, NoPayment, LegacyRow, NewRow, NoRefunds
  <1>3. \A p \in Payments : Collected(p) \in Nat
    BY <1>1, CollectedIsNat
  <1>4. \A p \in Payments : Collected(p) > 0 <=> payment[p].status = "captured"
    <2> SUFFICES ASSUME NEW p \in Payments
                 PROVE  Collected(p) > 0 <=> payment[p].status = "captured"
      OBVIOUS
    <2>1. GoodPayment(p) /\ payment[p] \in PaymentRow
      BY <1>1 DEF TypeOK
    <2> QED
      BY <1>2, <2>1, AmountsAssumption DEF GoodPayment, RowMatchesStatus, Collected,
         CapturedOrAmount, CapturedStatus, PaymentRow
  <1> QED
    BY <1>2, <1>3, <1>4 DEF Contract!Init
-----------------------------------------------------------------------------
LEMMA ContractCreate ==
  ASSUME TypeOK, NEW p \in Payments, NEW amt \in Amounts, CreatePayment(p, amt),
         payment[p].status = "absent" => payment[p] = NoPayment
  PROVE  Contract!Create(p)
  <1>2. /\ payment[p].status = "absent"
        /\ payment' = [payment EXCEPT ![p] = NewRow("created", amt)]
        /\ refunds' = refunds
    BY DEF CreatePayment
  <1>3. payment[p] = NoPayment /\ payment'[p] = NewRow("created", amt)
    BY <1>2 DEF TypeOK
  <1>4. /\ payment'[p].status = "created"
        /\ payment'[p].settlement_id = payment[p].settlement_id
        /\ Collected(p)' = Collected(p)
    BY <1>3 DEF NewRow, NoPayment, Collected, CapturedStatus
  <1>5. /\ status' = [status EXCEPT ![p] = "created"]
        /\ captured' = captured
        /\ refunded' = refunded
        /\ settled' = settled
    BY <1>2, <1>4, MappingOfOne DEF TypeOK, captured, refunded
  <1> QED
    BY <1>2, <1>5 DEF Contract!Create, status, captured, refunded, settled

\* An answer of the bank that is a transition.
LEMMA ContractDecide ==
  ASSUME TypeOK, NEW p \in Payments, NEW outcome \in {"authorized", "failed"},
         CanTransition(payment[p].status, outcome),
         payment' = [payment EXCEPT ![p].status = outcome], refunds' = refunds
  PROVE  Contract!Decide(p)
  <1>1. payment[p].status \in {"created", "authorized"}
    BY DEF CanTransition, TRANSITIONS
  <1>2. /\ payment'[p].status = outcome
        /\ payment'[p].settlement_id = payment[p].settlement_id
    BY DEF TypeOK, PaymentRow
  <1>3. Collected(p)' = Collected(p)
    BY <1>1, <1>2 DEF Collected, CapturedStatus
  <1>4. /\ status' = [status EXCEPT ![p] = outcome]
        /\ captured' = captured
        /\ refunded' = refunded
        /\ settled' = settled
    BY <1>2, <1>3, MappingOfOne DEF TypeOK, captured, refunded
  <1>5. CanTransition(status[p], outcome)
    BY DEF status
  <1> QED
    BY <1>4, <1>5 DEF Contract!Decide, Contract!CanTransition, Contract!TRANSITIONS,
       CanTransition, TRANSITIONS, status, captured, refunded, settled

LEMMA ContractAuthorize ==
  ASSUME TypeOK, NEW p \in Payments, NEW outcome \in BankOutcomes,
         AuthorizePayment(p, outcome)
  PROVE  Contract!Decide(p) \/ UNCHANGED Contract!vars
  <1>1. CASE UNCHANGED payment
    BY <1>1 DEF AuthorizePayment, Contract!vars, Collected, CapturedOrAmount
  <1>2. CASE /\ CanTransition(payment[p].status, outcome)
             /\ payment' = [payment EXCEPT ![p].status = outcome]
    <2>1. outcome \in {"authorized", "failed"} /\ refunds' = refunds
      BY <1>2 DEF CanTransition, TRANSITIONS, BankOutcomes, AuthorizePayment
    <2> QED
      BY <1>2, <2>1, ContractDecide
  <1> QED
    BY <1>1, <1>2 DEF AuthorizePayment

LEMMA ContractCapture ==
  ASSUME IInv, NEW p \in Payments, NEW requested \in Amounts \cup {0},
         CapturePayment(p, requested)
  PROVE  Contract!Capture(p)
  <1> DEFINE amt == CaptureAmount(p, requested)
  <1>1. TypeOK /\ GoodPayment(p)
    BY InvByPayment DEF IInv
  <1>2. /\ payment[p].status = "authorized"
        /\ amt \in Nat \ {0}
    BY <1>1, AmountsAssumption
       DEF CapturePayment, CaptureAccepted, CaptureAmount, CanTransition, TRANSITIONS,
           TypeOK, PaymentRow, GoodPayment, RowMatchesStatus
  <1>3. /\ payment' = [payment EXCEPT ![p].status = "captured",
                                     ![p].captured_amount = amt]
        /\ refunds' = refunds
    BY DEF CapturePayment
  <1> HIDE DEF amt
  <1>4. /\ payment'[p].status = "captured"
        /\ payment'[p].captured_amount = amt
        /\ payment'[p].settlement_id = payment[p].settlement_id
    BY <1>1, <1>3 DEF TypeOK, PaymentRow
  <1>5. Collected(p)' = amt
    BY <1>2, <1>4 DEF Collected, CapturedOrAmount, CapturedStatus
  <1>6. /\ status' = [status EXCEPT ![p] = "captured"]
        /\ captured' = [captured EXCEPT ![p] = amt]
        /\ refunded' = refunded
        /\ settled' = settled
    BY <1>1, <1>3, <1>4, <1>5, MappingOfOne DEF TypeOK, refunded
  <1>7. captured'[p] = amt
    BY <1>6 DEF captured
  <1>8. status[p] = "authorized"
    BY <1>2 DEF status
  <1> QED
    BY <1>2, <1>6, <1>7, <1>8 DEF Contract!Capture, status, captured, refunded, settled

\* A refund that is accepted, whichever balance its handler has seen.
LEMMA ContractRefund ==
  ASSUME TypeOK, NEW p \in Payments, NEW amt \in Amounts, RefundAccepted(p, amt),
         NEW balance, WriteRefund(p, amt, RefundTarget(p, amt), balance)
  PROVE  Contract!Refund(p)
  <1> DEFINE target == RefundTarget(p, amt)
             given == refunds[p].total + amt
  <1>1. TypeOK /\ refunds[p] \in RefundRows
    BY DEF TypeOK
  <1>2. /\ CanTransition(payment[p].status, target)
        /\ payment[p].status \in CapturedStatus
        /\ target \in CapturedStatus
    BY DEF RefundAccepted, RefundTarget, CanTransition, TRANSITIONS,
           CapturedStatus
  <1>3. Collected(p) = CapturedOrAmount(payment[p]) /\ Collected(p) \in Nat
    BY <1>1, <1>2, CollectedIsNat DEF Collected
  <1>4. /\ given \in (refunds[p].total + 1)..Collected(p)
        /\ target = IF given = Collected(p) THEN "refunded" ELSE "partially_refunded"
    BY <1>1, <1>3, AmountsAssumption
       DEF RefundAccepted, RefundTarget, Remaining, RefundRows
  <1> HIDE DEF target
  <1>5. /\ payment' = [payment EXCEPT ![p].status = target]
        /\ refunds' = [refunds EXCEPT ![p] = [count |-> refunds[p].count + 1,
                                             total |-> given]]
    BY DEF WriteRefund, target
  <1> HIDE DEF given
  <1>6. /\ payment'[p].status = target
        /\ payment'[p].amount = payment[p].amount
        /\ payment'[p].captured_amount = payment[p].captured_amount
        /\ payment'[p].settlement_id = payment[p].settlement_id
        /\ refunds'[p].total = given
    BY <1>1, <1>5 DEF TypeOK, PaymentRow
  <1>7. Collected(p)' = Collected(p)
    BY <1>2, <1>6 DEF Collected, CapturedOrAmount
  <1>8. /\ status' = [status EXCEPT ![p] = target]
        /\ captured' = captured
        /\ refunded' = [refunded EXCEPT ![p] = given]
        /\ settled' = settled
    BY <1>1, <1>5, <1>6, <1>7, MappingOfOne DEF TypeOK, captured
  <1>9. /\ refunded'[p] = given
        /\ refunded[p] = refunds[p].total
        /\ captured[p] = Collected(p)
        /\ status[p] = payment[p].status
    BY <1>8 DEF refunded, captured, status
  <1> QED
    BY <1>2, <1>4, <1>8, <1>9 DEF Contract!Refund, Contract!CanTransition,
       Contract!TRANSITIONS, CanTransition, TRANSITIONS, status, captured, refunded, settled

LEMMA ContractSettle ==
  ASSUME IInv, NEW m \in Merchants, NEW s \in Settlements, CreateSettlementBatch(m, s)
  PROVE  \E batch \in SUBSET Payments : Contract!Settle(batch)
  <1>1. TypeOK
    BY DEF IInv
  <1>2. PICK batch \in SUBSET Payments : batch = UnsettledPayments(m)
    BY DEF UnsettledPayments, PaymentsOf
  <1>3. /\ batch # {}
        /\ \A p \in batch : /\ payment[p].status = "captured"
                            /\ payment[p].settlement_id = NoSettlement
        /\ payment' = [p \in Payments |->
             IF p \in batch
               THEN [payment[p] EXCEPT !.status = "settled", !.settlement_id = s]
               ELSE payment[p]]
        /\ refunds' = refunds
    BY <1>2 DEF CreateSettlementBatch, WriteBatch, UnsettledPayments
  <1>4. \A p \in batch : /\ payment'[p].status = "settled"
                         /\ payment'[p].settlement_id = s
                         /\ payment'[p].amount = payment[p].amount
                         /\ payment'[p].captured_amount = payment[p].captured_amount
    BY <1>1, <1>3 DEF TypeOK, PaymentRow
  <1>5. \A p \in Payments \ batch : payment'[p] = payment[p]
    BY <1>3
  <1>6. status' = [p \in Payments |-> IF p \in batch THEN "settled" ELSE status[p]]
    BY <1>4, <1>5 DEF status
  <1>7. captured' = captured
    <2>1. \A p \in batch : payment[p].status = "captured"
      BY <1>3
    <2>2. \A p \in Payments : Collected(p)' = Collected(p)
      BY <1>4, <1>5, <2>1 DEF Collected, CapturedOrAmount, CapturedStatus
    <2> QED
      BY <2>2 DEF captured
  <1>8. settled' = settled \cup batch
    BY <1>4, <1>5, SettlementsAssumption DEF settled
  <1>9. \A p \in batch : status[p] = "captured" /\ p \notin settled
    BY <1>3 DEF status, settled
  <1>10. refunded' = refunded
    BY <1>3 DEF refunded
  <1>11. Contract!Settle(batch)
    BY <1>3, <1>6, <1>7, <1>8, <1>9, <1>10
       DEF Contract!Settle, status, captured, refunded, settled
  <1> QED
    BY <1>11
-----------------------------------------------------------------------------
LEMMA ContractStep == IInv /\ [Next]_tables => [Contract!Next]_(Contract!vars)
  <1> SUFFICES ASSUME IInv, [Next]_tables
               PROVE  Contract!Next \/ UNCHANGED Contract!vars
    OBVIOUS
  <1>1. CASE UNCHANGED tables
    BY <1>1 DEF tables, Contract!vars, Collected, CapturedOrAmount
  <1>2. TypeOK /\ \A p \in Payments : payment[p].status = "absent" => payment[p] = NoPayment
    BY DEF IInv, RowsMatchStatus, RowMatchesStatus
  <1>3. ASSUME NEW p \in Payments, NEW amt \in Amounts, RefundPayment(p, amt)
        PROVE  Contract!Refund(p)
    BY <1>2, <1>3, ContractRefund DEF RefundPayment
  <1>4. CASE Next
    BY <1>2, <1>3, <1>4, ContractCreate, ContractAuthorize, ContractCapture, ContractSettle
       DEF Next, Contract!Next
  <1> QED
    BY <1>1, <1>4

\* The operations of the service layer keep the contract of every payment: one
\* capture, refunds within it, at most one settlement, and no other move.
THEOREM Implementation == Spec => ImplementsContract
  BY ContractInit, ContractStep, Invariance, PTL
     DEF Spec, ImplementsContract, Contract!Spec
=============================================================================
