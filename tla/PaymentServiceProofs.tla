------------------------ MODULE PaymentServiceProofs ------------------------
(***************************************************************************)
(* Proofs about PaymentService: for any number of merchants, payments and  *)
(* settlements and any amounts, the ledger keeps the audit trail of every  *)
(* payment, a collected payment can always be given back and never more    *)
(* than it brought in, and the service layer implements the contract.      *)
(***************************************************************************)
EXTENDS PaymentService, SumProofs

\* The inductive invariant.  AuditTrail alone is not inductive: that a capture
\* finds no capture pair and a batch no settlement pair follows from the
\* status, which is what RowsMatchStatus says.
IInv == TypeOK /\ RowsMatchStatus /\ RefundsMatchStatus /\ AuditTrail

\* What IInv says of one payment beyond its types.
GoodPayment(p) == RowMatchesStatus(p) /\ RefundsMatch(p) /\ Audited(p)

USE PaymentsAssumption, SettlementsAssumption, AmountsAssumption
-----------------------------------------------------------------------------
\* A batch of payments has a size.
LEMMA BatchSize ==
  ASSUME NEW batch \in SUBSET Payments
  PROVE  Cardinality(batch) \in Nat
  BY FS_Subset, FS_CardinalityType

LEMMA InitTypeOK == Init => TypeOK
  <1> SUFFICES ASSUME Init PROVE TypeOK
    OBVIOUS
  <1>1. payment \in [Payments -> PaymentRow]
    <2>1. NoPayment \in PaymentRow
      BY DEF PaymentRow, NewRow, NoPayment
    <2>2. \A a \in Amounts : LegacyRow(a) \in PaymentRow
      BY DEF PaymentRow, NewRow, NoPayment, LegacyRow, PaymentStatus
    <2> QED
      BY <2>1, <2>2 DEF Init
  <1>2. refunds \in [Payments -> RefundRows]
    BY DEF Init, RefundRows, NoRefunds
  <1>3. ledger \in [Payments -> LedgerRows]
    <2>1. \A p \in Payments : payment[p].amount \in Nat
      BY <1>1 DEF PaymentRow
    <2> QED
      BY <2>1 DEF Init, LedgerRows, Booked, NoEntries, Accounts
  <1>4. settlement \in [Settlements -> SettlementRow]
    BY DEF Init, SettlementRow, NoBatch, IntColumn
  <1> QED
    BY <1>1, <1>2, <1>3, <1>4 DEF Init, TypeOK

\* Booking an amount on an entry row of the right shape gives one.
LEMMA BookedType ==
  ASSUME NEW entries \in LedgerRows, NEW d \in Accounts, NEW c \in Accounts,
         NEW amt \in Nat
  PROVE  Booked(entries, d, c, amt) \in LedgerRows
  BY DEF Booked, LedgerRows

\* A payment that a step leaves alone in every table stays good.
LEMMA Frame ==
  ASSUME NEW p \in Payments, GoodPayment(p),
         payment'[p] = payment[p], refunds'[p] = refunds[p], ledger'[p] = ledger[p]
  PROVE  GoodPayment(p)'
  BY DEF GoodPayment, RowMatchesStatus, RefundsMatch, Audited, Collected,
         CapturedOrAmount, SettledAmount

LEMMA InitGood == Init => \A p \in Payments : GoodPayment(p)
  <1> SUFFICES ASSUME Init, NEW p \in Payments PROVE GoodPayment(p)
    OBVIOUS
  <1>1. PICK st \in {"absent", "captured"}, a \in 0..MaxInt :
          payment[p] = NewRow(st, a) /\ (a = 0 <=> st = "absent")
    BY AmountsAssumption DEF Init, LegacyRow, NoPayment
  <1>2. refunds[p] = NoRefunds
    BY DEF Init
  <1>3. /\ payment[p].status = st
        /\ payment[p].amount = a
        /\ payment[p].captured_amount = 0
        /\ payment[p].settlement_id = NoSettlement
    BY <1>1 DEF NewRow
  <1>4. Collected(p) = a
    BY <1>1, <1>3 DEF Collected, CapturedOrAmount, CapturedStatus
  <1>5. ledger[p] = Booked(NoEntries, "customer_holding", "merchant_wallet", a)
    BY <1>3 DEF Init
  <1>6. RowMatchesStatus(p)
    BY <1>1, <1>3 DEF RowMatchesStatus, NoPayment, CapturedStatus
  <1>7. RefundsMatch(p)
    BY <1>2, <1>3, <1>4 DEF RefundsMatch, NoRefunds
  <1>8. Audited(p)
    BY <1>2, <1>3, <1>4, <1>5 DEF Audited, NoRefunds, SettledAmount,
       Booked, NoEntries, Accounts
  <1> QED
    BY <1>6, <1>7, <1>8 DEF GoodPayment

\* The writes of a refund and of a batch keep the types, whatever was read.
LEMMA WriteRefundType ==
  ASSUME TypeOK, NEW p \in Payments, NEW amt \in Nat, NEW target \in PaymentStatus,
         NEW seen, WriteRefund(p, amt, target, seen)
  PROVE  TypeOK'
  <1>1. payment' \in [Payments -> PaymentRow]
    <2>1. [payment[p] EXCEPT !.status = target] \in PaymentRow
      BY DEF TypeOK, PaymentRow
    <2> QED
      BY <2>1 DEF TypeOK, WriteRefund
  <1>2. refunds' \in [Payments -> RefundRows]
    BY DEF WriteRefund, TypeOK, RefundRows
  <1>3. ledger' \in [Payments -> LedgerRows]
    <2>1. Booked(ledger[p], "merchant_wallet", "customer_holding", amt) \in LedgerRows
      BY BookedType DEF TypeOK, Accounts
    <2> QED
      BY <2>1 DEF WriteRefund, RecordRefund, TypeOK
  <1>4. wallet' \in [Merchants -> WalletRow]
    BY PaymentsAssumption DEF WriteRefund, RecordRefund, SetWallet, TypeOK, WalletRow
  <1> QED
    BY <1>1, <1>2, <1>3, <1>4 DEF TypeOK, WriteRefund

LEMMA WriteBatchType ==
  ASSUME TypeOK, NEW s \in Settlements, NEW batch \in SUBSET Payments,
         WriteBatch(s, batch)
  PROVE  TypeOK'
  <1>1. payment' \in [Payments -> PaymentRow]
    <2>1. "settled" \in PaymentStatus
      BY DEF PaymentStatus
    <2>2. \A q \in Payments :
            [payment[q] EXCEPT !.status = "settled", !.settlement_id = s] \in PaymentRow
      <3> SUFFICES ASSUME NEW row \in PaymentRow
                   PROVE  [row EXCEPT !.status = "settled", !.settlement_id = s] \in PaymentRow
        BY DEF TypeOK
      <3> QED
        BY <2>1 DEF PaymentRow
    <2> QED
      BY <2>2 DEF TypeOK, WriteBatch
  <1>2. ledger' \in [Payments -> LedgerRows]
    <2>1. \A q \in Payments : payment[q].amount \in Nat
      BY AmountsAssumption DEF TypeOK, PaymentRow
    <2>2. \A q \in Payments :
            Booked(ledger[q], "merchant_wallet", "bank_settlement", payment[q].amount)
              \in LedgerRows
      BY <2>1, BookedType DEF TypeOK, Accounts
    <2> QED
      BY <2>2 DEF TypeOK, WriteBatch
  <1>3. settlement' \in [Settlements -> SettlementRow]
    <2>1. Cardinality(batch) \in Nat
      BY BatchSize
    <2>2. \E total \in IntColumn : settlement' = [settlement EXCEPT ![s] =
            [amount |-> total, payment_count |-> Cardinality(batch)]]
      BY DEF WriteBatch
    <2> QED
      BY <2>1, <2>2 DEF TypeOK, SettlementRow
  <1> QED
    BY <1>1, <1>2, <1>3 DEF TypeOK, WriteBatch

\* What the invariant gives a step, and what a step has to show.
LEMMA InvByPayment ==
  /\ IInv <=> TypeOK /\ \A p \in Payments : GoodPayment(p)
  /\ IInv' <=> TypeOK' /\ \A p \in Payments : GoodPayment(p)'
  BY DEF IInv, GoodPayment, RowsMatchStatus, RefundsMatchStatus, AuditTrail
-----------------------------------------------------------------------------
LEMMA CreateStep ==
  ASSUME IInv, NEW p \in Payments, NEW amt \in Amounts, CreatePayment(p, amt)
  PROVE  IInv'
  <1>1. amt \in 1..MaxInt
    BY AmountsAssumption
  <1>2. TypeOK
    BY DEF IInv
  <1>3. TypeOK'
    <2>1. NewRow("created", amt) \in PaymentRow
      BY <1>1 DEF NewRow, PaymentRow, PaymentStatus
    <2> QED
      BY <1>2, <2>1 DEF CreatePayment, TypeOK
  <1>4. ASSUME NEW q \in Payments PROVE GoodPayment(q)'
    <2>1. GoodPayment(q)
      BY InvByPayment
    <2>2. CASE q # p
      BY <2>1, <2>2, <1>2, Frame DEF CreatePayment, TypeOK
    <2>3. CASE q = p
      <3>1. payment'[p] = NewRow("created", amt)
        BY <1>2 DEF CreatePayment, TypeOK
      <3>2. payment[p].status = "absent" /\ refunds'[p] = refunds[p] /\ ledger'[p] = ledger[p]
        BY DEF CreatePayment
      <3>3. payment[p] = NoPayment
        BY <2>1, <2>3, <3>2 DEF GoodPayment, RowMatchesStatus
      <3>4. RowMatchesStatus(p)'
        BY <1>1, <3>1 DEF RowMatchesStatus, NewRow, CapturedStatus
      <3>5. RefundsMatch(p)'
        BY <2>1, <2>3, <3>1, <3>2, <3>3 DEF GoodPayment, RefundsMatch, Collected, NewRow, CapturedStatus
      <3>6. Audited(p)'
        BY <2>1, <2>3, <3>1, <3>2, <3>3 DEF GoodPayment, Audited, Collected,
           SettledAmount, NewRow, NoPayment, CapturedStatus
      <3> QED
        BY <2>3, <3>4, <3>5, <3>6 DEF GoodPayment
    <2> QED
      BY <2>2, <2>3
  <1> QED
    BY <1>3, <1>4, InvByPayment

LEMMA AuthorizeStep ==
  ASSUME IInv, NEW p \in Payments, NEW outcome \in BankOutcomes,
         AuthorizePayment(p, outcome)
  PROVE  IInv'
  <1>1. TypeOK
    BY DEF IInv
  <1>2. CASE UNCHANGED payment
    BY <1>2 DEF AuthorizePayment, IInv, TypeOK, RowsMatchStatus, RefundsMatchStatus,
       AuditTrail, RowMatchesStatus, RefundsMatch, Audited, Collected,
       CapturedOrAmount, SettledAmount
  <1>3. CASE /\ CanTransition(payment[p].status, outcome)
             /\ payment' = [payment EXCEPT ![p].status = outcome]
    <2>1. /\ outcome \in {"authorized", "failed"}
          /\ payment[p].status \in {"created", "authorized"}
      BY <1>3 DEF CanTransition, TRANSITIONS, BankOutcomes
    <2>2. TypeOK'
      BY <1>1, <1>3, <2>1 DEF AuthorizePayment, TypeOK, PaymentRow, PaymentStatus
    <2>3. ASSUME NEW q \in Payments PROVE GoodPayment(q)'
      <3>1. GoodPayment(q)
        BY InvByPayment
      <3>2. CASE q # p
        BY <3>1, <3>2, <1>1, <1>3, Frame DEF AuthorizePayment, TypeOK
      <3>3. CASE q = p
        <4>1. /\ payment'[p].status = outcome
              /\ payment'[p].amount = payment[p].amount
              /\ payment'[p].captured_amount = payment[p].captured_amount
              /\ payment'[p].settlement_id = payment[p].settlement_id
              /\ refunds'[p] = refunds[p]
              /\ ledger'[p] = ledger[p]
          BY <1>1, <1>3 DEF AuthorizePayment, TypeOK, PaymentRow
        <4>2. Collected(p) = 0 /\ Collected(p)' = 0
          BY <2>1, <4>1 DEF Collected, CapturedStatus
        <4>3. RowMatchesStatus(p)'
          BY <2>1, <3>1, <3>3, <4>1
             DEF GoodPayment, RowMatchesStatus, CapturedStatus, PaymentStatus
        <4>4. RefundsMatch(p)'
          BY <2>1, <3>1, <3>3, <4>1, <4>2 DEF GoodPayment, RefundsMatch
        <4>5. Audited(p)'
          BY <3>1, <3>3, <4>1, <4>2 DEF GoodPayment, Audited, SettledAmount
        <4> QED
          BY <3>3, <4>3, <4>4, <4>5 DEF GoodPayment
      <3> QED
        BY <3>2, <3>3
    <2> QED
      BY <2>2, <2>3, InvByPayment
  <1> QED
    BY <1>2, <1>3 DEF AuthorizePayment

LEMMA CaptureStep ==
  ASSUME IInv, NEW p \in Payments, NEW requested \in Amounts \cup {0},
         CapturePayment(p, requested)
  PROVE  IInv'
  <1> DEFINE amt == CaptureAmount(p, requested)
  <1>1. TypeOK
    BY DEF IInv
  <1>2. /\ payment[p].status = "authorized"
        /\ payment[p] \in PaymentRow
        /\ GoodPayment(p)
    BY <1>1, InvByPayment
       DEF CapturePayment, CaptureAccepted, CanTransition, TRANSITIONS, TypeOK
  <1>3. amt \in 1..MaxInt /\ amt <= payment[p].amount
    BY <1>2, AmountsAssumption DEF CapturePayment, CaptureAccepted, CaptureAmount,
       PaymentRow, GoodPayment, RowMatchesStatus
  <1> HIDE DEF amt
  <1>4. /\ payment' = [payment EXCEPT ![p].status = "captured", ![p].captured_amount = amt]
        /\ refunds' = refunds
        /\ ledger' = [ledger EXCEPT ![p] =
             Booked(ledger[p], "customer_holding", "merchant_wallet", amt)]
        /\ settlement' = settlement
    BY DEF CapturePayment, RecordCapture, amt
  <1>5. TypeOK'
    <2>1. payment' \in [Payments -> PaymentRow]
      <3>1. [payment[p] EXCEPT !.status = "captured", !.captured_amount = amt] \in PaymentRow
        <4>1. "captured" \in PaymentStatus
          BY DEF PaymentStatus
        <4>2. amt \in 0..MaxInt
          BY <1>3, AmountsAssumption
        <4> QED
          BY <1>2, <4>1, <4>2 DEF PaymentRow
      <3> QED
        BY <1>1, <1>4, <3>1 DEF TypeOK
    <2>2. ledger' \in [Payments -> LedgerRows]
      <3>1. Booked(ledger[p], "customer_holding", "merchant_wallet", amt) \in LedgerRows
        BY <1>1, <1>3, BookedType DEF TypeOK, Accounts
      <3> QED
        BY <1>1, <1>4, <3>1 DEF TypeOK
    <2>3. wallet' \in [Merchants -> WalletRow]
      BY <1>1, PaymentsAssumption
         DEF CapturePayment, RecordCapture, SetWallet, TypeOK, WalletRow
    <2> QED
      BY <1>1, <1>4, <2>1, <2>2, <2>3 DEF TypeOK
  <1>6. ASSUME NEW q \in Payments PROVE GoodPayment(q)'
    <2>1. CASE q # p
      <3>1. GoodPayment(q)
        BY InvByPayment
      <3> QED
        BY <2>1, <3>1, <1>1, <1>4, Frame DEF TypeOK
    <2>2. CASE q = p
      <3>1. /\ payment'[p].status = "captured"
            /\ payment'[p].amount = payment[p].amount
            /\ payment'[p].captured_amount = amt
            /\ payment'[p].settlement_id = payment[p].settlement_id
            /\ refunds'[p] = refunds[p]
            /\ ledger'[p] = Booked(ledger[p], "customer_holding", "merchant_wallet", amt)
        BY <1>1, <1>4 DEF TypeOK, PaymentRow
      <3>2. Collected(p) = 0 /\ Collected(p)' = amt
        BY <1>2, <1>3, <3>1 DEF Collected, CapturedOrAmount, CapturedStatus
      <3>3. payment[p].settlement_id = NoSettlement
        BY <1>2 DEF GoodPayment, RowMatchesStatus, PaymentStatus
      <3>4. RowMatchesStatus(p)'
        BY <1>2, <1>3, <3>1, <3>3 DEF GoodPayment, RowMatchesStatus, CapturedStatus, PaymentRow
      <3>5. refunds[p].total = 0 /\ refunds[p].count = 0
        BY <1>1, <1>2, <3>2 DEF GoodPayment, RefundsMatch, TypeOK, RefundRows
      <3>6. RefundsMatch(p)'
        BY <1>3, <3>1, <3>2, <3>5 DEF RefundsMatch
      <3>7. Audited(p)'
        BY <1>1, <1>2, <1>3, <3>1, <3>2, <3>3, <3>5 DEF GoodPayment, Audited,
           SettledAmount, Booked, TypeOK, LedgerRows, Accounts
      <3> QED
        BY <2>2, <3>4, <3>6, <3>7 DEF GoodPayment
    <2> QED
      BY <2>1, <2>2
  <1> QED
    BY <1>5, <1>6, InvByPayment

LEMMA RefundStep ==
  ASSUME IInv, NEW p \in Payments, NEW amt \in Amounts, RefundPayment(p, amt)
  PROVE  IInv'
  <1> DEFINE target == RefundTarget(p, amt)
  <1>1. TypeOK
    BY DEF IInv
  <1>2. /\ payment[p] \in PaymentRow
        /\ refunds[p] \in RefundRows
        /\ GoodPayment(p)
    BY <1>1, InvByPayment DEF TypeOK
  <1>3. /\ payment[p].status \in {"captured", "settled", "partially_refunded"}
        /\ target \in {"refunded", "partially_refunded"}
        /\ payment[p].status = "partially_refunded" => target = "refunded"
        /\ target = "refunded" <=> amt = Remaining(p)
    BY DEF RefundPayment, RefundAccepted, RefundTarget, CanTransition, TRANSITIONS
  <1> HIDE DEF target
  <1>4. /\ payment' = [payment EXCEPT ![p].status = target]
        /\ refunds' = [refunds EXCEPT ![p] = [count |-> refunds[p].count + 1,
                                             total |-> refunds[p].total + amt]]
        /\ ledger' = [ledger EXCEPT ![p] =
             Booked(ledger[p], "merchant_wallet", "customer_holding", amt)]
        /\ settlement' = settlement
    BY DEF RefundPayment, WriteRefund, RecordRefund, target
  <1>5. /\ Collected(p) = CapturedOrAmount(payment[p])
        /\ Collected(p) \in Nat
    BY <1>2, <1>3, AmountsAssumption DEF Collected, CapturedStatus, CapturedOrAmount, PaymentRow
  <1>6. amt \in 1..MaxInt /\ amt <= Collected(p) - refunds[p].total
    BY <1>5, AmountsAssumption DEF RefundPayment, RefundAccepted, Remaining
  <1>7. TypeOK'
    <2>1. target \in PaymentStatus /\ amt \in Nat
      BY <1>3, <1>6 DEF PaymentStatus
    <2> QED
      BY <1>1, <2>1, WriteRefundType DEF RefundPayment, target
  <1>8. ASSUME NEW q \in Payments PROVE GoodPayment(q)'
    <2>1. CASE q # p
      <3>1. GoodPayment(q)
        BY InvByPayment
      <3> QED
        BY <2>1, <3>1, <1>1, <1>4, Frame DEF TypeOK
    <2>2. CASE q = p
      <3>1. /\ payment'[p].status = target
            /\ payment'[p].amount = payment[p].amount
            /\ payment'[p].captured_amount = payment[p].captured_amount
            /\ payment'[p].settlement_id = payment[p].settlement_id
            /\ refunds'[p].count = refunds[p].count + 1
            /\ refunds'[p].total = refunds[p].total + amt
            /\ ledger'[p] = Booked(ledger[p], "merchant_wallet", "customer_holding", amt)
        BY <1>1, <1>4 DEF TypeOK, PaymentRow
      <3>2. Collected(p)' = Collected(p)
        BY <1>3, <1>5, <3>1 DEF Collected, CapturedStatus, CapturedOrAmount
      <3>3. RowMatchesStatus(p)'
        BY <1>2, <1>3, <3>1 DEF GoodPayment, RowMatchesStatus, CapturedStatus, PaymentRow
      <3>4. target = "refunded" <=> refunds'[p].total = Collected(p)
        BY <1>2, <1>3, <1>5, <1>6, <3>1 DEF Remaining, RefundRows
      <3>5. /\ payment[p].status = "partially_refunded" => refunds[p].count = 1
            /\ payment[p].status # "partially_refunded" => refunds[p].count = 0
        BY <1>2, <1>3, <1>5, <1>6 DEF GoodPayment, RefundsMatch, RefundRows
      <3>6. RefundsMatch(p)'
        BY <1>2, <1>3, <1>5, <1>6, <3>1, <3>2, <3>4, <3>5 DEF RefundsMatch, RefundRows
      <3>7. Audited(p)'
        <4>1. SettledAmount(p)' = SettledAmount(p)
          BY <3>1 DEF SettledAmount
        <4>2. SettledAmount(p) \in Nat
          BY <1>2, AmountsAssumption DEF SettledAmount, PaymentRow
        <4> QED
          BY <1>1, <1>2, <1>5, <1>6, <3>1, <3>2, <4>1, <4>2 DEF GoodPayment, Audited,
             Booked, TypeOK, LedgerRows, RefundRows, Accounts
      <3> QED
        BY <2>2, <3>3, <3>6, <3>7 DEF GoodPayment
    <2> QED
      BY <2>1, <2>2
  <1> QED
    BY <1>7, <1>8, InvByPayment

\* A batch of payments that are captured and in no settlement keeps the
\* invariant, whatever the ids; the other payments are left alone.
LEMMA BatchStep ==
  ASSUME IInv, NEW m \in Merchants, NEW s \in Settlements, CreateSettlementBatch(m, s)
  PROVE  IInv'
  <1> DEFINE batch == UnsettledPayments(m)
  <1>1. TypeOK
    BY DEF IInv
  <1>2. batch \in SUBSET Payments
    BY DEF UnsettledPayments, PaymentsOf
  <1>3. \A q \in batch : payment[q].status = "captured" /\ payment[q].settlement_id = NoSettlement
    BY DEF UnsettledPayments
  <1> HIDE DEF batch
  <1>5. /\ payment' = [q \in Payments |->
             IF q \in batch
               THEN [payment[q] EXCEPT !.status = "settled", !.settlement_id = s]
               ELSE payment[q]]
        /\ ledger' = [q \in Payments |->
             IF q \in batch
               THEN Booked(ledger[q], "merchant_wallet", "bank_settlement", payment[q].amount)
               ELSE ledger[q]]
        /\ refunds' = refunds
        /\ wallet' = wallet
    BY DEF CreateSettlementBatch, WriteBatch, batch
  <1>7. TypeOK'
    BY <1>1, <1>2, WriteBatchType DEF CreateSettlementBatch, batch
  <1>8. ASSUME NEW q \in Payments PROVE GoodPayment(q)'
    <2>1. GoodPayment(q) /\ payment[q] \in PaymentRow /\ refunds[q] \in RefundRows
      BY <1>1, InvByPayment DEF TypeOK
    <2>2. CASE q \notin batch
      BY <2>1, <2>2, <1>5, Frame
    <2>3. CASE q \in batch
      <3>1. /\ payment'[q].status = "settled"
            /\ payment'[q].amount = payment[q].amount
            /\ payment'[q].captured_amount = payment[q].captured_amount
            /\ payment'[q].settlement_id = s
            /\ refunds'[q] = refunds[q]
            /\ ledger'[q] = Booked(ledger[q], "merchant_wallet", "bank_settlement",
                                   payment[q].amount)
        BY <2>1, <2>3, <1>5 DEF PaymentRow
      <3>2. payment[q].status = "captured" /\ payment[q].settlement_id = NoSettlement
        BY <1>3, <2>3
      <3>3. Collected(q)' = Collected(q)
        BY <3>1, <3>2 DEF Collected, CapturedStatus, CapturedOrAmount
      <3>4. Collected(q) \in Nat
        BY <2>1, AmountsAssumption DEF Collected, CapturedOrAmount, PaymentRow
      <3>5. RowMatchesStatus(q)'
        BY <2>1, <3>1, <3>2, SettlementsAssumption
           DEF GoodPayment, RowMatchesStatus, CapturedStatus, PaymentStatus
      <3>6. RefundsMatch(q)'
        BY <2>1, <3>1, <3>2, <3>3, <3>4 DEF GoodPayment, RefundsMatch, RefundRows
      <3>7. Audited(q)'
        <4>1. SettledAmount(q) = 0 /\ SettledAmount(q)' = payment[q].amount
          BY <3>1, <3>2, SettlementsAssumption DEF SettledAmount
        <4>2. payment[q].amount \in Nat
          BY <2>1, AmountsAssumption DEF PaymentRow
        <4> QED
          BY <1>1, <2>1, <3>1, <3>3, <3>4, <4>1, <4>2 DEF GoodPayment, Audited,
             Booked, TypeOK, LedgerRows, RefundRows, Accounts
      <3> QED
        BY <3>5, <3>6, <3>7 DEF GoodPayment
    <2> QED
      BY <2>2, <2>3
  <1> QED
    BY <1>7, <1>8, InvByPayment
-----------------------------------------------------------------------------
LEMMA NextStep == IInv /\ [Next]_tables => IInv'
  <1> SUFFICES ASSUME IInv, [Next]_tables PROVE IInv'
    OBVIOUS
  <1>1. CASE UNCHANGED tables
    BY <1>1 DEF tables, IInv, TypeOK, RowsMatchStatus, RefundsMatchStatus, AuditTrail,
       RowMatchesStatus, RefundsMatch, Audited, Collected, CapturedOrAmount, SettledAmount
  <1>2. CASE Next
    BY <1>2, CreateStep, AuthorizeStep, CaptureStep, RefundStep, BatchStep DEF Next
  <1> QED
    BY <1>1, <1>2

\* Every reachable state of the service layer satisfies the inductive invariant.
THEOREM Invariance == Spec => []IInv
  <1>1. Init => IInv
    BY InitTypeOK, InitGood, InvByPayment
  <1> QED
    BY <1>1, NextStep, PTL DEF Spec

\* Every row keeps the shape and the width of its columns: no sequence of
\* operations leaves the range of an INTEGER column.
THEOREM TypeCorrect == Spec => []TypeOK
  BY Invariance, PTL DEF IInv

\* The ledger tells the whole story of every payment (record_capture,
\* record_refund, create_settlement_batch).
THEOREM LedgerIsAuditTrail == Spec => []AuditTrail
  BY Invariance, PTL DEF IInv

\* The columns of a payment row agree with its status.
THEOREM RowsAgreeWithStatus == Spec => []RowsMatchStatus
  BY Invariance, PTL DEF IInv

\* Debits equal credits for every payment.
THEOREM LedgerBalanced == Spec => []Balanced
  <1>1. IInv => Balanced
    <2> SUFFICES ASSUME IInv, NEW p \in Payments
                 PROVE  LET d == ledger[p].debit  c == ledger[p].credit
                        IN  d["customer_holding"] + d["merchant_wallet"] + d["bank_settlement"]
                              = c["customer_holding"] + c["merchant_wallet"]
                                  + c["bank_settlement"]
      BY DEF Balanced
    <2>1. Audited(p) /\ payment[p] \in PaymentRow /\ refunds[p] \in RefundRows
      BY DEF IInv, AuditTrail, TypeOK
    <2>2. Collected(p) \in Nat /\ SettledAmount(p) \in Nat /\ refunds[p].total \in Nat
      BY <2>1, AmountsAssumption
         DEF Collected, CapturedOrAmount, SettledAmount, PaymentRow, RefundRows
    <2> QED
      BY <2>1, <2>2 DEF Audited
  <1> QED
    BY <1>1, Invariance, PTL

\* Refunds stay within what was collected and the status tells how much came
\* back (refund_payment).
THEOREM RefundsBounded == Spec => []RefundsMatchStatus
  BY Invariance, PTL DEF IInv

\* Whatever happened to it, a collected payment can be given back in full
\* (refund_payment on the remainder).
THEOREM CanAlwaysRefund == Spec => []AlwaysRefundable
  <1>1. IInv => AlwaysRefundable
    <2> SUFFICES ASSUME IInv, NEW p \in Payments,
                        payment[p].status \in CapturedStatus \ {"refunded"}
                 PROVE  Remaining(p) > 0 /\ RefundAccepted(p, Remaining(p))
      BY DEF AlwaysRefundable
    <2>1. GoodPayment(p) /\ payment[p] \in PaymentRow /\ refunds[p] \in RefundRows
      BY InvByPayment DEF IInv, TypeOK
    <2>2. Collected(p) = CapturedOrAmount(payment[p]) /\ Collected(p) \in Nat
      BY <2>1, AmountsAssumption DEF Collected, CapturedOrAmount, PaymentRow
    <2>3. Collected(p) > 0
      BY <2>1, <2>2, AmountsAssumption
         DEF GoodPayment, RowMatchesStatus, CapturedStatus, CapturedOrAmount, PaymentRow
    <2>4. Remaining(p) \in Nat \ {0}
      BY <2>1, <2>2, <2>3 DEF GoodPayment, RefundsMatch, Remaining, RefundRows
    <2> QED
      BY <2>4 DEF RefundAccepted, RefundTarget, CanTransition, TRANSITIONS, CapturedStatus
  <1> QED
    BY <1>1, Invariance, PTL
-----------------------------------------------------------------------------
\* What p brought in and did not give back.
Net(p) == Collected(p) - refunds[p].total

LEMMA NetType ==
  /\ IInv => \A p \in Payments : Net(p) \in Nat
  /\ IInv' => \A p \in Payments : Net(p)' \in Nat
  <1>1. IInv => \A p \in Payments : Net(p) \in Nat
    <2> SUFFICES ASSUME IInv, NEW p \in Payments PROVE Net(p) \in Nat
      OBVIOUS
    <2>1. GoodPayment(p) /\ payment[p] \in PaymentRow /\ refunds[p] \in RefundRows
      BY InvByPayment DEF IInv, TypeOK
    <2>2. Collected(p) \in Nat
      BY <2>1, AmountsAssumption DEF Collected, CapturedOrAmount, PaymentRow
    <2> QED
      BY <2>1, <2>2 DEF GoodPayment, RefundsMatch, RefundRows, Net
  <1>2. (IInv => \A p \in Payments : Net(p) \in Nat)'
    BY <1>1, PTL
  <1> QED
    BY <1>1, <1>2

\* A step that changes what one payment brought in by d changes the funds of
\* its merchant by d, and nobody else's.
LEMMA FundsChange ==
  ASSUME \A q \in Payments : Net(q) \in Nat /\ Net(q)' \in Nat,
         NEW p \in Payments, NEW d \in Int, Net(p)' = Net(p) + d,
         \A q \in Payments \ {p} : Net(q)' = Net(q),
         NEW m \in Merchants
  PROVE  NetFunds(m)' = NetFunds(m) + IF m = Owner[p] THEN d ELSE 0
  <1> DEFINE f == [q \in Payments |-> Net(q)]
             g == [q \in Payments |-> Net(q)']
             S == PaymentsOf(m)
  <1>1. NetFunds(m) = SumFunctionOnSet(f, S)
    BY DEF NetFunds, Net
  <1>2. NetFunds(m)' = SumFunctionOnSet(g, S)
    BY DEF NetFunds, Net, PaymentsOf
  <1>3. IsFiniteSet(S) /\ S \subseteq Payments
    BY FS_Subset DEF PaymentsOf
  <1>4. \A q \in S : f[q] \in Nat /\ g[q] \in Nat
    BY <1>3
  <1>5. SumFunctionOnSet(f, S) \in Nat
    BY <1>3, <1>4, SumType
  <1>6. CASE m = Owner[p]
    <2>1. p \in S
      BY <1>6 DEF PaymentsOf
    <2>2. \A q \in S \ {p} : g[q] = f[q]
      BY <1>3
    <2>3. SumFunctionOnSet(g, S) = SumFunctionOnSet(f, S) + g[p] - f[p]
      BY <1>3, <1>4, <2>1, <2>2, SumUpdate
    <2>4. g[p] = f[p] + d /\ f[p] \in Nat
      OBVIOUS
    <2> QED
      BY <1>1, <1>2, <1>5, <1>6, <2>3, <2>4
  <1>7. CASE m # Owner[p]
    <2>1. \A q \in S : f[q] \in Nat /\ g[q] = f[q]
      BY <1>3, <1>4, <1>7 DEF PaymentsOf
    <2>2. SumFunctionOnSet(g, S) = SumFunctionOnSet(f, S)
      BY <1>3, <2>1, SumSame
    <2> QED
      BY <1>1, <1>2, <1>5, <1>7, <2>2
  <1> QED
    BY <1>6, <1>7

\* A step after which every payment has brought in what it had before.
LEMMA FundsFrame ==
  ASSUME \A q \in Payments : Net(q) \in Nat /\ Net(q)' = Net(q), NEW m \in Merchants
  PROVE  NetFunds(m)' = NetFunds(m)
  <1> DEFINE f == [q \in Payments |-> Net(q)]
             g == [q \in Payments |-> Net(q)']
  <1>1. f = g
    OBVIOUS
  <1>2. NetFunds(m) = SumFunctionOnSet(f, PaymentsOf(m))
    BY DEF NetFunds, Net
  <1>3. NetFunds(m)' = SumFunctionOnSet(g, PaymentsOf(m))
    BY DEF NetFunds, Net, PaymentsOf
  <1> QED
    BY <1>1, <1>2, <1>3

\* The wallet of p's merchant is written as its balance plus d, d being what p
\* brought in by the step.
LEMMA WalletFollows ==
  ASSUME TypeOK, \A q \in Payments : Net(q) \in Nat /\ Net(q)' \in Nat,
         WalletIsNetFunds, NEW p \in Payments, NEW d \in Int,
         SetWallet(p, wallet[Owner[p]].balance + d),
         Net(p)' = Net(p) + d, \A q \in Payments \ {p} : Net(q)' = Net(q)
  PROVE  WalletIsNetFunds'
  <1> SUFFICES ASSUME NEW m \in Merchants PROVE wallet'[m].balance = NetFunds(m)'
    BY DEF WalletIsNetFunds
  <1>1. NetFunds(m)' = NetFunds(m) + IF m = Owner[p] THEN d ELSE 0
    BY FundsChange
  <1>2. wallet[m] \in WalletRow /\ wallet[m].balance = NetFunds(m)
    BY DEF TypeOK, WalletIsNetFunds
  <1>3. wallet'[m].balance = wallet[m].balance + IF m = Owner[p] THEN d ELSE 0
    BY <1>2 DEF SetWallet, TypeOK, WalletRow, IntColumn
  <1> QED
    BY <1>1, <1>2, <1>3

\* A step that moves no money and writes no wallet.
LEMMA WalletFrame ==
  ASSUME WalletIsNetFunds, wallet' = wallet,
         \A q \in Payments : Net(q) \in Nat /\ Net(q)' = Net(q)
  PROVE  WalletIsNetFunds'
  <1> SUFFICES ASSUME NEW m \in Merchants PROVE wallet'[m].balance = NetFunds(m)'
    BY DEF WalletIsNetFunds
  <1>1. NetFunds(m)' = NetFunds(m)
    BY FundsFrame
  <1> QED
    BY <1>1 DEF WalletIsNetFunds

\* Only a capture and a refund move the money of a payment, and both write the
\* wallet.
LEMMA WalletStep ==
  ASSUME IInv, IInv', WalletIsNetFunds, [Next]_tables
  PROVE  WalletIsNetFunds'
  <1>1. /\ \A q \in Payments : GoodPayment(q) /\ payment[q] \in PaymentRow /\ refunds[q] \in RefundRows
        /\ TypeOK
    BY InvByPayment DEF IInv, TypeOK
  <1>2. \A q \in Payments : Net(q) \in Nat /\ Net(q)' \in Nat
    BY NetType
  <1>3. CASE UNCHANGED tables
    <2>1. ASSUME NEW q \in Payments PROVE Net(q)' = Net(q)
      BY <1>3 DEF tables, Net, Collected, CapturedOrAmount
    <2> QED
      BY <1>2, <1>3, <2>1, WalletFrame DEF tables
  <1>4. ASSUME NEW p \in Payments, NEW amt \in Amounts, CreatePayment(p, amt)
        PROVE  WalletIsNetFunds'
    <2>1. ASSUME NEW q \in Payments PROVE Net(q)' = Net(q)
      BY <1>1, <1>4 DEF CreatePayment, TypeOK, NewRow, Net, Collected, CapturedOrAmount,
         CapturedStatus
    <2> QED
      BY <1>2, <1>4, <2>1, WalletFrame DEF CreatePayment
  <1>5. ASSUME NEW p \in Payments, NEW outcome \in BankOutcomes, AuthorizePayment(p, outcome)
        PROVE  WalletIsNetFunds'
    <2>1. ASSUME NEW q \in Payments PROVE Net(q)' = Net(q)
      <3>1. CASE UNCHANGED payment
        BY <1>5, <3>1 DEF AuthorizePayment, Net, Collected, CapturedOrAmount
      <3>2. CASE /\ CanTransition(payment[p].status, outcome)
                 /\ payment' = [payment EXCEPT ![p].status = outcome]
        <4>1. /\ outcome \in {"authorized", "failed"}
              /\ payment[p].status \in {"created", "authorized"}
          BY <3>2 DEF CanTransition, TRANSITIONS, BankOutcomes
        <4>2. /\ q # p => payment'[q] = payment[q]
              /\ payment'[p].status = outcome
          BY <1>1, <3>2 DEF TypeOK, PaymentRow
        <4> QED
          BY <1>5, <4>1, <4>2 DEF AuthorizePayment, Net, Collected, CapturedOrAmount,
             CapturedStatus
      <3> QED
        BY <1>5, <3>1, <3>2 DEF AuthorizePayment
    <2> QED
      BY <1>2, <1>5, <2>1, WalletFrame DEF AuthorizePayment
  <1>6. ASSUME NEW p \in Payments, NEW requested \in Amounts \cup {0},
               CapturePayment(p, requested)
        PROVE  WalletIsNetFunds'
    <2> DEFINE amt == CaptureAmount(p, requested)
    <2>1. /\ payment[p].status = "authorized"
          /\ amt \in 1..MaxInt
      BY <1>1, <1>6, AmountsAssumption
         DEF CapturePayment, CaptureAccepted, CanTransition, TRANSITIONS, CaptureAmount,
             PaymentRow, GoodPayment, RowMatchesStatus
    <2>2. /\ payment' = [payment EXCEPT ![p].status = "captured", ![p].captured_amount = amt]
          /\ refunds' = refunds
          /\ SetWallet(p, wallet[Owner[p]].balance + amt)
      BY <1>6 DEF CapturePayment, RecordCapture
    <2> HIDE DEF amt
    <2>3. /\ payment'[p].status = "captured" /\ payment'[p].captured_amount = amt
          /\ \A q \in Payments \ {p} : payment'[q] = payment[q]
      BY <1>1, <2>2 DEF TypeOK, PaymentRow
    <2>4. Net(p)' = Net(p) + amt
      <3>1. Collected(p) = 0 /\ Collected(p)' = amt
        BY <2>1, <2>3 DEF Collected, CapturedOrAmount, CapturedStatus
      <3> QED
        BY <1>1, <2>1, <2>2, <3>1 DEF Net, RefundRows
    <2>5. ASSUME NEW q \in Payments \ {p} PROVE Net(q)' = Net(q)
      <3>1. payment'[q] = payment[q] /\ refunds'[q] = refunds[q]
        BY <2>2, <2>3
      <3> QED
        BY <3>1 DEF Net, Collected, CapturedOrAmount
    <2> QED
      BY <1>1, <1>2, <2>1, <2>2, <2>4, <2>5, WalletFollows
  <1>7. ASSUME NEW p \in Payments, NEW amt \in Amounts, RefundPayment(p, amt)
        PROVE  WalletIsNetFunds'
    <2> DEFINE target == RefundTarget(p, amt)
    <2>1. /\ amt \in 1..MaxInt
          /\ payment[p].status \in CapturedStatus
          /\ target \in CapturedStatus
      BY <1>7, AmountsAssumption
         DEF RefundPayment, RefundAccepted, RefundTarget, CanTransition, TRANSITIONS,
             CapturedStatus
    <2>2. /\ payment' = [payment EXCEPT ![p].status = target]
          /\ refunds' = [refunds EXCEPT ![p] = [count |-> refunds[p].count + 1,
                                               total |-> refunds[p].total + amt]]
          /\ SetWallet(p, wallet[Owner[p]].balance - amt)
      BY <1>7 DEF RefundPayment, WriteRefund, RecordRefund
    <2> HIDE DEF target
    <2>3. /\ payment'[p].status = target
          /\ payment'[p].amount = payment[p].amount
          /\ payment'[p].captured_amount = payment[p].captured_amount
          /\ refunds'[p].total = refunds[p].total + amt
          /\ \A q \in Payments \ {p} : payment'[q] = payment[q] /\ refunds'[q] = refunds[q]
      BY <1>1, <2>2 DEF TypeOK, PaymentRow
    <2>4. Net(p)' = Net(p) + (-amt)
      <3>1. Collected(p)' = Collected(p)
        BY <2>1, <2>3 DEF Collected, CapturedOrAmount
      <3>2. Collected(p) \in Nat /\ refunds[p].total \in Nat
        BY <1>1, AmountsAssumption DEF Collected, CapturedOrAmount, PaymentRow, RefundRows
      <3> QED
        BY <2>1, <2>3, <3>1, <3>2 DEF Net
    <2>5. \A q \in Payments \ {p} : Net(q)' = Net(q)
      BY <2>3 DEF Net, Collected, CapturedOrAmount
    <2>6. wallet[Owner[p]].balance - amt = wallet[Owner[p]].balance + (-amt)
      <3>1. wallet[Owner[p]] \in WalletRow
        BY <1>1, PaymentsAssumption DEF TypeOK
      <3> QED
        BY <2>1, <3>1 DEF WalletRow, IntColumn
    <2> QED
      BY <1>1, <1>2, <2>1, <2>2, <2>4, <2>5, <2>6, WalletFollows
  <1>8. ASSUME NEW m \in Merchants, NEW s \in Settlements, CreateSettlementBatch(m, s)
        PROVE  WalletIsNetFunds'
    <2>1. ASSUME NEW q \in Payments PROVE Net(q)' = Net(q)
      <3>1. refunds' = refunds
        BY <1>8 DEF CreateSettlementBatch, WriteBatch
      <3>2. CASE q \in UnsettledPayments(m)
        <4>1. /\ payment'[q].status = "settled" /\ payment[q].status = "captured"
              /\ payment'[q].amount = payment[q].amount
              /\ payment'[q].captured_amount = payment[q].captured_amount
          BY <1>1, <1>8, <3>2
             DEF CreateSettlementBatch, WriteBatch, UnsettledPayments, PaymentRow
        <4> QED
          BY <3>1, <4>1 DEF Net, Collected, CapturedOrAmount, CapturedStatus
      <3>3. CASE q \notin UnsettledPayments(m)
        BY <1>8, <3>1, <3>3
           DEF CreateSettlementBatch, WriteBatch, Net, Collected, CapturedOrAmount
      <3> QED
        BY <3>2, <3>3
    <2> QED
      BY <1>2, <1>8, <2>1, WalletFrame DEF CreateSettlementBatch, WriteBatch
  <1> QED
    BY <1>3, <1>4, <1>5, <1>6, <1>7, <1>8 DEF Next

\* The cached balance of a wallet is what the merchant's payments brought in and
\* did not give back, after any sequence of operations.
THEOREM WalletCorrect == Spec => []WalletIsNetFunds
  <1>1. Init => WalletIsNetFunds
    BY DEF Init, WalletIsNetFunds
  <1>2. IInv /\ IInv' /\ WalletIsNetFunds /\ [Next]_tables => WalletIsNetFunds'
    BY WalletStep
  <1> QED
    BY <1>1, <1>2, Invariance, PTL DEF Spec
-----------------------------------------------------------------------------
\* The payments that point to the settlement s.
PointTo(s) == {p \in Payments : payment[p].settlement_id = s}

\* The settlement s has the amount and the number of these payments.
AddsUp(s) == settlement[s] = [amount |-> BatchAmount(PointTo(s)),
                              payment_count |-> Cardinality(PointTo(s))]

LEMMA AddsUpSplit ==
  /\ SettlementAddsUp <=> \A s \in Settlements : AddsUp(s)
  /\ SettlementAddsUp' <=> \A s \in Settlements : AddsUp(s)'
  BY DEF SettlementAddsUp, AddsUp, PointTo, BatchAmount

\* A batch whose payments keep their amounts keeps its own.
LEMMA AmountFrame ==
  ASSUME TypeOK, NEW batch \in SUBSET Payments,
         \A q \in batch : payment'[q].amount = payment[q].amount
  PROVE  SumFunctionOnSet([p \in Payments |-> payment'[p].amount], batch) = BatchAmount(batch)
  <1> DEFINE f == [p \in Payments |-> payment[p].amount]
             g == [p \in Payments |-> payment'[p].amount]
  <1>1. IsFiniteSet(batch)
    BY FS_Subset
  <1>2. \A q \in batch : f[q] \in Nat /\ g[q] = f[q]
    BY AmountsAssumption DEF TypeOK, PaymentRow
  <1>3. SumFunctionOnSet(g, batch) = SumFunctionOnSet(f, batch)
    BY <1>1, <1>2, SumSame
  <1> QED
    BY <1>3 DEF BatchAmount

\* Nothing happens to a settlement as long as the same payments point to it and
\* keep their amounts.
LEMMA AddsUpFrame ==
  ASSUME TypeOK, NEW s \in Settlements, AddsUp(s), settlement'[s] = settlement[s],
         \A q \in Payments : payment'[q].settlement_id = s <=> payment[q].settlement_id = s,
         \A q \in PointTo(s) : payment'[q].amount = payment[q].amount
  PROVE  AddsUp(s)'
  <1>1. PointTo(s)' = PointTo(s) /\ PointTo(s) \in SUBSET Payments
    BY DEF PointTo
  <1>2. BatchAmount(PointTo(s))' = BatchAmount(PointTo(s))
    <2>1. BatchAmount(PointTo(s))' =
            SumFunctionOnSet([p \in Payments |-> payment'[p].amount], PointTo(s)')
      BY DEF BatchAmount
    <2>2. SumFunctionOnSet([p \in Payments |-> payment'[p].amount], PointTo(s)) =
            BatchAmount(PointTo(s))
      BY <1>1, AmountFrame
    <2> QED
      BY <1>1, <2>1, <2>2
  <1> QED
    BY <1>1, <1>2 DEF AddsUp

\* A payment that points to a settlement keeps doing so, with its amount; a
\* batch fills a settlement that nothing points to.
LEMMA AddsUpStep ==
  ASSUME IInv, SettlementAddsUp, [Next]_tables
  PROVE  SettlementAddsUp'
  <1> SUFFICES ASSUME NEW s \in Settlements PROVE AddsUp(s)'
    BY AddsUpSplit
  <1>1. /\ AddsUp(s) /\ TypeOK
        /\ \A q \in Payments : GoodPayment(q) /\ payment[q] \in PaymentRow
    BY AddsUpSplit, InvByPayment DEF IInv, TypeOK
  <1>2. CASE UNCHANGED tables
    BY <1>1, <1>2, AddsUpFrame DEF tables
  <1>3. ASSUME NEW p \in Payments, NEW amt \in Amounts, CreatePayment(p, amt)
        PROVE  AddsUp(s)'
    <2>1. /\ payment[p].settlement_id = NoSettlement /\ payment'[p].settlement_id = NoSettlement
          /\ \A q \in Payments \ {p} : payment'[q] = payment[q]
          /\ settlement' = settlement
      BY <1>1, <1>3 DEF CreatePayment, TypeOK, NewRow, NoPayment, GoodPayment, RowMatchesStatus
    <2>2. p \notin PointTo(s)
      BY <2>1 DEF PointTo
    <2> QED
      BY <1>1, <2>1, <2>2, AddsUpFrame DEF PointTo
  <1>4. ASSUME settlement' = settlement, NEW p \in Payments,
               \A q \in Payments \ {p} : payment'[q] = payment[q],
               payment'[p].amount = payment[p].amount,
               payment'[p].settlement_id = payment[p].settlement_id
        PROVE  AddsUp(s)'
    BY <1>1, <1>4, AddsUpFrame DEF PointTo
  <1>5. ASSUME NEW p \in Payments, NEW outcome \in BankOutcomes, AuthorizePayment(p, outcome)
        PROVE  AddsUp(s)'
    BY <1>1, <1>4, <1>5 DEF AuthorizePayment, TypeOK, PaymentRow
  <1>6. ASSUME NEW p \in Payments, NEW requested \in Amounts \cup {0},
               CapturePayment(p, requested)
        PROVE  AddsUp(s)'
    <2>1. /\ payment' = [payment EXCEPT ![p].status = "captured",
                                        ![p].captured_amount = CaptureAmount(p, requested)]
          /\ settlement' = settlement
      BY <1>6 DEF CapturePayment
    <2> QED
      BY <1>1, <1>4, <2>1 DEF TypeOK, PaymentRow
  <1>7. ASSUME NEW p \in Payments, NEW amt \in Amounts, RefundPayment(p, amt)
        PROVE  AddsUp(s)'
    <2>1. /\ payment' = [payment EXCEPT ![p].status = RefundTarget(p, amt)]
          /\ settlement' = settlement
      BY <1>7 DEF RefundPayment, WriteRefund
    <2> QED
      BY <1>1, <1>4, <2>1 DEF TypeOK, PaymentRow
  <1>8. ASSUME NEW m \in Merchants, NEW t \in Settlements, CreateSettlementBatch(m, t)
        PROVE  AddsUp(s)'
    <2> DEFINE batch == UnsettledPayments(m)
    <2>1. /\ batch \in SUBSET Payments
          /\ \A q \in batch : payment[q].settlement_id = NoSettlement
      BY DEF UnsettledPayments, PaymentsOf
    <2>2. /\ settlement[t] = NoBatch
          /\ settlement' = [settlement EXCEPT ![t] =
               [amount |-> BatchAmount(batch), payment_count |-> Cardinality(batch)]]
          /\ payment' = [q \in Payments |->
               IF q \in batch
                 THEN [payment[q] EXCEPT !.status = "settled", !.settlement_id = t]
                 ELSE payment[q]]
      BY <1>8 DEF CreateSettlementBatch, WriteBatch
    <2> HIDE DEF batch
    <2>3. \A q \in Payments :
            /\ payment'[q].amount = payment[q].amount
            /\ payment'[q].settlement_id = IF q \in batch THEN t ELSE payment[q].settlement_id
      BY <1>1, <2>2 DEF PaymentRow
    <2>4. CASE s # t
      <3>1. settlement'[s] = settlement[s]
        BY <1>1, <2>2, <2>4 DEF TypeOK
      <3>2. \A q \in Payments : payment'[q].settlement_id = s <=> payment[q].settlement_id = s
        BY <2>1, <2>3, <2>4, SettlementsAssumption
      <3>3. \A q \in PointTo(s) : payment'[q].amount = payment[q].amount
        BY <2>3 DEF PointTo
      <3> QED
        BY <1>1, <3>1, <3>2, <3>3, AddsUpFrame
    <2>5. CASE s = t
      <3>1. PointTo(s) = {}
        <4>1. Cardinality(PointTo(s)) = 0
          <5>1. AddsUp(s) /\ settlement[s] = NoBatch
            BY <1>1, <2>2, <2>5
          <5>2. settlement[s].payment_count = Cardinality(PointTo(s))
            BY <5>1 DEF AddsUp
          <5> QED
            BY <5>1, <5>2 DEF NoBatch
        <4>2. IsFiniteSet(PointTo(s))
          BY FS_Subset DEF PointTo
        <4> QED
          BY <4>1, <4>2, FS_EmptySet
      <3>2. PointTo(s)' = batch
        BY <2>1, <2>3, <2>5, <3>1 DEF PointTo
      <3>3. BatchAmount(PointTo(s))' = BatchAmount(batch)
        <4>1. BatchAmount(PointTo(s))' =
                SumFunctionOnSet([p \in Payments |-> payment'[p].amount], PointTo(s)')
          BY DEF BatchAmount
        <4>2. SumFunctionOnSet([p \in Payments |-> payment'[p].amount], batch) =
                BatchAmount(batch)
          BY <1>1, <2>1, <2>3, AmountFrame
        <4> QED
          BY <3>2, <4>1, <4>2
      <3>4. settlement'[s] = [amount |-> BatchAmount(batch), payment_count |-> Cardinality(batch)]
        BY <1>1, <2>2, <2>5 DEF TypeOK
      <3> QED
        BY <3>2, <3>3, <3>4 DEF AddsUp
    <2> QED
      BY <2>4, <2>5
  <1> QED
    BY <1>2, <1>3, <1>5, <1>6, <1>7, <1>8 DEF Next

\* A settlement's amount and payment_count are those of the payments that point
\* to it, whichever batches came before.
THEOREM SettlementsAddUp == Spec => []SettlementAddsUp
  <1>1. Init => SettlementAddsUp
    <2> SUFFICES ASSUME Init, NEW s \in Settlements PROVE AddsUp(s)
      BY AddsUpSplit
    <2>1. PointTo(s) = {}
      BY SettlementsAssumption DEF Init, PointTo, NoPayment, LegacyRow, NewRow
    <2>2. BatchAmount({}) = 0 /\ Cardinality({}) = 0
      BY SumEmpty, FS_EmptySet DEF BatchAmount
    <2> QED
      BY <2>1, <2>2 DEF Init, AddsUp, NoBatch
  <1>2. IInv /\ SettlementAddsUp /\ [Next]_tables => SettlementAddsUp'
    BY AddsUpStep
  <1> QED
    BY <1>1, <1>2, Invariance, PTL DEF Spec
-----------------------------------------------------------------------------
\* refund_payment takes what it gives back out of a wallet without a look at the
\* balance.  It need not look: the wallet covers what is left of every payment
\* of its merchant, so that no accepted refund overdraws it or leaves the width
\* of the column.
WalletsCoverRefunds ==
  /\ \A m \in Merchants : wallet[m].balance >= 0
  /\ \A p \in Payments, amt \in Amounts :
       RefundAccepted(p, amt) => wallet[Owner[p]].balance - amt \in 0..MaxInt

LEMMA WalletCovers ==
  ASSUME TypeOK, \A q \in Payments : Net(q) \in Nat, WalletIsNetFunds
  PROVE  /\ \A m \in Merchants : wallet[m].balance \in 0..MaxInt
         /\ \A p \in Payments : Net(p) <= wallet[Owner[p]].balance
  <1> DEFINE f == [q \in Payments |-> Net(q)]
  <1>1. ASSUME NEW m \in Merchants
        PROVE  /\ wallet[m].balance = SumFunctionOnSet(f, PaymentsOf(m))
               /\ IsFiniteSet(PaymentsOf(m))
               /\ \A q \in PaymentsOf(m) : f[q] \in Nat
    <2>1. IsFiniteSet(PaymentsOf(m)) /\ PaymentsOf(m) \subseteq Payments
      BY FS_Subset, PaymentsAssumption DEF PaymentsOf
    <2> QED
      BY <2>1 DEF WalletIsNetFunds, NetFunds, Net
  <1> HIDE DEF f
  <1>2. ASSUME NEW m \in Merchants PROVE wallet[m].balance \in 0..MaxInt
    <2>1. wallet[m].balance \in Nat
      BY <1>1, SumType
    <2>2. wallet[m].balance \in IntColumn
      BY DEF TypeOK, WalletRow
    <2> QED
      BY <2>1, <2>2, AmountsAssumption DEF IntColumn
  <1>3. ASSUME NEW p \in Payments PROVE Net(p) <= wallet[Owner[p]].balance
    <2> DEFINE S == PaymentsOf(Owner[p])
    <2>1. Owner[p] \in Merchants /\ p \in S
      BY PaymentsAssumption DEF PaymentsOf
    <2>2. /\ wallet[Owner[p]].balance = SumFunctionOnSet(f, S)
          /\ IsFiniteSet(S) /\ \A q \in S : f[q] \in Nat
      BY <1>1, <2>1
    <2>3. f[p] = Net(p)
      BY DEF f
    <2> HIDE DEF S
    <2>4. SumFunctionOnSet(f, S) = f[p] + SumFunctionOnSet(f, S \ {p})
      BY <2>1, <2>2, SumRemove
    <2>5. SumFunctionOnSet(f, S \ {p}) \in Nat
      BY <2>2, FS_Subset, SumType
    <2> QED
      BY <2>2, <2>3, <2>4, <2>5
  <1> QED
    BY <1>2, <1>3

\* Only a collected payment can be refunded.
LEMMA AcceptedIsCollected ==
  ASSUME NEW p \in Payments, NEW amt, RefundAccepted(p, amt)
  PROVE  amt <= Net(p)
  <1>1. payment[p].status \in CapturedStatus
    BY DEF RefundAccepted, RefundTarget, CanTransition, TRANSITIONS, CapturedStatus
  <1> QED
    BY <1>1 DEF RefundAccepted, Remaining, Collected, Net

LEMMA RefundsCovered ==
  ASSUME TypeOK, \A q \in Payments : Net(q) \in Nat, WalletIsNetFunds
  PROVE  WalletsCoverRefunds
  <1>1. ASSUME NEW p \in Payments, NEW amt \in Amounts, RefundAccepted(p, amt)
        PROVE  wallet[Owner[p]].balance - amt \in 0..MaxInt
    <2>1. wallet[Owner[p]].balance \in 0..MaxInt /\ Net(p) <= wallet[Owner[p]].balance
      BY WalletCovers, PaymentsAssumption
    <2>2. amt <= Net(p) /\ amt \in 1..MaxInt
      BY <1>1, AcceptedIsCollected, AmountsAssumption
    <2> QED
      BY <2>1, <2>2, AmountsAssumption
  <1> QED
    BY <1>1, WalletCovers, AmountsAssumption DEF WalletsCoverRefunds

\* No refund that refund_payment accepts overdraws the wallet of its merchant,
\* whatever captures, refunds and batches came before.
THEOREM RefundsAreCovered == Spec => []WalletsCoverRefunds
  <1>1. IInv /\ WalletIsNetFunds => WalletsCoverRefunds
    BY RefundsCovered, NetType DEF IInv
  <1> QED
    BY <1>1, Invariance, WalletCorrect, PTL

\* What the ledger holds for the payments of m on one side of an account.
BookedFor(m, side, account) ==
  SumFunctionOnSet([p \in Payments |-> ledger[p][side][account]], PaymentsOf(m))

\* "Updates the merchant's cached wallet balance to match": the cached balance
\* is that of the merchant_wallet account plus what was sent to the bank, for
\* batches debit the account and leave the wallet alone.
WalletAgainstLedger ==
  \A m \in Merchants :
    wallet[m].balance + BookedFor(m, "debit", "merchant_wallet") =
      BookedFor(m, "credit", "merchant_wallet") + BookedFor(m, "credit", "bank_settlement")

LEMMA WalletLedgerSum ==
  ASSUME TypeOK, WalletIsNetFunds,
         \A q \in Payments :
           /\ Net(q) \in Nat
           /\ Net(q) + ledger[q].debit["merchant_wallet"] =
                ledger[q].credit["merchant_wallet"] + ledger[q].credit["bank_settlement"]
  PROVE  WalletAgainstLedger
  <1> SUFFICES ASSUME NEW m \in Merchants
               PROVE  wallet[m].balance + BookedFor(m, "debit", "merchant_wallet") =
                        BookedFor(m, "credit", "merchant_wallet")
                          + BookedFor(m, "credit", "bank_settlement")
    BY DEF WalletAgainstLedger
  <1> DEFINE S == PaymentsOf(m)
             net == [q \in Payments |-> Net(q)]
             debited == [q \in Payments |-> ledger[q]["debit"]["merchant_wallet"]]
             credited == [q \in Payments |-> ledger[q]["credit"]["merchant_wallet"]]
             sent == [q \in Payments |-> ledger[q]["credit"]["bank_settlement"]]
             total == [q \in Payments |-> net[q] + debited[q]]
  <1>1. IsFiniteSet(S) /\ S \subseteq Payments
    BY FS_Subset, PaymentsAssumption DEF PaymentsOf
  <1>2. /\ wallet[m].balance = SumFunctionOnSet(net, S)
        /\ BookedFor(m, "debit", "merchant_wallet") = SumFunctionOnSet(debited, S)
        /\ BookedFor(m, "credit", "merchant_wallet") = SumFunctionOnSet(credited, S)
        /\ BookedFor(m, "credit", "bank_settlement") = SumFunctionOnSet(sent, S)
    BY DEF WalletIsNetFunds, NetFunds, Net, BookedFor
  <1>3. \A q \in S : /\ net[q] \in Nat /\ debited[q] \in Nat
                     /\ credited[q] \in Nat /\ sent[q] \in Nat
                     /\ total[q] = net[q] + debited[q]
                     /\ total[q] = credited[q] + sent[q]
    BY <1>1 DEF TypeOK, LedgerRows, Accounts
  <1> HIDE DEF S, net, debited, credited, sent, total
  <1>4. SumFunctionOnSet(total, S) = SumFunctionOnSet(net, S) + SumFunctionOnSet(debited, S)
    BY <1>1, <1>3, SumAdd
  <1>5. SumFunctionOnSet(total, S) = SumFunctionOnSet(credited, S) + SumFunctionOnSet(sent, S)
    BY <1>1, <1>3, SumAdd
  <1> QED
    BY <1>2, <1>4, <1>5

\* record_capture, record_refund and create_settlement_batch keep the cached
\* wallet and the ledger as far apart as the money sent to the bank, no more.
THEOREM WalletMatchesLedger == Spec => []WalletAgainstLedger
  <1>1. IInv /\ WalletIsNetFunds => WalletAgainstLedger
    <2> SUFFICES ASSUME IInv, WalletIsNetFunds PROVE WalletAgainstLedger
      OBVIOUS
    <2>1. ASSUME NEW q \in Payments
          PROVE  Net(q) + ledger[q].debit["merchant_wallet"] =
                   ledger[q].credit["merchant_wallet"] + ledger[q].credit["bank_settlement"]
      <3>1. Audited(q) /\ payment[q] \in PaymentRow /\ refunds[q] \in RefundRows
        BY InvByPayment DEF IInv, TypeOK, GoodPayment
      <3>2. /\ Collected(q) \in Nat /\ refunds[q].total \in Nat
            /\ SettledAmount(q) \in Nat
        BY <3>1, AmountsAssumption
           DEF Collected, CapturedOrAmount, SettledAmount, PaymentRow, RefundRows
      <3> QED
        BY <3>1, <3>2 DEF Audited, Net
    <2> QED
      BY <2>1, NetType, WalletLedgerSum DEF IInv
  <1> QED
    BY <1>1, Invariance, WalletCorrect, PTL
=============================================================================
