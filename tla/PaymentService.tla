--------------------------- MODULE PaymentService ---------------------------
(***************************************************************************)
(* The tables of the payment gateway and the operations of its service     *)
(* layer (app/services/payment_service.py, ledger_service.py and           *)
(* settlement_service.py), every call being one committed transaction with *)
(* a session of its own.  Module Gateway runs the same operations from     *)
(* concurrent request handlers.                                            *)
(*                                                                         *)
(* Abstractions: ids are drawn from fixed sets and a payment id belongs to *)
(* one merchant (Owner); the refunds of a payment are kept as their number *)
(* and their sum, the ledger as the totals booked per payment, account and *)
(* side, which is all the code ever reads of them.  NULL in                *)
(* captured_amount is 0: the code tests it with "or", which does not tell  *)
(* the two apart, and no request can capture 0 (schemas/payment_schema.py).*)
(***************************************************************************)
EXTENDS StateMachine, Integers, FiniteSets, FiniteSetsExt

CONSTANTS
  Merchants,
  Payments,      \* payment ids
  Owner,         \* Owner[p]: the merchant whose request inserts payment p
  Settlements,   \* settlement ids
  NoSettlement,  \* NULL in payments.settlement_id
  Amounts,       \* the amounts requests ask for (Field(gt=0))
  MaxInt         \* the largest value of an INTEGER column

ASSUME PaymentsAssumption ==
  /\ IsFiniteSet(Payments)
  /\ Owner \in [Payments -> Merchants]
\* Ids are version 4 UUIDs, of which there are finitely many.
ASSUME SettlementsAssumption ==
  /\ IsFiniteSet(Settlements)
  /\ NoSettlement \notin Settlements
ASSUME AmountsAssumption ==
  /\ MaxInt \in Nat
  /\ Amounts \subseteq 1..MaxInt

IntColumn == (-MaxInt - 1)..MaxInt

\* The values of LedgerEntry.account: two in ledger_service, the third in
\* settlement_service.
Accounts == {"customer_holding", "merchant_wallet", "bank_settlement"}

PaymentRow == [status : PaymentStatus \cup {"absent"}, amount : 0..MaxInt,
               captured_amount : 0..MaxInt,
               settlement_id : Settlements \cup {NoSettlement}]
RefundRows == [count : Nat, total : Nat]
LedgerRows == [debit : [Accounts -> Nat], credit : [Accounts -> Nat]]
WalletRow == [exists : BOOLEAN, balance : IntColumn]
SettlementRow == [amount : IntColumn, payment_count : Nat]

VARIABLES payment, refunds, ledger, wallet, settlement

tables == <<payment, refunds, ledger, wallet, settlement>>

NewRow(status, amt) == [status |-> status, amount |-> amt, captured_amount |-> 0,
                        settlement_id |-> NoSettlement]
NoPayment == NewRow("absent", 0)
NoRefunds == [count |-> 0, total |-> 0]
NoEntries == [debit |-> [a \in Accounts |-> 0],
              credit |-> [a \in Accounts |-> 0]]
NoBatch == [amount |-> 0, payment_count |-> 0]

\* A row captured before captured_amount was added: the migration leaves it
\* NULL and fills nothing in.
LegacyRow(a) == NewRow("captured", a)

\* One debit and one credit of the same amount.
Booked(entries, debited, credited, amt) ==
  [debit |-> [entries.debit EXCEPT ![debited] = @ + amt],
   credit |-> [entries.credit EXCEPT ![credited] = @ + amt]]

\* payment.captured_amount or payment.amount
CapturedOrAmount(row) ==
  IF row.captured_amount = 0 THEN row.amount ELSE row.captured_amount

\* The money collected from the customer of p.
Collected(p) ==
  IF payment[p].status \in CapturedStatus THEN CapturedOrAmount(payment[p]) ELSE 0

PaymentsOf(m) == {p \in Payments : Owner[p] = m}

\* What the payments of m brought in and did not give back.
NetFunds(m) ==
  SumFunctionOnSet([p \in Payments |-> Collected(p) - refunds[p].total], PaymentsOf(m))
-----------------------------------------------------------------------------
\* The database as the last migration leaves it: empty, or with payments that
\* were captured in full, and not yet settled, before captured_amount existed.
Init ==
  /\ payment \in [Payments -> {NoPayment} \cup {LegacyRow(a) : a \in Amounts}]
  /\ refunds = [p \in Payments |-> NoRefunds]
  /\ ledger = [p \in Payments |->
       Booked(NoEntries, "customer_holding", "merchant_wallet", payment[p].amount)]
  /\ wallet \in [Merchants -> WalletRow]
  /\ \A m \in Merchants :
       /\ wallet[m].balance = NetFunds(m)
       /\ wallet[m].exists <=> \E p \in PaymentsOf(m) : payment[p].status = "captured"
  /\ settlement = [s \in Settlements |-> NoBatch]

CreatePayment(p, amt) ==
  /\ payment[p].status = "absent"
  /\ payment' = [payment EXCEPT ![p] = NewRow("created", amt)]
  /\ UNCHANGED <<refunds, ledger, wallet, settlement>>

\* The answers of the simulated bank.
BankOutcomes == {"authorized", "failed", "timeout"}

\* Faulty variant: the state machine is not asked.
AuthorizeUnchecked(p, outcome) ==
  /\ payment[p].status # "absent"
  /\ payment' = IF outcome = "timeout" THEN payment
                ELSE [payment EXCEPT ![p].status = outcome]
  /\ UNCHANGED <<refunds, ledger, wallet, settlement>>

\* A timeout leaves the payment untouched; any other answer is a transition,
\* also for a payment that has been authorized before.
AuthorizePayment(p, outcome) ==
  /\ payment[p].status # "absent"
  /\ \/ /\ outcome = "timeout"
        /\ UNCHANGED payment
     \/ /\ CanTransition(payment[p].status, outcome)
        /\ payment' = [payment EXCEPT ![p].status = outcome]
  /\ UNCHANGED <<refunds, ledger, wallet, settlement>>

\* Faulty variant: the width of the column is forgotten.
SetWalletUnbounded(p, balance) ==
  wallet' = [wallet EXCEPT ![Owner[p]] = [exists |-> TRUE, balance |-> balance]]

\* record_capture and record_refund write the merchant's wallet (created on
\* first use) as the balance they read plus or minus the amount.
SetWallet(p, balance) ==
  /\ balance \in IntColumn
  /\ wallet' = [wallet EXCEPT ![Owner[p]] = [exists |-> TRUE, balance |-> balance]]

\* Faulty variant: the ledger gets what was authorized, not what is captured.
RecordCaptureOfAuthorized(p, amt, seenBalance) ==
  /\ ledger' = [ledger EXCEPT ![p] =
       Booked(@, "customer_holding", "merchant_wallet", payment[p].amount)]
  /\ SetWallet(p, seenBalance + amt)

RecordCapture(p, amt, seenBalance) ==
  /\ ledger' = [ledger EXCEPT ![p] =
       Booked(@, "customer_holding", "merchant_wallet", amt)]
  /\ SetWallet(p, seenBalance + amt)

\* Faulty variants: the wallet is left alone; the credit entry is missing.
RecordRefundWithoutWallet(p, amt, seenBalance) ==
  /\ ledger' = [ledger EXCEPT ![p] =
       Booked(@, "merchant_wallet", "customer_holding", amt)]
  /\ UNCHANGED wallet

RecordRefundOneSided(p, amt, seenBalance) ==
  /\ ledger' = [ledger EXCEPT ![p].debit["merchant_wallet"] = @ + amt]
  /\ SetWallet(p, seenBalance - amt)

RecordRefund(p, amt, seenBalance) ==
  /\ ledger' = [ledger EXCEPT ![p] =
       Booked(@, "merchant_wallet", "customer_holding", amt)]
  /\ SetWallet(p, seenBalance - amt)

\* An omitted amount is 0.
CaptureAmount(p, requested) ==
  IF requested = 0 THEN payment[p].amount ELSE requested

\* Faulty variant: a capture above the authorized amount goes through.
CaptureAcceptedAboveAmount(p, requested) == CanTransition(payment[p].status, "captured")

CaptureAccepted(p, requested) ==
  /\ CaptureAmount(p, requested) <= payment[p].amount
  /\ CanTransition(payment[p].status, "captured")

CapturePayment(p, requested) ==
  LET amt == CaptureAmount(p, requested)
  IN  /\ CaptureAccepted(p, requested)
      /\ payment' = [payment EXCEPT ![p].status = "captured",
                                    ![p].captured_amount = amt]
      /\ RecordCapture(p, amt, wallet[Owner[p]].balance)
      /\ UNCHANGED <<refunds, settlement>>

Remaining(p) == CapturedOrAmount(payment[p]) - refunds[p].total

\* Faulty variant: "fully refunded" is measured by the authorized amount.
RefundTargetOfAmount(p, amt) ==
  IF refunds[p].total + amt = payment[p].amount THEN "refunded" ELSE "partially_refunded"

RefundTarget(p, amt) ==
  IF amt = Remaining(p) THEN "refunded" ELSE "partially_refunded"

\* Faulty variant: off by one, the last unit cannot be refunded.
RefundAcceptedBelowRest(p, amt) ==
  /\ amt < Remaining(p)
  /\ CanTransition(payment[p].status, RefundTarget(p, amt))

RefundAccepted(p, amt) ==
  /\ amt <= Remaining(p)
  /\ CanTransition(payment[p].status, RefundTarget(p, amt))

\* The writes of refund_payment, from the status and the balance it computed.
WriteRefund(p, amt, target, seenBalance) ==
  /\ payment' = [payment EXCEPT ![p].status = target]
  /\ refunds' = [refunds EXCEPT ![p] = [count |-> @.count + 1, total |-> @.total + amt]]
  /\ RecordRefund(p, amt, seenBalance)
  /\ UNCHANGED settlement

RefundPayment(p, amt) ==
  /\ RefundAccepted(p, amt)
  /\ WriteRefund(p, amt, RefundTarget(p, amt), wallet[Owner[p]].balance)

\* Faulty variant: settled payments are selected again.
UnsettledOrSettled(m) ==
  {p \in PaymentsOf(m) : payment[p].status \in {"captured", "settled"}}

UnsettledPayments(m) ==
  {p \in PaymentsOf(m) : /\ payment[p].status = "captured"
                         /\ payment[p].settlement_id = NoSettlement}

\* Faulty variant: refunds are taken off the total and not off the entries.
BatchAmountAfterRefunds(batch) ==
  SumFunctionOnSet([p \in Payments |-> payment[p].amount - refunds[p].total], batch)

\* A batch is sized by payment.amount.
BatchAmount(batch) == SumFunctionOnSet([p \in Payments |-> payment[p].amount], batch)

\* The writes of create_settlement_batch for the payments it selected.  The
\* wallet is not touched.
WriteBatch(s, batch) ==
  /\ settlement[s] = NoBatch
  /\ BatchAmount(batch) \in IntColumn
  /\ settlement' = [settlement EXCEPT ![s] =
       [amount |-> BatchAmount(batch), payment_count |-> Cardinality(batch)]]
  /\ payment' = [p \in Payments |->
       IF p \in batch
         THEN [payment[p] EXCEPT !.status = "settled", !.settlement_id = s]
         ELSE payment[p]]
  /\ ledger' = [p \in Payments |->
       IF p \in batch
         THEN Booked(ledger[p], "merchant_wallet", "bank_settlement", payment[p].amount)
         ELSE ledger[p]]
  /\ UNCHANGED <<refunds, wallet>>

CreateSettlementBatch(m, s) ==
  /\ UnsettledPayments(m) # {}
  /\ WriteBatch(s, UnsettledPayments(m))

Next ==
  \/ \E p \in Payments :
       \/ \E amt \in Amounts : CreatePayment(p, amt) \/ RefundPayment(p, amt)
       \/ \E outcome \in BankOutcomes : AuthorizePayment(p, outcome)
       \/ \E requested \in Amounts \cup {0} : CapturePayment(p, requested)
  \/ \E m \in Merchants, s \in Settlements : CreateSettlementBatch(m, s)

Spec == Init /\ [][Next]_tables
-----------------------------------------------------------------------------
\* Every row of every table has the shape and the width of its columns.
TypeOK ==
  /\ payment \in [Payments -> PaymentRow]
  /\ refunds \in [Payments -> RefundRows]
  /\ ledger \in [Payments -> LedgerRows]
  /\ wallet \in [Merchants -> WalletRow]
  /\ settlement \in [Settlements -> SettlementRow]

\* What a settlement takes out of the wallet account for p.
SettledAmount(p) ==
  IF payment[p].settlement_id = NoSettlement THEN 0 ELSE payment[p].amount

\* The ledger tells the whole story of a payment: exactly one capture pair of
\* the collected amount, refund pairs that add up to its refunds, and one
\* settlement pair iff it belongs to a settlement (record_capture,
\* record_refund and the loop of create_settlement_batch against the payment
\* and refund rows written next to them).
Audited(p) ==
  LET d == ledger[p].debit  c == ledger[p].credit
  IN  /\ d["customer_holding"] = Collected(p)
      /\ c["customer_holding"] = refunds[p].total
      /\ d["merchant_wallet"] = refunds[p].total + SettledAmount(p)
      /\ c["merchant_wallet"] = Collected(p)
      /\ d["bank_settlement"] = 0
      /\ c["bank_settlement"] = SettledAmount(p)

AuditTrail == \A p \in Payments : Audited(p)

\* Double entry: what is debited for a payment is credited for it.
Balanced ==
  \A p \in Payments :
    LET d == ledger[p].debit  c == ledger[p].credit
    IN  d["customer_holding"] + d["merchant_wallet"] + d["bank_settlement"]
          = c["customer_holding"] + c["merchant_wallet"] + c["bank_settlement"]

\* The columns of a payment row agree with its status: only a collected payment
\* has a captured_amount, never above what was authorized, a payment in a
\* settlement left "captured", and every payment asks for some money.
RowMatchesStatus(p) ==
  LET row == payment[p]
  IN  /\ row.captured_amount <= row.amount
      /\ row.captured_amount > 0 => row.status \in CapturedStatus
      /\ row.status \in PaymentStatus \ {"settled", "refunded", "partially_refunded"}
           => row.settlement_id = NoSettlement
      /\ row.status = "settled" => row.settlement_id # NoSettlement
      /\ row.amount = 0 <=> row.status = "absent"
      /\ row.status = "absent" => row = NoPayment

RowsMatchStatus == \A p \in Payments : RowMatchesStatus(p)

\* refund_payment never gives back more than was collected, and the status
\* says how much came back: all of it, or a part of it by a single refund.
RefundsMatch(p) ==
  LET given == refunds[p].total  got == Collected(p)  st == payment[p].status
  IN  /\ given <= got
      /\ (st = "refunded") <=> (given > 0 /\ given = got)
      /\ (st = "partially_refunded") <=> (given > 0 /\ given < got)
      /\ st = "partially_refunded" => refunds[p].count = 1
      /\ refunds[p].count <= 2
      /\ refunds[p].count > 0 <=> given > 0

RefundsMatchStatus == \A p \in Payments : RefundsMatch(p)

\* A collected payment can always be given back: whatever captures, partial
\* refunds and settlements came before, refund_payment accepts the remainder.
AlwaysRefundable ==
  \A p \in Payments :
    payment[p].status \in CapturedStatus \ {"refunded"} =>
      Remaining(p) > 0 /\ RefundAccepted(p, Remaining(p))

\* The cached wallet balance is what the merchant's payments brought in and
\* did not give back (get_or_create_wallet, record_capture, record_refund).
WalletIsNetFunds == \A m \in Merchants : wallet[m].balance = NetFunds(m)

\* A settlement's amount and payment_count are those of the payments that
\* point to it (create_settlement_batch).
SettlementAddsUp ==
  \A s \in Settlements :
    LET batch == {p \in Payments : payment[p].settlement_id = s}
    IN  settlement[s] =
          [amount |-> SumFunctionOnSet([p \in Payments |-> payment[p].amount], batch),
           payment_count |-> Cardinality(batch)]

\* The service layer implements the contract of a payment.
Contract == INSTANCE PaymentContract WITH
  status <- [p \in Payments |-> payment[p].status],
  captured <- [p \in Payments |-> Collected(p)],
  refunded <- [p \in Payments |-> refunds[p].total],
  settled <- {p \in Payments : payment[p].settlement_id # NoSettlement}

ImplementsContract == Contract!Spec
-----------------------------------------------------------------------------
\* "The ledger only ever moves the amount actually captured": no payment sends
\* more to the bank than was collected for it.
SettlesWhatWasCaptured ==
  \A p \in Payments : ledger[p].credit["bank_settlement"] <= Collected(p)
=============================================================================
