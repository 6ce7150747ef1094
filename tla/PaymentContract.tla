-------------------------- MODULE PaymentContract ---------------------------
(***************************************************************************)
(* What the gateway promises about each payment, with no tables, no ledger *)
(* and no amounts asked for: a payment is created, authorized or declined, *)
(* captured once, settled at most once, and gives back through refunds at  *)
(* most what was captured, the status telling how much was given back.     *)
(* PaymentService implements this contract.  Overlapping requests leave    *)
(* one clause of it out, see OverlappingSpec; Gateway implements the rest. *)
(***************************************************************************)
EXTENDS StateMachine, Integers

CONSTANT Payments

VARIABLES
  status,     \* status[p], "absent" before the payment exists
  captured,   \* captured[p], the money collected
  refunded,   \* refunded[p], the money given back
  settled     \* the payments that are part of a settlement

vars == <<status, captured, refunded, settled>>

Init ==
  /\ status \in [Payments -> {"absent", "captured"}]
  /\ captured \in [Payments -> Nat]
  /\ \A p \in Payments : (captured[p] > 0) <=> (status[p] = "captured")
  /\ refunded = [p \in Payments |-> 0]
  /\ settled = {}

Create(p) ==
  /\ status[p] = "absent"
  /\ status' = [status EXCEPT ![p] = "created"]
  /\ UNCHANGED <<captured, refunded, settled>>

\* The bank answers; a second answer may still decline an authorized payment.
Decide(p) ==
  /\ \E outcome \in {"authorized", "failed"} :
       /\ CanTransition(status[p], outcome)
       /\ status' = [status EXCEPT ![p] = outcome]
  /\ UNCHANGED <<captured, refunded, settled>>

Capture(p) ==
  /\ status[p] = "authorized"
  /\ status' = [status EXCEPT ![p] = "captured"]
  /\ captured'[p] \in Nat \ {0}
  /\ captured' = [captured EXCEPT ![p] = captured'[p]]
  /\ UNCHANGED <<refunded, settled>>

Refund(p) ==
  /\ refunded'[p] \in (refunded[p] + 1)..captured[p]
  /\ refunded' = [refunded EXCEPT ![p] = refunded'[p]]
  /\ LET target == IF refunded'[p] = captured[p]
                     THEN "refunded" ELSE "partially_refunded"
     IN  /\ CanTransition(status[p], target)
         /\ status' = [status EXCEPT ![p] = target]
  /\ UNCHANGED <<captured, settled>>

\* A batch settles several payments in one transaction.
Settle(batch) ==
  /\ batch # {}
  /\ \A p \in batch : status[p] = "captured" /\ p \notin settled
  /\ status' = [p \in Payments |-> IF p \in batch THEN "settled" ELSE status[p]]
  /\ settled' = settled \cup batch
  /\ UNCHANGED <<captured, refunded>>

Next ==
  \/ \E p \in Payments : Create(p) \/ Decide(p) \/ Capture(p) \/ Refund(p)
  \/ \E batch \in SUBSET Payments : Settle(batch)

Spec == Init /\ [][Next]_vars

\* A batch that overlaps with refunds and other batches: it calls settled what
\* has been refunded or settled in the meantime, but collected it was.
SettleLate(batch) ==
  /\ batch # {}
  /\ \A p \in batch : status[p] \in CapturedStatus
  /\ status' = [p \in Payments |-> IF p \in batch THEN "settled" ELSE status[p]]
  /\ settled' = settled \cup batch
  /\ UNCHANGED <<captured, refunded>>

OverlappingSpec ==
  Init /\ [][Next \/ \E batch \in SUBSET Payments : SettleLate(batch)]_vars
=============================================================================
