-------------------------- MODULE MCPaymentService --------------------------
(* Constant values for the model checking of PaymentService. *)
EXTENDS PaymentService, TLC

CONSTANTS m1, m2, p1, p2, p3, s1, s2

\* m1 owns two payments, so that batches and wallets of one merchant hold more
\* than one payment next to a payment of somebody else.
MCOwner == p1 :> m1 @@ p2 :> m1 @@ p3 :> m2
MCOwnerOfOne == p1 :> m1 @@ p2 :> m1

\* The payments of m1 are interchangeable, and so are the settlement ids.
MCSymmetry == Permutations({p1, p2}) \cup Permutations({s1, s2})
=============================================================================
