----------------------------- MODULE MCGateway ------------------------------
(* Constant values for the model checking of Gateway. *)
EXTENDS Gateway, TLC

CONSTANTS m1, p1, p2

\* The two payments have one merchant, so that batches and wallets hold more
\* than one payment.
MCOwner == p1 :> m1 @@ p2 :> m1
=============================================================================
