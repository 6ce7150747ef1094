------------------------------ MODULE MCClients -----------------------------
(* Constant values for the model checking of Clients. *)
EXTENDS Clients, TLC

CONSTANTS m1, p1

MCOwner == p1 :> m1
=============================================================================
