--------------------------- MODULE MCIdempotency ----------------------------
(* The instances of Idempotency that the configurations check need no more    *)
(* than sets of model values.                                                 *)
EXTENDS Idempotency
=============================================================================
