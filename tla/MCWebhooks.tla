----------------------------- MODULE MCWebhooks ------------------------------
(* The instances of Webhooks that the configurations check need no more than *)
(* sets of model values.                                                     *)
EXTENDS Webhooks
=============================================================================
