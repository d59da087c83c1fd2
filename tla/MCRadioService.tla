--------------------------- MODULE MCRadioService ---------------------------
(* Instances of RadioService: a vendor thread, and a client that restarts.   *)
EXTENDS RadioService
=============================================================================
