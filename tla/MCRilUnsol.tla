----------------------------- MODULE MCRilUnsol -----------------------------
(* Instances of RilUnsol: one vendor thread beside the binder thread and the *)
(* event loop, and a client that may restart.                                *)
EXTENDS RilUnsol
=============================================================================
