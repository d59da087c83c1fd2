---------------------------- MODULE MCSapService ----------------------------
(* An instance of SapService: two requests, a client that may start twice.    *)
EXTENDS SapService
=============================================================================
