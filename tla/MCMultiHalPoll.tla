--------------------------- MODULE MCMultiHalPoll ---------------------------
(***************************************************************************)
(* Small instances of MultiHalPoll.                                         *)
(***************************************************************************)
EXTENDS MultiHalStream

\* Local handle 1 is registered for both sub-HALs, 2 for neither.
MCHandles == [f \in Subs \X {1} |-> 1 + f[1]]

\* One event with a known handle, one with an unknown one.
TwoEvents == {[type |-> "NORMAL", sensor |-> h, inner |-> 0] : h \in {1, 2}}

OneEvent == {[type |-> "NORMAL", sensor |-> 1, inner |-> 0]}
=============================================================================
