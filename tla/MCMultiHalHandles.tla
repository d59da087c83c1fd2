------------------------- MODULE MCMultiHalHandles -------------------------
(* Three sub-HALs, two of which use the same local handles.               *)
EXTENDS MultiHalHandles

MCConfig == <<"a", "b", "c">>
MCListing == [p \in {"a", "b", "c"} |-> IF p = "b" THEN <<1, 2>> ELSE <<1, 3>>]
=============================================================================
