---------------------------- MODULE SensorStream ----------------------------
(***************************************************************************)
(* What the multihal promises: one unbounded first-in first-out stream per  *)
(* sub-HAL.  What a sub-HAL's poll() returned joins its stream whole and in *)
(* order, every event leaves its stream exactly once, oldest first, and it  *)
(* goes to the caller of poll() with its handle made global, unless that    *)
(* handle is unknown.                                                       *)
(***************************************************************************)
EXTENDS Integers, Sequences

CONSTANTS Sources, Events, Outputs, Convert(_, _)
  \* Convert(e, s): the singleton of what the caller sees of event e of source s,
  \* or the empty sequence when the event is dropped

VARIABLES chan,    \* per source, the events delivered and not yet read
          polled,  \* per source, what its current poll() has produced
          data     \* what the current or last poll() of the caller has read

vars == <<chan, polled, data>>

Init ==
  /\ chan = [s \in Sources |-> << >>]
  /\ polled = [s \in Sources |-> << >>]
  /\ data = << >>

Produce(s) ==
  /\ \E e \in Events : polled' = [polled EXCEPT ![s] = Append(@, e)]
  /\ UNCHANGED <<chan, data>>

Discard(s) ==
  /\ polled' = [polled EXCEPT ![s] = << >>]
  /\ UNCHANGED <<chan, data>>

Commit(s) ==
  /\ chan' = [chan EXCEPT ![s] = @ \o polled[s]]
  /\ polled' = [polled EXCEPT ![s] = << >>]
  /\ UNCHANGED data

Take(s) ==
  /\ chan[s] # << >>
  /\ data' = data \o Convert(Head(chan[s]), s)
  /\ chan' = [chan EXCEPT ![s] = Tail(@)]
  /\ UNCHANGED polled

Begin ==
  /\ data' = << >>
  /\ UNCHANGED <<chan, polled>>

Next == Begin \/ \E s \in Sources : Produce(s) \/ Discard(s) \/ Commit(s) \/ Take(s)

Spec == Init /\ [][Next]_vars
=============================================================================
