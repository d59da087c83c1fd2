--------------------------- MODULE MultiHalStream ---------------------------
(***************************************************************************)
(* What MultiHalPoll promises: the rings of the multihal are the streams of *)
(* SensorStream.  A stream is the readable part of its ring, oldest first.  *)
(***************************************************************************)
EXTENDS MultiHalPoll

\* What the caller sees of an event: copy_event_remap_handle(), then the drop.
Converted(e, s) ==
  LET out == copy_event_remap_handle(e, s)
  IN  IF out.sensor = -1 THEN << >> ELSE <<out>>

Stream == INSTANCE SensorStream WITH
  Sources <- Subs,
  Events  <- SubEvents,
  Outputs <- OutEvents,
  Convert <- Converted,
  chan    <- [s \in Subs |-> Contents(mStart[s], mSize[s], mData[s])]

\* The rings implement the streams: nothing is overwritten before it is
\* read, read twice, skipped or reordered within one sub-HAL.
ImplementsStream == Stream!Spec
=============================================================================
