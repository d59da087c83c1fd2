-------------------------- MODULE SensorEventQueue --------------------------
(***************************************************************************)
(* The ring buffer between one sub-HAL's writer thread and the multihal's   *)
(* poll(): sensors/SensorEventQueue.cpp.  A queue is described by mStart    *)
(* (the first readable cell), mSize (how many cells are readable) and the   *)
(* array mData.  This module holds the arithmetic of the ring; the threads  *)
(* that use it are in MultiHalPoll.                                         *)
(***************************************************************************)
EXTENDS Integers, Sequences

CONSTANT Capacity   \* SENSOR_EVENT_QUEUE_CAPACITY, 36 in the code

ASSUME CapacityAssumption == Capacity \in Nat \ {0}

Cells == 0 .. Capacity - 1

(***************************************************************************)
(* getWritableRegion(): the writer may fill a contiguous run of cells that  *)
(* starts after the last readable record.                                   *)
(***************************************************************************)
FirstWritable(start, size) == (start + size) % Capacity

\* Mutant: the run is cut at the end of the array only.
LastWritableIgnoringReader(start, size, requested) ==
  LET last == FirstWritable(start, size) + requested - 1
  IN  IF last > Capacity - 1 THEN Capacity - 1 ELSE last

LastWritable(start, size, requested) ==
  LET first == FirstWritable(start, size)
      last  == first + requested - 1
      inArray == IF last > Capacity - 1 THEN Capacity - 1 ELSE last
  IN  IF first < start /\ inArray >= start THEN start - 1 ELSE inArray

WritableLength(start, size, requested) ==
  IF size = Capacity \/ requested <= 0
  THEN 0
  ELSE LastWritable(start, size, requested) - FirstWritable(start, size) + 1

(***************************************************************************)
(* dequeue(): the oldest record leaves, the next one becomes the first.     *)
(***************************************************************************)
NextStart(start) == (start + 1) % Capacity

\* The k-th readable cell, 0 being the one peek() returns.
ReadableCell(start, k) == (start + k) % Capacity

\* The records a queue holds, oldest first.
Contents(start, size, cells) ==
  [k \in 1 .. size |-> cells[ReadableCell(start, k - 1)]]
=============================================================================
