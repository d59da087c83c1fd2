---------------------------- MODULE MultiHalPoll ----------------------------
(***************************************************************************)
(* The sensors multihal moves events from the sub-HALs to the framework     *)
(* (sensors/multihal.cpp).  One writer thread per sub-HAL (writerTask) asks *)
(* for a region of its queue under queue_mutex, lets the sub-HAL fill it    *)
(* outside the mutex, and marks what was filled as written under the mutex  *)
(* again.  The framework's thread (sensors_poll_context_t::poll) takes      *)
(* events from the queues in turn, holding the mutex, and waits for         *)
(* data_available_cond when every queue is empty.                           *)
(*                                                                          *)
(* A critical section that touches only what the mutex protects is one      *)
(* step.  The reader's scan is one step per queue examined, so that the     *)
(* sub-HALs' writes, which need no mutex, fall between its reads.           *)
(***************************************************************************)
EXTENDS SensorEventQueue

CONSTANTS QueueCount,      \* sub_hw_devices.size(), one queue each
          LocalHandles,    \* handles that sub-HALs put in their events
          SubEvents,       \* the events that sub-HALs deliver
          full_to_global,  \* <<sub index, local handle>> -> global handle
          MaxReads,        \* the counts that poll() is called with
          Uninit           \* what a cell holds before it is written

Subs == 0 .. QueueCount - 1

ASSUME QueueCountAssumption == QueueCount \in Nat \ {0}
ASSUME LocalHandlesAssumption == LocalHandles \subseteq Nat
ASSUME HandleMapAssumption ==
  /\ DOMAIN full_to_global \subseteq (Subs \X LocalHandles)
  /\ \A f \in DOMAIN full_to_global : full_to_global[f] \in Nat \ {0}
ASSUME MaxReadsAssumption == MaxReads \subseteq Nat \ {0}

\* A normal event names its sensor; a meta-data event has sensor 0 and names
\* the sensor it is about in its payload.
NormalEvents == {[type |-> "NORMAL", sensor |-> h, inner |-> 0] : h \in LocalHandles}
MetaEvents   == {[type |-> "META_DATA", sensor |-> 0, inner |-> h] : h \in LocalHandles}

ASSUME SubEventsAssumption == SubEvents \subseteq (NormalEvents \cup MetaEvents)

OutEvents == [type : {"NORMAL", "META_DATA"}, sensor : Int, inner : Int]

VARIABLES
  mStart, mSize, mData,  \* the queues, one of each per sub-HAL
  wpc,                   \* where each writerTask is
  wFirst, wLen,          \* the region it was given (buffer, bufferSize)
  polled,                \* what device->poll() has put there so far
  lockedByReader,        \* poll() holds queue_mutex between steps
  waiting_for_data,
  rpc,                   \* where poll() is
  maxReads, empties, nextReadIndex,
  data                   \* the caller's array, data[1 .. eventsRead]

queueVars  == <<mStart, mSize, mData>>
writerVars == <<wpc, wFirst, wLen, polled>>
readerVars == <<rpc, maxReads, empties, nextReadIndex, data>>
vars == <<queueVars, writerVars, readerVars, lockedByReader, waiting_for_data>>

TypeOK ==
  /\ mStart \in [Subs -> Cells]
  /\ mSize \in [Subs -> 0 .. Capacity]
  /\ mData \in [Subs -> [Cells -> SubEvents \cup {Uninit}]]
  /\ wpc \in [Subs -> {"lock", "cond", "woken", "poll", "mark"}]
  /\ wFirst \in [Subs -> Cells]
  /\ wLen \in [Subs -> 0 .. Capacity]
  /\ polled \in [Subs -> Seq(SubEvents)]
  /\ lockedByReader \in BOOLEAN
  /\ waiting_for_data \in BOOLEAN
  /\ rpc \in {"idle", "scan", "cond", "woken"}
  /\ maxReads \in MaxReads \cup {0}
  /\ empties \in 0 .. QueueCount
  /\ nextReadIndex \in Subs
  /\ data \in Seq(OutEvents)

Init ==
  /\ mStart = [s \in Subs |-> 0]
  /\ mSize = [s \in Subs |-> 0]
  /\ mData = [s \in Subs |-> [c \in Cells |-> Uninit]]
  /\ wpc = [s \in Subs |-> "lock"]
  /\ wFirst = [s \in Subs |-> 0]
  /\ wLen = [s \in Subs |-> 0]
  /\ polled = [s \in Subs |-> << >>]
  /\ lockedByReader = FALSE
  /\ waiting_for_data = FALSE
  /\ rpc = "idle"
  /\ maxReads = 0
  /\ empties = 0
  /\ nextReadIndex = 0
  /\ data = << >>

-----------------------------------------------------------------------------
(***************************************************************************)
(* writerTask.                                                              *)
(***************************************************************************)

\* waitForSpace(): on a full queue the writer gives the mutex up and waits.
WriterWaitForSpace(s) ==
  /\ wpc[s] \in {"lock", "woken"}
  /\ ~lockedByReader
  /\ mSize[s] = Capacity
  /\ wpc' = [wpc EXCEPT ![s] = "cond"]
  /\ UNCHANGED <<queueVars, wFirst, wLen, polled, readerVars, lockedByReader, waiting_for_data>>

\* There is space: getWritableRegion(), then the mutex is released.
WriterGetRegion(s) ==
  /\ wpc[s] \in {"lock", "woken"}
  /\ ~lockedByReader
  /\ mSize[s] # Capacity
  /\ wFirst' = [wFirst EXCEPT ![s] = FirstWritable(mStart[s], mSize[s])]
  /\ wLen' = [wLen EXCEPT ![s] = WritableLength(mStart[s], mSize[s], Capacity)]
  /\ polled' = [polled EXCEPT ![s] = << >>]
  /\ wpc' = [wpc EXCEPT ![s] = "poll"]
  /\ UNCHANGED <<queueVars, readerVars, lockedByReader, waiting_for_data>>

\* pthread_cond_wait() may return with nobody having signalled.
WriterSpuriousWake(s) ==
  /\ wpc[s] = "cond"
  /\ wpc' = [wpc EXCEPT ![s] = "woken"]
  /\ UNCHANGED <<queueVars, wFirst, wLen, polled, readerVars, lockedByReader, waiting_for_data>>

\* The sub-HAL's poll() stores one more event; no mutex is held.
SubPollStore(s, e) ==
  /\ wpc[s] = "poll"
  /\ Len(polled[s]) < wLen[s]
  /\ mData' = [mData EXCEPT ![s][wFirst[s] + Len(polled[s])] = e]
  /\ polled' = [polled EXCEPT ![s] = Append(@, e)]
  /\ UNCHANGED <<mStart, mSize, wpc, wFirst, wLen, readerVars, lockedByReader, waiting_for_data>>

\* The sub-HAL's poll() returns a positive count.
SubPollReturn(s) ==
  /\ wpc[s] = "poll"
  /\ polled[s] # << >>
  /\ wpc' = [wpc EXCEPT ![s] = "mark"]
  /\ UNCHANGED <<queueVars, wFirst, wLen, polled, readerVars, lockedByReader, waiting_for_data>>

\* It returns zero or an error: whatever it stored is ignored.
SubPollFail(s) ==
  /\ wpc[s] = "poll"
  /\ polled' = [polled EXCEPT ![s] = << >>]
  /\ wpc' = [wpc EXCEPT ![s] = "lock"]
  /\ UNCHANGED <<queueVars, wFirst, wLen, readerVars, lockedByReader, waiting_for_data>>

\* Mutant: the writer does not look at waiting_for_data.
WriterMarkSilently(s) ==
  /\ wpc[s] = "mark"
  /\ ~lockedByReader
  /\ mSize' = [mSize EXCEPT ![s] = @ + Len(polled[s])]
  /\ polled' = [polled EXCEPT ![s] = << >>]
  /\ wpc' = [wpc EXCEPT ![s] = "lock"]
  /\ UNCHANGED <<mStart, mData, wFirst, wLen, readerVars, lockedByReader, waiting_for_data>>

\* Mutant: the whole region counts as written, filled or not.
WriterMarkRegion(s) ==
  /\ wpc[s] = "mark"
  /\ ~lockedByReader
  /\ mSize' = [mSize EXCEPT ![s] = @ + wLen[s]]
  /\ polled' = [polled EXCEPT ![s] = << >>]
  /\ wpc' = [wpc EXCEPT ![s] = "lock"]
  /\ rpc' = IF waiting_for_data /\ rpc = "cond" THEN "woken" ELSE rpc
  /\ UNCHANGED <<mStart, mData, wFirst, wLen, maxReads, empties, nextReadIndex, data,
                 lockedByReader, waiting_for_data>>

\* markAsWritten(), and a broadcast if poll() says that it waits.
WriterMark(s) ==
  /\ wpc[s] = "mark"
  /\ ~lockedByReader
  /\ mSize' = [mSize EXCEPT ![s] = @ + Len(polled[s])]
  /\ polled' = [polled EXCEPT ![s] = << >>]
  /\ wpc' = [wpc EXCEPT ![s] = "lock"]
  /\ rpc' = IF waiting_for_data /\ rpc = "cond" THEN "woken" ELSE rpc
  /\ UNCHANGED <<mStart, mData, wFirst, wLen, maxReads, empties, nextReadIndex, data,
                 lockedByReader, waiting_for_data>>

-----------------------------------------------------------------------------
(***************************************************************************)
(* sensors_poll_context_t::poll.                                            *)
(***************************************************************************)
get_global_handle(full) ==
  IF full \in DOMAIN full_to_global THEN full_to_global[full] ELSE -1

copy_event_remap_handle(e, s) ==
  IF e.type = "META_DATA"
  THEN [e EXCEPT !.inner = get_global_handle(<<s, e.inner>>)]
  ELSE [e EXCEPT !.sensor = get_global_handle(<<s, e.sensor>>)]

PollEnter(n) ==
  /\ rpc = "idle"
  /\ ~lockedByReader
  /\ lockedByReader' = TRUE
  /\ maxReads' = n
  /\ empties' = 0
  /\ data' = << >>
  /\ rpc' = "scan"
  /\ UNCHANGED <<queueVars, writerVars, nextReadIndex, waiting_for_data>>

Scanning == rpc = "scan" /\ empties < QueueCount /\ Len(data) < maxReads

ScanEmpty ==
  /\ Scanning
  /\ mSize[nextReadIndex] = 0
  /\ empties' = empties + 1
  /\ nextReadIndex' = (nextReadIndex + 1) % QueueCount
  /\ UNCHANGED <<queueVars, writerVars, rpc, maxReads, data, lockedByReader, waiting_for_data>>

\* Mutant: the size is compared with the capacity after it was decremented.
DequeueThenCompare(s) ==
  /\ wpc' = IF mSize[s] - 1 = Capacity /\ wpc[s] = "cond" THEN [wpc EXCEPT ![s] = "woken"] ELSE wpc
  /\ mSize' = [mSize EXCEPT ![s] = @ - 1]
  /\ mStart' = [mStart EXCEPT ![s] = NextStart(@)]

\* dequeue(): the writer of a full queue is told that there is space.
Dequeue(s) ==
  /\ wpc' = IF mSize[s] = Capacity /\ wpc[s] = "cond" THEN [wpc EXCEPT ![s] = "woken"] ELSE wpc
  /\ mSize' = [mSize EXCEPT ![s] = @ - 1]
  /\ mStart' = [mStart EXCEPT ![s] = NextStart(@)]

\* An event whose sensor is unknown is dropped.
Deliver(e) == IF e.sensor = -1 THEN data ELSE Append(data, e)

\* Mutant: the turn stays with a queue that has data.
ScanTakeSameQueue ==
  /\ Scanning
  /\ mSize[nextReadIndex] # 0
  /\ empties' = 0
  /\ data' = Deliver(copy_event_remap_handle(mData[nextReadIndex][mStart[nextReadIndex]],
                                             nextReadIndex))
  /\ Dequeue(nextReadIndex)
  /\ UNCHANGED <<nextReadIndex, mData, wFirst, wLen, polled, rpc, maxReads, lockedByReader,
                 waiting_for_data>>

ScanTake ==
  /\ Scanning
  /\ mSize[nextReadIndex] # 0
  /\ empties' = 0
  /\ data' = Deliver(copy_event_remap_handle(mData[nextReadIndex][mStart[nextReadIndex]],
                                             nextReadIndex))
  /\ Dequeue(nextReadIndex)
  /\ nextReadIndex' = (nextReadIndex + 1) % QueueCount
  /\ UNCHANGED <<mData, wFirst, wLen, polled, rpc, maxReads, lockedByReader, waiting_for_data>>

\* The queues have been scanned and nothing was read: wait for data.
PollWait ==
  /\ rpc = "scan" /\ ~Scanning
  /\ data = << >>
  /\ waiting_for_data' = TRUE
  /\ lockedByReader' = FALSE
  /\ rpc' = "cond"
  /\ UNCHANGED <<queueVars, writerVars, maxReads, empties, nextReadIndex, data>>

PollSpuriousWake ==
  /\ rpc = "cond"
  /\ rpc' = "woken"
  /\ UNCHANGED <<queueVars, writerVars, maxReads, empties, nextReadIndex, data, lockedByReader,
                 waiting_for_data>>

\* pthread_cond_wait() has the mutex again and returns.
PollResume ==
  /\ rpc = "woken"
  /\ ~lockedByReader
  /\ lockedByReader' = TRUE
  /\ waiting_for_data' = FALSE
  /\ empties' = 0
  /\ rpc' = "scan"
  /\ UNCHANGED <<queueVars, writerVars, maxReads, nextReadIndex, data>>

PollReturn ==
  /\ rpc = "scan" /\ ~Scanning
  /\ data # << >>
  /\ lockedByReader' = FALSE
  /\ rpc' = "idle"
  /\ UNCHANGED <<queueVars, writerVars, maxReads, empties, nextReadIndex, data, waiting_for_data>>

-----------------------------------------------------------------------------
Writer(s) ==
  \/ WriterWaitForSpace(s)
  \/ WriterGetRegion(s)
  \/ WriterSpuriousWake(s)
  \/ \E e \in SubEvents : SubPollStore(s, e)
  \/ SubPollReturn(s)
  \/ SubPollFail(s)
  \/ WriterMark(s)

Reader ==
  \/ \E n \in MaxReads : PollEnter(n)
  \/ ScanEmpty
  \/ ScanTake
  \/ PollWait
  \/ PollSpuriousWake
  \/ PollResume
  \/ PollReturn

Next == (\E s \in Subs : Writer(s)) \/ Reader

Spec == Init /\ [][Next]_vars

(***************************************************************************)
(* Fairness.  Threads run; a thread that wants queue_mutex gets it although *)
(* others keep taking it (strong fairness); the framework calls poll()      *)
(* again and again.  Nothing is asked of the sub-HALs, of spurious wakeups  *)
(* or of the sizes that poll() is called with.                              *)
(***************************************************************************)
Fairness ==
  /\ \A s \in Subs : /\ SF_vars(WriterWaitForSpace(s) \/ WriterGetRegion(s))
                     /\ SF_vars(WriterMark(s))
  /\ SF_vars(\E n \in MaxReads : PollEnter(n))
  /\ SF_vars(PollResume)
  /\ WF_vars(ScanEmpty \/ ScanTake \/ PollWait \/ PollReturn)

FairSpec == Spec /\ Fairness

-----------------------------------------------------------------------------
(***************************************************************************)
(* Properties.                                                              *)
(***************************************************************************)

\* The region a sub-HAL may be writing, outside queue_mutex, lies in the
\* array and holds no readable cell, however far the reader has got meanwhile:
\* poll() never copies a cell that is being written.
RegionNotReadable ==
  \A s \in Subs : wpc[s] \in {"poll", "mark"} =>
    /\ wFirst[s] + wLen[s] <= Capacity
    /\ \A k \in 0 .. mSize[s] - 1, j \in 0 .. wLen[s] - 1 :
         ReadableCell(mStart[s], k) # wFirst[s] + j

\* No wakeup of poll() is lost: while it sits in data_available_cond and
\* nobody has broadcast, every queue is empty.
NoLostDataWakeup == rpc = "cond" => \A s \in Subs : mSize[s] = 0

\* No wakeup of a writer is lost: while it sits in mSpaceAvailableCondition
\* and nobody has broadcast, its queue is full.
NoLostSpaceWakeup == \A s \in Subs : wpc[s] = "cond" => mSize[s] = Capacity

(***************************************************************************)
(* The inductive invariant behind the theorems of MultiHalPollProofs.       *)
(***************************************************************************)

\* The region begins where markAsWritten() will append, and it fits into the
\* free cells and into the array.
RegionInv ==
  \A s \in Subs : wpc[s] \in {"poll", "mark"} =>
    /\ wFirst[s] = FirstWritable(mStart[s], mSize[s])
    /\ mSize[s] + wLen[s] <= Capacity
    /\ wFirst[s] + wLen[s] <= Capacity
    /\ Len(polled[s]) <= wLen[s]

\* Every readable cell holds an event, and the region holds what the sub-HAL
\* has stored so far.
ContentInv ==
  \A s \in Subs :
    /\ \A k \in 0 .. mSize[s] - 1 : mData[s][ReadableCell(mStart[s], k)] \in SubEvents
    /\ wpc[s] \in {"poll", "mark"} =>
         \A j \in 1 .. Len(polled[s]) : mData[s][wFirst[s] + j - 1] = polled[s][j]

\* waiting_for_data is true exactly while poll() waits, and poll() holds the
\* mutex exactly while it scans.
WaitInv ==
  /\ waiting_for_data <=> rpc \in {"cond", "woken"}
  /\ lockedByReader <=> rpc = "scan"

\* What the scan has counted: the last `empties' queues it examined, and it
\* keeps the mutex, so they are still empty.
ScanInv ==
  /\ rpc # "idle" => maxReads \in MaxReads
  /\ rpc = "scan" =>
       \A i \in 1 .. empties : mSize[(nextReadIndex + QueueCount - i) % QueueCount] = 0

IInv == /\ TypeOK
        /\ RegionInv
        /\ ContentInv
        /\ WaitInv
        /\ ScanInv
        /\ NoLostDataWakeup
        /\ NoLostSpaceWakeup

\* What a sub-HAL has delivered is taken by poll(), whatever the other
\* sub-HALs deliver: the first cell of a non-empty queue moves on.
QueuesDrain ==
  \A s \in Subs, c \in Cells :
    (mSize[s] > 0 /\ mStart[s] = c) ~> (mSize[s] = 0 \/ mStart[s] # c)

\* A full queue does not stop its writer for good.
WriterGoesOn == \A s \in Subs : (wpc[s] = "cond") ~> (wpc[s] = "poll")
=============================================================================
