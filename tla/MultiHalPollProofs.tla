------------------------- MODULE MultiHalPollProofs -------------------------
(***************************************************************************)
(* Proofs about the multihal's queues for every capacity, number of         *)
(* sub-HALs, handle map and sequence of poll() sizes: first the invariants, *)
(* then that the rings implement the streams of SensorStream.               *)
(***************************************************************************)
EXTENDS MultiHalStream, SequenceTheorems, TLAPS

\* FirstWritable without the remainder.
LEMMA FirstWritableCases ==
  ASSUME NEW start \in Cells, NEW size \in 0 .. Capacity
  PROVE  /\ FirstWritable(start, size) \in Cells
         /\ start + size < Capacity => FirstWritable(start, size) = start + size
         /\ start + size >= Capacity => FirstWritable(start, size) = start + size - Capacity
  <1>1. PICK x \in 0 .. 2 * Capacity - 1 : x = start + size
    BY CapacityAssumption DEF Cells
  <1>2. /\ x % Capacity \in 0 .. Capacity - 1
        /\ x < Capacity => x % Capacity = x
        /\ x >= Capacity => x % Capacity = x - Capacity
    BY CapacityAssumption
  <1>3. FirstWritable(start, size) = x % Capacity
    BY <1>1 DEF FirstWritable
  <1>4. QED
    BY <1>1, <1>2, <1>3, CapacityAssumption DEF Cells

\* NextStart without the remainder.
LEMMA NextStartCases ==
  ASSUME NEW start \in Cells
  PROVE  /\ NextStart(start) \in Cells
         /\ start + 1 < Capacity => NextStart(start) = start + 1
         /\ start + 1 = Capacity => NextStart(start) = 0
  <1>1. /\ 1 \in 0 .. Capacity
        /\ NextStart(start) = FirstWritable(start, 1)
    BY CapacityAssumption DEF NextStart, FirstWritable
  <1>2. QED
    BY <1>1, FirstWritableCases, CapacityAssumption DEF Cells

\* getWritableRegion() on a queue that is not full: a run that is not empty,
\* fits into the free cells and into the array.
LEMMA WritableRegion ==
  ASSUME NEW start \in Cells, NEW size \in 0 .. Capacity - 1
  PROVE  /\ WritableLength(start, size, Capacity) \in 1 .. Capacity
         /\ size + WritableLength(start, size, Capacity) <= Capacity
         /\ FirstWritable(start, size) + WritableLength(start, size, Capacity) <= Capacity
  <1>1. PICK first \in Cells : first = FirstWritable(start, size)
    BY FirstWritableCases, CapacityAssumption
  <1>2. /\ start + size < Capacity => first = start + size
        /\ start + size >= Capacity => first = start + size - Capacity
    BY <1>1, FirstWritableCases, CapacityAssumption
  <1>3. PICK last \in Int : last = LastWritable(start, size, Capacity)
    BY <1>1, CapacityAssumption DEF LastWritable, Cells
  <1>4. last = IF first < start THEN start - 1 ELSE Capacity - 1
    BY <1>1, <1>3, CapacityAssumption DEF LastWritable, Cells
  <1>5. WritableLength(start, size, Capacity) = last - first + 1
    BY <1>1, <1>3, CapacityAssumption DEF WritableLength
  <1>6. QED
    BY <1>1, <1>2, <1>4, <1>5, CapacityAssumption DEF Cells

\* What fits into a run of free cells fits if it is shorter.
LEMMA ShorterRun ==
  ASSUME NEW first \in Cells, NEW size \in 0 .. Capacity, NEW len \in 0 .. Capacity,
         NEW n \in Nat, n <= len, size + len <= Capacity, first + len <= Capacity
  PROVE  size + n <= Capacity /\ first + n <= Capacity /\ n \in 0 .. Capacity
BY CapacityAssumption DEF Cells

\* The j-th cell of a run that fits into the array is a cell.
LEMMA CellOfRun ==
  ASSUME NEW first \in Cells, NEW n \in Nat, first + n <= Capacity, NEW j \in 1 .. n
  PROVE  first + j - 1 \in Cells
BY CapacityAssumption DEF Cells

\* Taking from the front does not move the writable end.
LEMMA FirstWritableAfterDequeue ==
  ASSUME NEW start \in Cells, NEW size \in 1 .. Capacity
  PROVE  FirstWritable(NextStart(start), size - 1) = FirstWritable(start, size)
  <1>1. PICK next \in Cells : next = NextStart(start)
    BY NextStartCases
  <1>2. /\ size - 1 \in 0 .. Capacity
        /\ size \in 0 .. Capacity
    BY CapacityAssumption
  <1>3. /\ next + (size - 1) < Capacity
             => FirstWritable(next, size - 1) = next + (size - 1)
        /\ next + (size - 1) >= Capacity
             => FirstWritable(next, size - 1) = next + (size - 1) - Capacity
    BY <1>2, FirstWritableCases
  <1>4. /\ start + size < Capacity => FirstWritable(start, size) = start + size
        /\ start + size >= Capacity => FirstWritable(start, size) = start + size - Capacity
    BY <1>2, FirstWritableCases
  <1>5. /\ start + 1 < Capacity => next = start + 1
        /\ start + 1 = Capacity => next = 0
    BY <1>1, NextStartCases
  <1>6. QED
    BY <1>1, <1>3, <1>4, <1>5, CapacityAssumption DEF Cells

\* The k-th readable cell is where the k-th append went.
LEMMA ReadableCases ==
  ASSUME NEW start \in Cells, NEW k \in 0 .. Capacity
  PROVE  /\ ReadableCell(start, k) \in Cells
         /\ start + k < Capacity => ReadableCell(start, k) = start + k
         /\ start + k >= Capacity => ReadableCell(start, k) = start + k - Capacity
  <1>1. ReadableCell(start, k) = FirstWritable(start, k)
    BY DEF ReadableCell, FirstWritable
  <1>2. QED
    BY <1>1, FirstWritableCases

\* A region that fits into the free cells shares no cell with the readable
\* ones.
LEMMA RegionDisjoint ==
  ASSUME NEW start \in Cells, NEW size \in 0 .. Capacity, NEW len \in 0 .. Capacity,
         size + len <= Capacity,
         FirstWritable(start, size) + len <= Capacity,
         NEW k \in 0 .. size - 1, NEW j \in 0 .. len - 1
  PROVE  ReadableCell(start, k) # FirstWritable(start, size) + j
  <1>1. k \in 0 .. Capacity
    BY CapacityAssumption
  <1>2. PICK r \in Cells : r = ReadableCell(start, k)
    BY <1>1, ReadableCases
  <1>3. PICK f \in Cells : f = FirstWritable(start, size)
    BY FirstWritableCases
  <1>4. /\ start + k < Capacity => r = start + k
        /\ start + k >= Capacity => r = start + k - Capacity
    BY <1>1, <1>2, ReadableCases
  <1>5. /\ start + size < Capacity => f = start + size
        /\ start + size >= Capacity => f = start + size - Capacity
    BY <1>3, FirstWritableCases
  <1>6. f + len <= Capacity
    BY <1>3
  <1>7. r # f + j
    BY <1>4, <1>5, <1>6, CapacityAssumption DEF Cells
  <1>8. QED
    BY <1>2, <1>3, <1>7

\* Appended records become readable in the order of the region's cells.
LEMMA ReadableAfterAppend ==
  ASSUME NEW start \in Cells, NEW size \in 0 .. Capacity, NEW len \in 0 .. Capacity,
         size + len <= Capacity,
         FirstWritable(start, size) + len <= Capacity,
         NEW j \in 0 .. len - 1
  PROVE  ReadableCell(start, size + j) = FirstWritable(start, size) + j
  <1>1. PICK k \in 0 .. Capacity : k = size + j
    BY CapacityAssumption
  <1>2. PICK r \in Cells : r = ReadableCell(start, k)
    BY <1>1, ReadableCases
  <1>3. PICK f \in Cells : f = FirstWritable(start, size)
    BY FirstWritableCases
  <1>4. /\ start + k < Capacity => r = start + k
        /\ start + k >= Capacity => r = start + k - Capacity
    BY <1>2, ReadableCases
  <1>5. /\ start + size < Capacity => f = start + size
        /\ start + size >= Capacity => f = start + size - Capacity
    BY <1>3, FirstWritableCases
  <1>6. f + len <= Capacity
    BY <1>3
  <1>7. r = f + j
    BY <1>1, <1>4, <1>5, <1>6, CapacityAssumption DEF Cells
  <1>8. QED
    BY <1>1, <1>2, <1>3, <1>7

\* Taking the oldest record renumbers the others.
LEMMA ReadableAfterDequeue ==
  ASSUME NEW start \in Cells, NEW k \in 0 .. Capacity - 1
  PROVE  ReadableCell(NextStart(start), k) = ReadableCell(start, k + 1)
  <1>1. PICK next \in Cells : next = NextStart(start)
    BY NextStartCases
  <1>2. PICK k1 \in 0 .. Capacity : k1 = k + 1
    BY CapacityAssumption
  <1>3. k \in 0 .. Capacity
    BY CapacityAssumption
  <1>4. /\ start + 1 < Capacity => next = start + 1
        /\ start + 1 = Capacity => next = 0
    BY <1>1, NextStartCases
  <1>5. /\ next + k < Capacity => ReadableCell(next, k) = next + k
        /\ next + k >= Capacity => ReadableCell(next, k) = next + k - Capacity
    BY <1>3, ReadableCases
  <1>6. /\ start + k1 < Capacity => ReadableCell(start, k1) = start + k1
        /\ start + k1 >= Capacity => ReadableCell(start, k1) = start + k1 - Capacity
    BY ReadableCases
  <1>7. ReadableCell(next, k) = ReadableCell(start, k1)
    BY <1>2, <1>4, <1>5, <1>6, CapacityAssumption DEF Cells
  <1>8. QED
    BY <1>1, <1>2, <1>7

\* What poll() puts in the caller's array is an event with integer handles.
LEMMA RemapType ==
  ASSUME NEW s \in Subs, NEW e \in SubEvents
  PROVE  copy_event_remap_handle(e, s) \in OutEvents
  <1>1. \A f : get_global_handle(f) \in Int
    BY HandleMapAssumption DEF get_global_handle
  <1>2. e \in [type : {"NORMAL", "META_DATA"}, sensor : Int, inner : Int]
    <2>1. LocalHandles \subseteq Int
      BY LocalHandlesAssumption
    <2>2. CASE e \in NormalEvents
      BY <2>1, <2>2 DEF NormalEvents
    <2>3. CASE e \in MetaEvents
      BY <2>1, <2>3 DEF MetaEvents
    <2>4. QED
      BY <2>2, <2>3, SubEventsAssumption
  <1>3. QED
    BY <1>1, <1>2 DEF copy_event_remap_handle, OutEvents

-----------------------------------------------------------------------------
\* The queues start empty and nobody waits.
LEMMA InitIInv == Init => IInv
  <1> SUFFICES ASSUME Init PROVE IInv
    OBVIOUS
  <1>1. 0 \in Cells /\ 0 \in Subs /\ 0 \in 0 .. Capacity
    BY CapacityAssumption, QueueCountAssumption DEF Cells, Subs
  <1>2. << >> \in Seq(SubEvents) /\ << >> \in Seq(OutEvents)
    OBVIOUS
  <1>3. TypeOK
    BY <1>1, <1>2, QueueCountAssumption DEF Init, TypeOK
  <1>4. RegionInv /\ ContentInv /\ WaitInv /\ NoLostDataWakeup /\ NoLostSpaceWakeup
    BY <1>1 DEF Init, RegionInv, ContentInv, WaitInv, NoLostDataWakeup, NoLostSpaceWakeup
  <1>5. ScanInv
    BY DEF Init, ScanInv
  <1>6. QED
    BY <1>3, <1>4, <1>5 DEF IInv

\* waitForSpace() blocks a writer only on a full queue.
LEMMA WriterWaitForSpaceIInv ==
  ASSUME IInv, NEW s \in Subs, WriterWaitForSpace(s)
  PROVE  IInv'
  <1> USE DEF IInv, WriterWaitForSpace, queueVars, readerVars
  <1>1. TypeOK'
    BY DEF TypeOK
  <1>2. RegionInv' /\ ContentInv'
    BY DEF TypeOK, RegionInv, ContentInv
  <1>3. WaitInv' /\ ScanInv' /\ NoLostDataWakeup'
    BY DEF WaitInv, ScanInv, NoLostDataWakeup
  <1>4. NoLostSpaceWakeup'
    BY DEF TypeOK, NoLostSpaceWakeup
  <1>5. QED
    BY <1>1, <1>2, <1>3, <1>4

\* getWritableRegion() establishes RegionInv.
LEMMA WriterGetRegionIInv ==
  ASSUME IInv, NEW s \in Subs, WriterGetRegion(s)
  PROVE  IInv'
  <1> USE DEF IInv, WriterGetRegion, queueVars, readerVars
  <1>1. mStart[s] \in Cells /\ mSize[s] \in 0 .. Capacity - 1 /\ mSize[s] \in 0 .. Capacity
    BY CapacityAssumption DEF TypeOK
  <1>2. PICK f \in Cells : f = FirstWritable(mStart[s], mSize[s])
    BY <1>1, FirstWritableCases
  <1>3. PICK len \in 1 .. Capacity : len = WritableLength(mStart[s], mSize[s], Capacity)
    BY <1>1, WritableRegion
  <1>4. mSize[s] + len <= Capacity /\ f + len <= Capacity
    BY <1>1, <1>2, <1>3, WritableRegion
  <1>5. TypeOK'
    <2>1. len \in 0 .. Capacity
      BY <1>3
    <2>2. polled' \in [Subs -> Seq(SubEvents)]
      BY DEF TypeOK
    <2>3. wFirst' \in [Subs -> Cells] /\ wLen' \in [Subs -> 0 .. Capacity]
      BY <1>2, <1>3, <2>1 DEF TypeOK
    <2>4. QED
      BY <2>2, <2>3 DEF TypeOK
  <1>6. RegionInv'
    <2> SUFFICES ASSUME NEW t \in Subs, (wpc[t] \in {"poll", "mark"})'
                 PROVE  (/\ wFirst[t] = FirstWritable(mStart[t], mSize[t])
                         /\ mSize[t] + wLen[t] <= Capacity
                         /\ wFirst[t] + wLen[t] <= Capacity
                         /\ Len(polled[t]) <= wLen[t])'
      BY DEF RegionInv
    <2>1. CASE t = s
      <3>1. wFirst'[s] = f /\ wLen'[s] = len /\ polled'[s] = << >>
        BY <1>2, <1>3 DEF TypeOK
      <3>2. QED
        BY <2>1, <3>1, <1>2, <1>3, <1>4
    <2>2. CASE t # s
      BY <2>2 DEF TypeOK, RegionInv
    <2>3. QED
      BY <2>1, <2>2
  <1>7. ContentInv'
    BY DEF TypeOK, ContentInv
  <1>8. WaitInv' /\ ScanInv' /\ NoLostDataWakeup'
    BY DEF WaitInv, ScanInv, NoLostDataWakeup
  <1>9. NoLostSpaceWakeup'
    BY DEF TypeOK, NoLostSpaceWakeup
  <1>10. QED
    BY <1>5, <1>6, <1>7, <1>8, <1>9

\* A step of a writer that only moves its program counter among states in
\* which it neither waits nor has a new region.
LEMMA WriterMoveIInv ==
  ASSUME IInv, NEW s \in Subs,
         WriterSpuriousWake(s) \/ SubPollReturn(s) \/ SubPollFail(s)
  PROVE  IInv'
  <1> USE DEF IInv, queueVars, readerVars
  <1>1. CASE WriterSpuriousWake(s)
    BY <1>1 DEF WriterSpuriousWake, TypeOK, RegionInv, ContentInv, WaitInv, ScanInv,
                NoLostDataWakeup, NoLostSpaceWakeup
  <1>2. CASE SubPollReturn(s)
    BY <1>2 DEF SubPollReturn, TypeOK, RegionInv, ContentInv, WaitInv, ScanInv,
                NoLostDataWakeup, NoLostSpaceWakeup
  <1>3. CASE SubPollFail(s)
    <2>1. TypeOK'
      BY <1>3 DEF SubPollFail, TypeOK
    <2>2. RegionInv' /\ ContentInv'
      BY <1>3 DEF SubPollFail, TypeOK, RegionInv, ContentInv
    <2>3. WaitInv' /\ ScanInv' /\ NoLostDataWakeup'
      BY <1>3 DEF SubPollFail, WaitInv, ScanInv, NoLostDataWakeup
    <2>4. NoLostSpaceWakeup'
      BY <1>3 DEF SubPollFail, TypeOK, NoLostSpaceWakeup
    <2>5. QED
      BY <2>1, <2>2, <2>3, <2>4
  <1>4. QED
    BY <1>1, <1>2, <1>3

\* A sub-HAL stores an event in the next cell of its region: no readable
\* cell changes.
LEMMA SubPollStoreIInv ==
  ASSUME IInv, NEW s \in Subs, NEW e \in SubEvents, SubPollStore(s, e)
  PROVE  IInv'
  <1> USE DEF IInv, SubPollStore, readerVars
  <1>1. /\ mStart[s] \in Cells /\ mSize[s] \in 0 .. Capacity
        /\ wFirst[s] \in Cells /\ wLen[s] \in 0 .. Capacity
        /\ polled[s] \in Seq(SubEvents) /\ mData[s] \in [Cells -> SubEvents \cup {Uninit}]
    BY DEF TypeOK
  <1>2. PICK n \in Nat : n = Len(polled[s])
    BY <1>1
  <1>3. /\ wFirst[s] = FirstWritable(mStart[s], mSize[s])
        /\ mSize[s] + wLen[s] <= Capacity
        /\ wFirst[s] + wLen[s] <= Capacity
        /\ n < wLen[s]
    BY <1>2 DEF RegionInv
  <1>4. PICK c \in Cells : c = wFirst[s] + n
    BY <1>1, <1>2, <1>3, CapacityAssumption DEF Cells
  <1>5. /\ mData' = [mData EXCEPT ![s] = [mData[s] EXCEPT ![c] = e]]
        /\ mData'[s] = [mData[s] EXCEPT ![c] = e]
        /\ \A t \in Subs : t # s => mData'[t] = mData[t]
    BY <1>2, <1>4 DEF TypeOK
  <1>6. polled'[s] = Append(polled[s], e) /\ \A t \in Subs : t # s => polled'[t] = polled[t]
    BY DEF TypeOK
  <1>7. TypeOK'
    <2>1. polled' \in [Subs -> Seq(SubEvents)]
      BY <1>1 DEF TypeOK
    <2>2. mData' \in [Subs -> [Cells -> SubEvents \cup {Uninit}]]
      <3>1. [mData[s] EXCEPT ![c] = e] \in [Cells -> SubEvents \cup {Uninit}]
        BY <1>1, <1>4
      <3>2. mData \in [Subs -> [Cells -> SubEvents \cup {Uninit}]]
        BY DEF TypeOK
      <3>3. QED
        BY <1>5, <3>1, <3>2
    <2>3. QED
      BY <2>1, <2>2 DEF TypeOK
  <1>8. RegionInv'
    <2>1. Len(polled'[s]) = n + 1
      BY <1>1, <1>2, <1>6
    <2>2. QED
      BY <1>1, <1>2, <1>3, <1>6, <2>1 DEF RegionInv
  <1>9. ContentInv'
    <2> SUFFICES ASSUME NEW t \in Subs
                 PROVE  (/\ \A k \in 0 .. mSize[t] - 1 :
                               mData[t][ReadableCell(mStart[t], k)] \in SubEvents
                         /\ wpc[t] \in {"poll", "mark"} =>
                              \A j \in 1 .. Len(polled[t]) :
                                mData[t][wFirst[t] + j - 1] = polled[t][j])'
      BY DEF ContentInv
    <2>1. CASE t # s
      BY <2>1, <1>5, <1>6 DEF ContentInv
    <2>2. CASE t = s
      <3>1. ASSUME NEW k \in 0 .. mSize[s] - 1
            PROVE  mData'[s][ReadableCell(mStart[s], k)] \in SubEvents
        <4>1. ReadableCell(mStart[s], k) \in Cells
          <5>1. k \in 0 .. Capacity
            BY <1>1, CapacityAssumption
          <5>2. QED
            BY <1>1, <5>1, ReadableCases
        <4>2. n \in 0 .. wLen[s] - 1
          BY <1>1, <1>2, <1>3
        <4>3. ReadableCell(mStart[s], k) # c
          BY <1>1, <1>3, <1>4, <4>2, RegionDisjoint
        <4>4. mData[s][ReadableCell(mStart[s], k)] \in SubEvents
          BY DEF ContentInv
        <4>5. QED
          BY <1>1, <1>5, <4>1, <4>3, <4>4
      <3>2. ASSUME NEW j \in 1 .. Len(polled'[s])
            PROVE  mData'[s][wFirst[s] + j - 1] = polled'[s][j]
        <4>1. j \in 1 .. n + 1
          BY <1>1, <1>2, <1>6
        <4>2. CASE j = n + 1
          <5>1. wFirst[s] + j - 1 = c
            BY <1>1, <1>2, <1>4, <4>2 DEF Cells
          <5>2. polled'[s][j] = e
            BY <1>1, <1>2, <1>6, <4>2
          <5>3. QED
            BY <1>1, <1>5, <5>1, <5>2
        <4>3. CASE j \in 1 .. n
          <5>1. PICK d \in Cells : d = wFirst[s] + j - 1
            <6>1. wFirst[s] + n <= Capacity
              BY <1>1, <1>2, <1>3, ShorterRun
            <6>2. wFirst[s] + j - 1 \in Cells
              BY <1>1, <1>2, <4>3, <6>1, CellOfRun
            <6>3. QED
              BY <6>2
          <5>2. d # c
            BY <1>1, <1>2, <1>4, <5>1, <4>3 DEF Cells
          <5>3. mData[s][d] = polled[s][j]
            BY <1>2, <4>3, <5>1 DEF ContentInv
          <5>4. polled'[s][j] = polled[s][j]
            BY <1>1, <1>2, <1>6, <4>3
          <5>5. QED
            BY <1>1, <1>5, <5>1, <5>2, <5>3, <5>4
        <4>4. QED
          BY <1>2, <4>1, <4>2, <4>3
      <3>3. QED
        BY <2>2, <3>1, <3>2
    <2>3. QED
      BY <2>1, <2>2
  <1>10. WaitInv' /\ ScanInv' /\ NoLostDataWakeup' /\ NoLostSpaceWakeup'
    BY DEF WaitInv, ScanInv, NoLostDataWakeup, NoLostSpaceWakeup
  <1>11. QED
    BY <1>7, <1>8, <1>9, <1>10

\* markAsWritten() makes the stored cells readable, and wakes poll().
LEMMA WriterMarkIInv ==
  ASSUME IInv, NEW s \in Subs, WriterMark(s)
  PROVE  IInv'
  <1> USE DEF IInv, WriterMark
  <1>1. /\ mStart[s] \in Cells /\ mSize[s] \in 0 .. Capacity
        /\ wFirst[s] \in Cells /\ wLen[s] \in 0 .. Capacity
        /\ polled[s] \in Seq(SubEvents)
    BY DEF TypeOK
  <1>2. PICK n \in Nat : n = Len(polled[s])
    BY <1>1
  <1>3. /\ wFirst[s] = FirstWritable(mStart[s], mSize[s])
        /\ mSize[s] + n <= Capacity
        /\ wFirst[s] + n <= Capacity
        /\ n \in 0 .. Capacity
    <2>1. /\ wFirst[s] = FirstWritable(mStart[s], mSize[s])
          /\ mSize[s] + wLen[s] <= Capacity
          /\ wFirst[s] + wLen[s] <= Capacity
          /\ n <= wLen[s]
      BY <1>2 DEF RegionInv
    <2>2. QED
      BY <1>1, <1>2, <2>1, ShorterRun
  <1>4. mSize'[s] = mSize[s] + n /\ \A t \in Subs : t # s => mSize'[t] = mSize[t]
    BY <1>2 DEF TypeOK
  <1>5. TypeOK'
    <2>1. mSize[s] + n \in 0 .. Capacity
      BY <1>1, <1>2, <1>3, CapacityAssumption
    <2>2. mSize' \in [Subs -> 0 .. Capacity]
      BY <1>2, <2>1 DEF TypeOK
    <2>3. QED
      BY <2>2 DEF TypeOK
  <1>6. RegionInv'
    BY <1>4 DEF TypeOK, RegionInv
  <1>7. ContentInv'
    <2> SUFFICES ASSUME NEW t \in Subs
                 PROVE  (/\ \A k \in 0 .. mSize[t] - 1 :
                               mData[t][ReadableCell(mStart[t], k)] \in SubEvents
                         /\ wpc[t] \in {"poll", "mark"} =>
                              \A j \in 1 .. Len(polled[t]) :
                                mData[t][wFirst[t] + j - 1] = polled[t][j])'
      BY DEF ContentInv
    <2>1. CASE t # s
      BY <2>1, <1>4 DEF ContentInv, TypeOK
    <2>2. CASE t = s
      <3>1. ASSUME NEW k \in 0 .. (mSize[s] + n) - 1
            PROVE  mData[s][ReadableCell(mStart[s], k)] \in SubEvents
        <4>1. CASE k \in 0 .. mSize[s] - 1
          BY <4>1 DEF ContentInv
        <4>2. CASE k \notin 0 .. mSize[s] - 1
          <5> DEFINE j == k - mSize[s]
          <5>1. j \in 0 .. n - 1 /\ k = mSize[s] + j
            BY <1>1, <1>2, <4>2
          <5> HIDE DEF j
          <5>2. ReadableCell(mStart[s], k) = wFirst[s] + j
            BY <1>1, <1>3, <5>1, ReadableAfterAppend
          <5>3. PICK i \in 1 .. n : i = j + 1
            BY <1>2, <5>1
          <5>4. mData[s][wFirst[s] + i - 1] = polled[s][i]
            BY <1>2, <5>3 DEF ContentInv
          <5>5. wFirst[s] + i - 1 = wFirst[s] + j
            BY <1>1, <5>1, <5>3 DEF Cells
          <5>6. polled[s][i] \in SubEvents
            BY <1>1, <1>2, <5>3
          <5>7. QED
            BY <5>2, <5>4, <5>5, <5>6
        <4>3. QED
          BY <4>1, <4>2
      <3>2. wpc'[s] = "lock"
        BY DEF TypeOK
      <3>3. QED
        BY <2>2, <1>4, <3>1, <3>2
    <2>3. QED
      BY <2>1, <2>2
  <1>8. WaitInv'
    BY DEF WaitInv, TypeOK
  <1>9. ScanInv'
    BY DEF WaitInv, ScanInv, TypeOK
  <1>10. NoLostDataWakeup'
    BY DEF WaitInv, NoLostDataWakeup
  <1>11. NoLostSpaceWakeup'
    <2> SUFFICES ASSUME NEW t \in Subs, wpc'[t] = "cond"
                 PROVE  mSize'[t] = Capacity
      BY DEF NoLostSpaceWakeup
    <2>1. t # s /\ wpc[t] = "cond"
      BY DEF TypeOK
    <2>2. QED
      BY <1>4, <2>1 DEF NoLostSpaceWakeup
  <1>12. QED
    BY <1>5, <1>6, <1>7, <1>8, <1>9, <1>10, <1>11

-----------------------------------------------------------------------------
\* The turn of the queues without the remainder.
LEMMA TurnCases ==
  ASSUME NEW i \in Subs
  PROVE  /\ (i + 1) % QueueCount \in Subs
         /\ i + 1 < QueueCount => (i + 1) % QueueCount = i + 1
         /\ i + 1 = QueueCount => (i + 1) % QueueCount = 0
  <1>1. PICK x \in 0 .. 2 * QueueCount - 1 : x = i + 1
    BY QueueCountAssumption DEF Subs
  <1>2. /\ x % QueueCount \in 0 .. QueueCount - 1
        /\ x < QueueCount => x % QueueCount = x
        /\ x = QueueCount => x % QueueCount = 0
    BY QueueCountAssumption
  <1>3. QED
    BY <1>1, <1>2, QueueCountAssumption DEF Subs

\* The queue examined i steps ago.
LEMMA ExaminedCases ==
  ASSUME NEW next \in Subs, NEW i \in 1 .. QueueCount
  PROVE  /\ (next + QueueCount - i) % QueueCount \in Subs
         /\ i <= next => (next + QueueCount - i) % QueueCount = next - i
         /\ i > next => (next + QueueCount - i) % QueueCount = next + QueueCount - i
  <1>1. PICK x \in 0 .. 2 * QueueCount - 1 : x = next + QueueCount - i
    BY QueueCountAssumption DEF Subs
  <1>2. /\ x % QueueCount \in 0 .. QueueCount - 1
        /\ x < QueueCount => x % QueueCount = x
        /\ x >= QueueCount => x % QueueCount = x - QueueCount
    BY QueueCountAssumption
  <1>3. QED
    BY <1>1, <1>2, QueueCountAssumption DEF Subs

\* After QueueCount empty queues in a row, every queue has been examined.
LEMMA AllExamined ==
  ASSUME NEW next \in Subs, NEW s \in Subs
  PROVE  \E i \in 1 .. QueueCount : (next + QueueCount - i) % QueueCount = s
  <1>1. CASE s < next
    <2>1. PICK i \in 1 .. QueueCount : i = next - s
      BY <1>1, QueueCountAssumption DEF Subs
    <2>2. i <= next /\ next - i = s
      BY <2>1 DEF Subs
    <2>3. QED
      BY <2>2, ExaminedCases
  <1>2. CASE s >= next
    <2>1. PICK i \in 1 .. QueueCount : i = next + QueueCount - s
      BY <1>2, QueueCountAssumption DEF Subs
    <2>2. i > next /\ next + QueueCount - i = s
      BY <2>1, QueueCountAssumption DEF Subs
    <2>3. QED
      BY <2>2, ExaminedCases
  <1>3. QED
    BY <1>1, <1>2 DEF Subs

\* poll() begins its scan.
LEMMA PollEnterIInv ==
  ASSUME IInv, NEW n \in MaxReads, PollEnter(n)
  PROVE  IInv'
  <1> USE DEF IInv, PollEnter, queueVars, writerVars
  <1>1. TypeOK'
    BY QueueCountAssumption DEF TypeOK
  <1>2. RegionInv' /\ ContentInv'
    BY DEF RegionInv, ContentInv
  <1>3. WaitInv' /\ ScanInv' /\ NoLostDataWakeup' /\ NoLostSpaceWakeup'
    BY DEF WaitInv, ScanInv, NoLostDataWakeup, NoLostSpaceWakeup
  <1>4. QED
    BY <1>1, <1>2, <1>3

\* One more empty queue is counted.
LEMMA ScanEmptyIInv ==
  ASSUME IInv, ScanEmpty
  PROVE  IInv'
  <1> USE DEF IInv, ScanEmpty, Scanning, queueVars, writerVars
  <1>1. nextReadIndex \in Subs /\ empties \in 0 .. QueueCount /\ mSize \in [Subs -> 0 .. Capacity]
    BY DEF TypeOK
  <1>2. PICK next \in Subs : next = nextReadIndex'
    BY <1>1, TurnCases
  <1>3. TypeOK'
    <2>1. empties' \in 0 .. QueueCount
      BY <1>1, QueueCountAssumption
    <2>2. QED
      BY <1>2, <2>1 DEF TypeOK
  <1>4. RegionInv' /\ ContentInv'
    BY DEF RegionInv, ContentInv
  <1>5. WaitInv' /\ NoLostDataWakeup' /\ NoLostSpaceWakeup'
    BY DEF WaitInv, NoLostDataWakeup, NoLostSpaceWakeup
  <1>6. ScanInv'
    <2> SUFFICES ASSUME NEW i \in 1 .. empties + 1
                 PROVE  mSize[(next + QueueCount - i) % QueueCount] = 0
      BY <1>2 DEF ScanInv
    <2>1. i \in 1 .. QueueCount
      BY <1>1, QueueCountAssumption
    <2>2. /\ nextReadIndex + 1 < QueueCount => next = nextReadIndex + 1
          /\ nextReadIndex + 1 = QueueCount => next = 0
      BY <1>1, <1>2, TurnCases
    <2>3. CASE i = 1
      <3>1. (next + QueueCount - i) % QueueCount = nextReadIndex
        BY <1>1, <2>1, <2>2, <2>3, ExaminedCases, QueueCountAssumption, SMTT(30) DEF Subs
      <3>2. QED
        BY <3>1
    <2>4. CASE i # 1
      <3>1. PICK h \in 1 .. empties : h = i - 1
        BY <1>1, <2>4
      <3>2. h \in 1 .. QueueCount
        BY <1>1, <3>1, QueueCountAssumption
      <3>3. (next + QueueCount - i) % QueueCount = (nextReadIndex + QueueCount - h) % QueueCount
        <4>1. /\ i <= next => (next + QueueCount - i) % QueueCount = next - i
              /\ i > next => (next + QueueCount - i) % QueueCount = next + QueueCount - i
          BY <2>1, ExaminedCases
        <4>2. /\ h <= nextReadIndex
                   => (nextReadIndex + QueueCount - h) % QueueCount = nextReadIndex - h
              /\ h > nextReadIndex
                   => (nextReadIndex + QueueCount - h) % QueueCount = nextReadIndex + QueueCount - h
          BY <1>1, <3>2, ExaminedCases
        <4>3. /\ i \in Int /\ h \in Int /\ next \in Int /\ nextReadIndex \in Int
              /\ h = i - 1 /\ 1 <= h /\ h <= QueueCount - 1 /\ 0 <= next /\ 0 <= nextReadIndex
              /\ nextReadIndex + 1 <= QueueCount
          BY <1>1, <2>1, <3>1, QueueCountAssumption DEF Subs
        <4>4. CASE nextReadIndex + 1 < QueueCount
          BY <2>2, <4>1, <4>2, <4>3, <4>4, QueueCountAssumption
        <4>5. CASE nextReadIndex + 1 = QueueCount
          BY <2>2, <4>1, <4>2, <4>3, <4>5, QueueCountAssumption
        <4>6. QED
          BY <4>3, <4>4, <4>5, QueueCountAssumption
      <3>4. mSize[(nextReadIndex + QueueCount - h) % QueueCount] = 0
        BY <3>1 DEF ScanInv
      <3>5. QED
        BY <3>3, <3>4
    <2>5. QED
      BY <2>3, <2>4
  <1>7. QED
    BY <1>3, <1>4, <1>5, <1>6

\* poll() takes the oldest event of a queue and, if it was full, wakes its
\* writer.
LEMMA ScanTakeIInv ==
  ASSUME IInv, ScanTake
  PROVE  IInv'
  <1> DEFINE s == nextReadIndex
  <1> USE DEF IInv, ScanTake, Scanning, Dequeue
  <1>1. /\ s \in Subs /\ mStart[s] \in Cells /\ mSize[s] \in 1 .. Capacity
        /\ mSize[s] \in 0 .. Capacity
    BY CapacityAssumption DEF TypeOK
  <1>2. /\ mSize'[s] = mSize[s] - 1 /\ mStart'[s] = NextStart(mStart[s])
        /\ \A t \in Subs : t # s => mSize'[t] = mSize[t] /\ mStart'[t] = mStart[t]
    BY <1>1 DEF TypeOK
  <1>3. \A t \in Subs : /\ wpc'[t] \in {"poll", "mark"} <=> wpc[t] \in {"poll", "mark"}
                        /\ wpc'[t] = "cond" => wpc[t] = "cond"
                        /\ t # s => wpc'[t] = wpc[t]
    BY <1>1 DEF TypeOK
  <1>4. TypeOK'
    <2>1. mSize' \in [Subs -> 0 .. Capacity]
      <3>1. mSize[s] - 1 \in 0 .. Capacity
        BY <1>1, CapacityAssumption
      <3>2. QED
        BY <3>1 DEF TypeOK
    <2>2. mStart' \in [Subs -> Cells]
      <3>1. NextStart(mStart[s]) \in Cells
        BY <1>1, NextStartCases
      <3>2. QED
        BY <3>1 DEF TypeOK
    <2>3. nextReadIndex' \in Subs
      BY <1>1, TurnCases
    <2>4. data' \in Seq(OutEvents)
      <3>1. ReadableCell(mStart[s], 0) = mStart[s]
        <4>1. 0 \in 0 .. Capacity
          BY CapacityAssumption
        <4>2. mStart[s] + 0 = mStart[s] /\ mStart[s] < Capacity
          BY <1>1, CapacityAssumption DEF Cells
        <4>3. QED
          BY <1>1, <4>1, <4>2, ReadableCases
      <3>2. 0 \in 0 .. mSize[s] - 1
        BY <1>1
      <3>3. mData[s][mStart[s]] \in SubEvents
        BY <1>1, <3>1, <3>2 DEF ContentInv
      <3>4. PICK out \in OutEvents : out = copy_event_remap_handle(mData[s][mStart[s]], s)
        BY <1>1, <3>3, RemapType
      <3>5. data' = Deliver(out)
        BY <3>4
      <3>6. data \in Seq(OutEvents)
        BY DEF TypeOK
      <3>7. QED
        BY <3>4, <3>5, <3>6 DEF Deliver
    <2>5. wpc' \in [Subs -> {"lock", "cond", "woken", "poll", "mark"}]
      BY DEF TypeOK
    <2>6. empties' \in 0 .. QueueCount
      BY QueueCountAssumption
    <2>7. QED
      BY <2>1, <2>2, <2>3, <2>4, <2>5, <2>6 DEF TypeOK
  <1>5. RegionInv'
    <2> SUFFICES ASSUME NEW t \in Subs, wpc'[t] \in {"poll", "mark"}
                 PROVE  (/\ wFirst[t] = FirstWritable(mStart[t], mSize[t])
                         /\ mSize[t] + wLen[t] <= Capacity
                         /\ wFirst[t] + wLen[t] <= Capacity
                         /\ Len(polled[t]) <= wLen[t])'
      BY DEF RegionInv
    <2>1. /\ wFirst[t] = FirstWritable(mStart[t], mSize[t])
          /\ mSize[t] + wLen[t] <= Capacity
          /\ wFirst[t] + wLen[t] <= Capacity
          /\ Len(polled[t]) <= wLen[t]
      BY <1>3 DEF RegionInv
    <2>2. CASE t = s
      <3>1. FirstWritable(NextStart(mStart[s]), mSize[s] - 1) = FirstWritable(mStart[s], mSize[s])
        BY <1>1, FirstWritableAfterDequeue
      <3>2. wLen[t] \in 0 .. Capacity
        BY DEF TypeOK
      <3>3. mSize[s] - 1 + wLen[s] <= Capacity
        BY <1>1, <2>1, <2>2, <3>2, CapacityAssumption
      <3>4. QED
        BY <1>2, <2>1, <2>2, <3>1, <3>3
    <2>3. CASE t # s
      BY <1>2, <2>1, <2>3
    <2>4. QED
      BY <2>2, <2>3
  <1>6. ContentInv'
    <2> SUFFICES ASSUME NEW t \in Subs
                 PROVE  (/\ \A k \in 0 .. mSize[t] - 1 :
                               mData[t][ReadableCell(mStart[t], k)] \in SubEvents
                         /\ wpc[t] \in {"poll", "mark"} =>
                              \A j \in 1 .. Len(polled[t]) :
                                mData[t][wFirst[t] + j - 1] = polled[t][j])'
      BY DEF ContentInv
    <2>1. wpc'[t] \in {"poll", "mark"} =>
            \A j \in 1 .. Len(polled[t]) : mData[t][wFirst[t] + j - 1] = polled[t][j]
      BY <1>3 DEF ContentInv
    <2>2. CASE t = s
      <3>1. ASSUME NEW k \in 0 .. (mSize[s] - 1) - 1
            PROVE  mData[s][ReadableCell(NextStart(mStart[s]), k)] \in SubEvents
        <4>1. k \in 0 .. Capacity - 1 /\ k + 1 \in 0 .. mSize[s] - 1
          BY <1>1, CapacityAssumption
        <4>2. ReadableCell(NextStart(mStart[s]), k) = ReadableCell(mStart[s], k + 1)
          BY <1>1, <4>1, ReadableAfterDequeue
        <4>3. QED
          BY <1>1, <4>1, <4>2 DEF ContentInv
      <3>2. QED
        BY <1>2, <2>1, <2>2, <3>1
    <2>3. CASE t # s
      BY <1>2, <2>1, <2>3 DEF ContentInv
    <2>4. QED
      BY <2>2, <2>3
  <1>7. WaitInv' /\ NoLostDataWakeup'
    BY DEF WaitInv, NoLostDataWakeup
  <1>8. ScanInv'
    BY DEF ScanInv
  <1>9. NoLostSpaceWakeup'
    <2> SUFFICES ASSUME NEW t \in Subs, wpc'[t] = "cond"
                 PROVE  mSize'[t] = Capacity
      BY DEF NoLostSpaceWakeup
    <2>1. wpc[t] = "cond" /\ mSize[t] = Capacity
      BY <1>3 DEF NoLostSpaceWakeup
    <2>2. t # s
      BY <2>1 DEF TypeOK
    <2>3. QED
      BY <1>2, <2>1, <2>2
  <1>10. QED
    BY <1>4, <1>5, <1>6, <1>7, <1>8, <1>9

\* poll() waits only after it has found every queue empty.
LEMMA PollWaitIInv ==
  ASSUME IInv, PollWait
  PROVE  IInv'
  <1> USE DEF IInv, PollWait, queueVars, writerVars
  <1>1. TypeOK'
    BY DEF TypeOK
  <1>2. RegionInv' /\ ContentInv'
    BY DEF RegionInv, ContentInv
  <1>3. WaitInv' /\ ScanInv' /\ NoLostSpaceWakeup'
    BY DEF WaitInv, ScanInv, NoLostSpaceWakeup
  <1>4. NoLostDataWakeup'
    <2>1. empties = QueueCount
      BY QueueCountAssumption, MaxReadsAssumption DEF Scanning, ScanInv, TypeOK
    <2>2. ASSUME NEW s \in Subs
          PROVE  mSize[s] = 0
      <3>1. PICK i \in 1 .. QueueCount : (nextReadIndex + QueueCount - i) % QueueCount = s
        BY AllExamined DEF TypeOK
      <3>2. QED
        BY <2>1, <3>1 DEF ScanInv
    <2>3. QED
      BY <2>2 DEF NoLostDataWakeup
  <1>5. QED
    BY <1>1, <1>2, <1>3, <1>4

\* The other steps of poll() change neither a queue nor who waits for space.
LEMMA PollMoveIInv ==
  ASSUME IInv, PollSpuriousWake \/ PollResume \/ PollReturn
  PROVE  IInv'
  <1> USE DEF IInv, queueVars, writerVars
  <1>1. CASE PollSpuriousWake
    BY <1>1 DEF PollSpuriousWake, TypeOK, RegionInv, ContentInv, WaitInv, ScanInv,
                NoLostDataWakeup, NoLostSpaceWakeup
  <1>2. CASE PollResume
    <2>1. TypeOK'
      <3>1. empties' \in 0 .. QueueCount
        BY <1>2, QueueCountAssumption DEF PollResume
      <3>2. lockedByReader' \in BOOLEAN /\ waiting_for_data' \in BOOLEAN
        BY <1>2 DEF PollResume
      <3>3. QED
        BY <1>2, <3>1, <3>2 DEF PollResume, TypeOK
    <2>2. RegionInv' /\ ContentInv'
      BY <1>2 DEF PollResume, RegionInv, ContentInv
    <2>3. WaitInv' /\ ScanInv' /\ NoLostDataWakeup' /\ NoLostSpaceWakeup'
      BY <1>2 DEF PollResume, WaitInv, ScanInv, NoLostDataWakeup, NoLostSpaceWakeup
    <2>4. QED
      BY <2>1, <2>2, <2>3
  <1>3. CASE PollReturn
    BY <1>3 DEF PollReturn, TypeOK, RegionInv, ContentInv, WaitInv, ScanInv,
                NoLostDataWakeup, NoLostSpaceWakeup
  <1>4. QED
    BY <1>1, <1>2, <1>3

\* A stuttering step.
LEMMA StutterIInv ==
  ASSUME IInv, UNCHANGED vars
  PROVE  IInv'
BY DEF IInv, vars, queueVars, writerVars, readerVars, TypeOK, RegionInv, ContentInv, WaitInv,
       ScanInv, NoLostDataWakeup, NoLostSpaceWakeup

-----------------------------------------------------------------------------
\* The inductive invariant of the queues, the writers and poll().
THEOREM Inductive == Spec => []IInv
  <1>1. Init => IInv
    BY InitIInv
  <1>2. IInv /\ [Next]_vars => IInv'
    <2> SUFFICES ASSUME IInv, [Next]_vars PROVE IInv'
      OBVIOUS
    <2>1. CASE \E s \in Subs : Writer(s)
      <3>1. PICK s \in Subs : Writer(s)
        BY <2>1
      <3>2. CASE WriterWaitForSpace(s)
        BY <3>2, WriterWaitForSpaceIInv
      <3>3. CASE WriterGetRegion(s)
        BY <3>3, WriterGetRegionIInv
      <3>4. CASE WriterSpuriousWake(s) \/ SubPollReturn(s) \/ SubPollFail(s)
        BY <3>4, WriterMoveIInv
      <3>5. CASE \E e \in SubEvents : SubPollStore(s, e)
        BY <3>5, SubPollStoreIInv
      <3>6. CASE WriterMark(s)
        BY <3>6, WriterMarkIInv
      <3>7. QED
        BY <3>1, <3>2, <3>3, <3>4, <3>5, <3>6 DEF Writer
    <2>2. CASE Reader
      <3>1. CASE \E n \in MaxReads : PollEnter(n)
        BY <3>1, PollEnterIInv
      <3>2. CASE ScanEmpty
        BY <3>2, ScanEmptyIInv
      <3>3. CASE ScanTake
        BY <3>3, ScanTakeIInv
      <3>4. CASE PollWait
        BY <3>4, PollWaitIInv
      <3>5. CASE PollSpuriousWake \/ PollResume \/ PollReturn
        BY <3>5, PollMoveIInv
      <3>6. QED
        BY <2>2, <3>1, <3>2, <3>3, <3>4, <3>5 DEF Reader
    <2>3. CASE UNCHANGED vars
      BY <2>3, StutterIInv
    <2>4. QED
      BY <2>1, <2>2, <2>3 DEF Next
  <1>3. QED
    BY <1>1, <1>2, PTL DEF Spec

\* The state stays well typed, whatever the interleaving; in particular no
\* cell that poll() copies was never written.
THEOREM TypeCorrect == Spec => []TypeOK
  <1>1. IInv => TypeOK
    BY DEF IInv
  <1>2. QED
    BY <1>1, Inductive, PTL

\* What a sub-HAL may be writing outside queue_mutex lies in the array, and
\* poll() never copies a cell of it, for every capacity and number of sub-HALs.
THEOREM NoTornRead == Spec => []RegionNotReadable
  <1>1. IInv => RegionNotReadable
    <2> SUFFICES ASSUME IInv, NEW s \in Subs, wpc[s] \in {"poll", "mark"}
                 PROVE  /\ wFirst[s] + wLen[s] <= Capacity
                        /\ \A k \in 0 .. mSize[s] - 1, j \in 0 .. wLen[s] - 1 :
                             ReadableCell(mStart[s], k) # wFirst[s] + j
      BY DEF RegionNotReadable
    <2>1. /\ mStart[s] \in Cells /\ mSize[s] \in 0 .. Capacity /\ wLen[s] \in 0 .. Capacity
          /\ wFirst[s] = FirstWritable(mStart[s], mSize[s])
          /\ mSize[s] + wLen[s] <= Capacity
          /\ wFirst[s] + wLen[s] <= Capacity
      BY DEF IInv, TypeOK, RegionInv
    <2>2. QED
      BY <2>1, RegionDisjoint
  <1>2. QED
    BY <1>1, Inductive, PTL

\* poll() misses no wakeup: it sits in data_available_cond, unsignalled, only
\* while every queue is empty.
THEOREM ReaderAlwaysWoken == Spec => []NoLostDataWakeup
  <1>1. IInv => NoLostDataWakeup
    BY DEF IInv
  <1>2. QED
    BY <1>1, Inductive, PTL

\* No writer misses a wakeup: it sits in mSpaceAvailableCondition, unsignalled,
\* only while its queue is full.
THEOREM WriterAlwaysWoken == Spec => []NoLostSpaceWakeup
  <1>1. IInv => NoLostSpaceWakeup
    BY DEF IInv
  <1>2. QED
    BY <1>1, Inductive, PTL
-----------------------------------------------------------------------------
(***************************************************************************)
(* The rings implement the streams of SensorStream.                         *)
(***************************************************************************)

\* Equal start, size and readable cells give equal contents.
LEMMA ContentsEqual ==
  ASSUME NEW start, NEW size \in Nat, NEW d, NEW e,
         \A k \in 0 .. size - 1 : d[ReadableCell(start, k)] = e[ReadableCell(start, k)]
  PROVE  Contents(start, size, d) = Contents(start, size, e)
  <1>1. \A k \in 1 .. size : k - 1 \in 0 .. size - 1
    OBVIOUS
  <1>2. QED
    BY <1>1 DEF Contents

\* The contents of a ring are a sequence.
LEMMA ContentsType ==
  ASSUME NEW start \in Cells, NEW size \in 0 .. Capacity, NEW d, NEW S,
         \A k \in 0 .. size - 1 : d[ReadableCell(start, k)] \in S
  PROVE  /\ Contents(start, size, d) \in Seq(S)
         /\ Len(Contents(start, size, d)) = size
         /\ \A i \in 1 .. size : Contents(start, size, d)[i] = d[ReadableCell(start, i - 1)]
  <1>1. size \in Nat
    BY CapacityAssumption
  <1>2. \A i \in 1 .. size : i - 1 \in 0 .. size - 1
    BY <1>1
  <1>3. Contents(start, size, d) \in [1 .. size -> S]
    BY <1>1, <1>2 DEF Contents
  <1>4. QED
    BY <1>1, <1>3 DEF Contents

\* markAsWritten() appends what the region holds.
LEMMA ContentsAppend ==
  ASSUME NEW start \in Cells, NEW size \in 0 .. Capacity, NEW d, NEW S, NEW p \in Seq(S),
         \A k \in 0 .. size - 1 : d[ReadableCell(start, k)] \in S,
         size + Len(p) <= Capacity,
         FirstWritable(start, size) + Len(p) <= Capacity,
         \A j \in 1 .. Len(p) : d[FirstWritable(start, size) + j - 1] = p[j]
  PROVE  Contents(start, size + Len(p), d) = Contents(start, size, d) \o p
  <1>1. PICK n \in Nat : n = Len(p)
    OBVIOUS
  <1>2. size \in Nat /\ n \in 0 .. Capacity /\ size + n \in 0 .. Capacity
    BY <1>1, CapacityAssumption
  <1>3. ASSUME NEW j \in 1 .. n
        PROVE  d[ReadableCell(start, size + (j - 1))] = p[j]
    <2>1. j - 1 \in 0 .. n - 1
      BY <1>1
    <2>2. ReadableCell(start, size + (j - 1)) = FirstWritable(start, size) + (j - 1)
      BY <1>1, <1>2, <2>1, ReadableAfterAppend
    <2>3. FirstWritable(start, size) \in Int
      BY FirstWritableCases, CapacityAssumption DEF Cells
    <2>4. FirstWritable(start, size) + (j - 1) = FirstWritable(start, size) + j - 1
      BY <2>3
    <2>5. QED
      BY <1>1, <2>2, <2>4
  <1>4. ASSUME NEW i \in 1 .. size + n
        PROVE  d[ReadableCell(start, i - 1)] = (Contents(start, size, d) \o p)[i]
    <2>1. /\ Contents(start, size, d) \in Seq(S)
          /\ Len(Contents(start, size, d)) = size
          /\ \A h \in 1 .. size : Contents(start, size, d)[h] = d[ReadableCell(start, h - 1)]
      BY ContentsType
    <2>2. CASE i <= size
      <3>1. i \in 1 .. size
        BY <1>2, <2>2
      <3>2. (Contents(start, size, d) \o p)[i] = Contents(start, size, d)[i]
        BY <1>1, <1>2, <2>1, <3>1
      <3>3. QED
        BY <2>1, <3>1, <3>2
    <2>3. CASE i > size
      <3>1. PICK j \in 1 .. n : j = i - size
        BY <1>2, <2>3
      <3>2. i - 1 = size + (j - 1)
        BY <1>2, <3>1
      <3>3. (Contents(start, size, d) \o p)[i] = p[i - size]
        BY <1>1, <1>2, <2>1, <2>3
      <3>4. QED
        BY <1>3, <3>1, <3>2, <3>3
    <2>4. i <= size \/ i > size
      BY <1>2
    <2>5. QED
      BY <2>2, <2>3, <2>4
  <1>5. Contents(start, size, d) \o p \in Seq(S) /\ Len(Contents(start, size, d) \o p) = size + n
    <2>1. Contents(start, size, d) \in Seq(S) /\ Len(Contents(start, size, d)) = size
      BY ContentsType
    <2>2. QED
      BY <1>1, <2>1, ConcatProperties
  <1>6. Contents(start, size, d) \o p = [i \in 1 .. size + n |-> (Contents(start, size, d) \o p)[i]]
    BY <1>5, LenProperties
  <1>7. QED
    BY <1>1, <1>4, <1>6 DEF Contents

\* dequeue() takes the oldest event.
LEMMA ContentsDequeue ==
  ASSUME NEW start \in Cells, NEW size \in 1 .. Capacity, NEW d, NEW S,
         \A k \in 0 .. size - 1 : d[ReadableCell(start, k)] \in S
  PROVE  /\ Contents(start, size, d) # << >>
         /\ Head(Contents(start, size, d)) = d[start]
         /\ Contents(NextStart(start), size - 1, d) = Tail(Contents(start, size, d))
  <1>1. size \in 0 .. Capacity /\ size \in Nat /\ 0 \in 0 .. Capacity
    BY CapacityAssumption
  <1>2. PICK c \in Seq(S) : c = Contents(start, size, d)
    BY <1>1, ContentsType
  <1>3. Len(c) = size /\ \A i \in 1 .. size : c[i] = d[ReadableCell(start, i - 1)]
    BY <1>1, <1>2, ContentsType
  <1>4. c # << >>
    BY <1>1, <1>3
  <1>5. Head(c) = d[start]
    <2>1. start + 0 = start /\ start < Capacity
      BY CapacityAssumption DEF Cells
    <2>2. ReadableCell(start, 0) = start
      BY <1>1, <2>1, ReadableCases
    <2>3. c[1] = d[ReadableCell(start, 0)]
      BY <1>1, <1>3
    <2>4. QED
      BY <1>4, <2>2, <2>3
  <1>6. Tail(c) \in Seq(S) /\ Len(Tail(c)) = size - 1 /\ \A i \in 1 .. size - 1 : Tail(c)[i] = c[i + 1]
    BY <1>1, <1>3, <1>4
  <1>7. ASSUME NEW i \in 1 .. size - 1
        PROVE  d[ReadableCell(NextStart(start), i - 1)] = Tail(c)[i]
    <2>1. i - 1 \in 0 .. Capacity - 1 /\ i + 1 \in 1 .. size /\ (i - 1) + 1 = (i + 1) - 1
      BY <1>1, CapacityAssumption
    <2>2. ReadableCell(NextStart(start), i - 1) = ReadableCell(start, (i - 1) + 1)
      BY <2>1, ReadableAfterDequeue
    <2>3. QED
      BY <1>3, <1>6, <2>1, <2>2
  <1>8. Tail(c) = [i \in 1 .. size - 1 |-> Tail(c)[i]]
    BY <1>6, LenProperties
  <1>9. Contents(NextStart(start), size - 1, d) = Tail(c)
    BY <1>7, <1>8 DEF Contents
  <1>10. QED
    BY <1>2, <1>4, <1>5, <1>9

-----------------------------------------------------------------------------
\* What a step that leaves the rings alone does to the streams.
LEMMA ChanUnchanged ==
  ASSUME UNCHANGED queueVars
  PROVE  UNCHANGED [s \in Subs |-> Contents(mStart[s], mSize[s], mData[s])]
BY DEF queueVars, Contents, ReadableCell

\* A store of the sub-HAL's poll() goes to a cell that is not readable.
LEMMA StoreRefines ==
  ASSUME IInv, NEW s \in Subs, NEW e \in SubEvents, SubPollStore(s, e)
  PROVE  Stream!Produce(s)
  <1> USE DEF IInv, SubPollStore, readerVars
  <1>1. /\ mStart[s] \in Cells /\ mSize[s] \in 0 .. Capacity /\ mSize[s] \in Nat
        /\ wFirst[s] \in Cells /\ wLen[s] \in 0 .. Capacity
        /\ polled[s] \in Seq(SubEvents)
    BY CapacityAssumption DEF TypeOK
  <1>2. PICK n \in Nat : n = Len(polled[s])
    BY <1>1
  <1>3. /\ wFirst[s] = FirstWritable(mStart[s], mSize[s])
        /\ mSize[s] + wLen[s] <= Capacity
        /\ wFirst[s] + wLen[s] <= Capacity
        /\ n \in 0 .. wLen[s] - 1
    BY <1>1, <1>2 DEF RegionInv
  <1>4. PICK c \in Cells : c = wFirst[s] + n
    BY <1>1, <1>2, <1>3, CapacityAssumption, SMTT(30) DEF Cells
  <1>5. /\ \A t \in Subs : t # s => mData'[t] = mData[t]
        /\ \A k \in Cells : k # c => mData'[s][k] = mData[s][k]
    BY <1>2, <1>4 DEF TypeOK
  <1>6. ASSUME NEW k \in 0 .. mSize[s] - 1
        PROVE  mData'[s][ReadableCell(mStart[s], k)] = mData[s][ReadableCell(mStart[s], k)]
    <2>1. k \in 0 .. Capacity
      BY <1>1, CapacityAssumption
    <2>2. ReadableCell(mStart[s], k) \in Cells
      BY <1>1, <2>1, ReadableCases
    <2>3. ReadableCell(mStart[s], k) # c
      BY <1>1, <1>3, <1>4, RegionDisjoint
    <2>4. QED
      BY <1>5, <2>2, <2>3
  <1>7. Contents(mStart[s], mSize[s], mData'[s]) = Contents(mStart[s], mSize[s], mData[s])
    BY <1>1, <1>6, ContentsEqual, ZenonT(30)
  <1>8. \A t \in Subs : Contents(mStart[t], mSize[t], mData'[t])
                         = Contents(mStart[t], mSize[t], mData[t])
    BY <1>5, <1>7
  <1>9. [t \in Subs |-> Contents(mStart[t], mSize[t], mData[t])]'
          = [t \in Subs |-> Contents(mStart[t], mSize[t], mData[t])]
    BY <1>8 DEF Contents, ReadableCell
  <1>10. QED
    BY <1>9 DEF Stream!Produce

\* markAsWritten() commits what the sub-HAL's poll() returned.
LEMMA MarkRefines ==
  ASSUME IInv, NEW s \in Subs, WriterMark(s)
  PROVE  Stream!Commit(s)
  <1> USE DEF IInv, WriterMark
  <1>1. /\ mStart[s] \in Cells /\ mSize[s] \in 0 .. Capacity
        /\ wFirst[s] \in Cells /\ wLen[s] \in 0 .. Capacity
        /\ polled[s] \in Seq(SubEvents) /\ Len(polled[s]) \in Nat
    BY DEF TypeOK
  <1>2. /\ wFirst[s] = FirstWritable(mStart[s], mSize[s])
        /\ mSize[s] + Len(polled[s]) <= Capacity
        /\ wFirst[s] + Len(polled[s]) <= Capacity
    BY <1>1, ShorterRun DEF RegionInv
  <1>3. /\ \A k \in 0 .. mSize[s] - 1 : mData[s][ReadableCell(mStart[s], k)] \in SubEvents
        /\ \A j \in 1 .. Len(polled[s]) : mData[s][wFirst[s] + j - 1] = polled[s][j]
    BY DEF ContentInv
  <1>4. Contents(mStart[s], mSize[s] + Len(polled[s]), mData[s])
          = Contents(mStart[s], mSize[s], mData[s]) \o polled[s]
    <2> HIDE DEF IInv, WriterMark
    <2> DEFINE start == mStart[s] size == mSize[s] p == polled[s] d == mData[s]
    <2>1. /\ start \in Cells /\ size \in 0 .. Capacity /\ p \in Seq(SubEvents)
          /\ \A k \in 0 .. size - 1 : d[ReadableCell(start, k)] \in SubEvents
          /\ size + Len(p) <= Capacity
          /\ FirstWritable(start, size) + Len(p) <= Capacity
          /\ \A j \in 1 .. Len(p) : d[FirstWritable(start, size) + j - 1] = p[j]
      BY <1>1, <1>2, <1>3
    <2> HIDE DEF start, size, p, d
    <2>2. Contents(start, size + Len(p), d) = Contents(start, size, d) \o p
      BY <2>1, ContentsAppend
    <2>3. QED
      BY <2>2 DEF start, size, p, d
  <1>5. /\ mSize'[s] = mSize[s] + Len(polled[s])
        /\ \A t \in Subs : t # s => mSize'[t] = mSize[t]
    BY DEF TypeOK
  <1>6. /\ Contents(mStart[s], mSize'[s], mData[s])
             = Contents(mStart[s], mSize[s], mData[s]) \o polled[s]
        /\ \A t \in Subs : t # s => Contents(mStart[t], mSize'[t], mData[t])
                                      = Contents(mStart[t], mSize[t], mData[t])
    BY <1>4, <1>5
  <1>7. [t \in Subs |-> Contents(mStart[t], mSize[t], mData[t])]'
          = [t \in Subs |-> Contents(mStart[t], mSize'[t], mData[t])]
    BY DEF Contents, ReadableCell
  <1>8. [t \in Subs |-> Contents(mStart[t], mSize'[t], mData[t])]
          = [[t \in Subs |-> Contents(mStart[t], mSize[t], mData[t])] EXCEPT ![s] = @ \o polled[s]]
    BY <1>6
  <1>9. QED
    BY <1>7, <1>8 DEF Stream!Commit

\* A step of the reader's scan takes the oldest event of its stream.
LEMMA TakeRefines ==
  ASSUME IInv, ScanTake
  PROVE  nextReadIndex \in Subs /\ Stream!Take(nextReadIndex)
  <1> DEFINE s == nextReadIndex
  <1> USE DEF IInv, ScanTake, Scanning, Dequeue
  <1>1. /\ s \in Subs /\ mStart[s] \in Cells /\ mSize[s] \in 1 .. Capacity
    BY CapacityAssumption DEF TypeOK
  <1>2. /\ mSize'[s] = mSize[s] - 1 /\ mStart'[s] = NextStart(mStart[s])
        /\ \A t \in Subs : t # s => mSize'[t] = mSize[t] /\ mStart'[t] = mStart[t]
    BY <1>1 DEF TypeOK
  <1>3. \A k \in 0 .. mSize[s] - 1 : mData[s][ReadableCell(mStart[s], k)] \in SubEvents
    BY <1>1 DEF ContentInv
  <1>4. /\ Contents(mStart[s], mSize[s], mData[s]) # << >>
        /\ Head(Contents(mStart[s], mSize[s], mData[s])) = mData[s][mStart[s]]
        /\ Contents(NextStart(mStart[s]), mSize[s] - 1, mData[s])
             = Tail(Contents(mStart[s], mSize[s], mData[s]))
    BY <1>1, <1>3, ContentsDequeue
  <1>5. [t \in Subs |-> Contents(mStart[t], mSize[t], mData[t])]'
          = [t \in Subs |-> Contents(mStart'[t], mSize'[t], mData[t])]
    BY DEF Contents, ReadableCell
  <1>6. [t \in Subs |-> Contents(mStart'[t], mSize'[t], mData[t])]
          = [[t \in Subs |-> Contents(mStart[t], mSize[t], mData[t])] EXCEPT ![s] = Tail(@)]
    <2>1. /\ Contents(mStart'[s], mSize'[s], mData[s])
               = Tail(Contents(mStart[s], mSize[s], mData[s]))
          /\ \A t \in Subs : t # s => Contents(mStart'[t], mSize'[t], mData[t])
                                        = Contents(mStart[t], mSize[t], mData[t])
      BY <1>2, <1>4
    <2> HIDE DEF s
    <2>2. QED
      BY <1>1, <2>1
  <1>7. data' = data \o Converted(mData[s][mStart[s]], s)
    <2>1. mData[s][mStart[s]] \in SubEvents
      <3>1. 0 \in 0 .. mSize[s] - 1 /\ 0 \in 0 .. Capacity
        BY <1>1, CapacityAssumption
      <3>2. mStart[s] + 0 = mStart[s] /\ mStart[s] < Capacity
        BY <1>1, CapacityAssumption DEF Cells
      <3>3. ReadableCell(mStart[s], 0) = mStart[s]
        BY <1>1, <3>1, <3>2, ReadableCases
      <3>4. QED
        BY <1>3, <3>1, <3>3
    <2>2. PICK out \in OutEvents : out = copy_event_remap_handle(mData[s][mStart[s]], s)
      BY <1>1, <2>1, RemapType
    <2>3. data \in Seq(OutEvents)
      BY DEF TypeOK
    <2>4. data' = IF out.sensor = -1 THEN data ELSE Append(data, out)
      BY <2>2 DEF Deliver
    <2>5. Converted(mData[s][mStart[s]], s) = IF out.sensor = -1 THEN << >> ELSE <<out>>
      BY <2>2 DEF Converted
    <2>6. data \o << >> = data /\ data \o <<out>> = Append(data, out)
      BY <2>2, <2>3, ConcatEmptySeq, AppendIsConcat
    <2>7. QED
      BY <2>4, <2>5, <2>6
  <1>8. Stream!Take(s)
    BY <1>1, <1>4, <1>5, <1>6, <1>7 DEF Stream!Take
  <1>9. QED
    BY <1>1, <1>8

\* The other steps start an attempt afresh, begin a poll() or change nothing
\* the streams know of.
LEMMA WriterRefines ==
  ASSUME IInv, NEW s \in Subs, Writer(s)
  PROVE  Stream!Next \/ UNCHANGED Stream!vars
  <1>1. CASE WriterWaitForSpace(s) \/ WriterSpuriousWake(s) \/ SubPollReturn(s)
    <2>1. UNCHANGED queueVars /\ UNCHANGED <<polled, data>>
      BY <1>1 DEF WriterWaitForSpace, WriterSpuriousWake, SubPollReturn, queueVars, readerVars
    <2>2. QED
      BY <2>1, ChanUnchanged DEF Stream!vars
  <1>2. CASE WriterGetRegion(s) \/ SubPollFail(s)
    <2>1. UNCHANGED queueVars /\ UNCHANGED data /\ polled' = [polled EXCEPT ![s] = << >>]
      BY <1>2 DEF WriterGetRegion, SubPollFail, queueVars, readerVars
    <2>2. Stream!Discard(s)
      BY <2>1, ChanUnchanged DEF Stream!Discard
    <2>3. QED
      BY <2>2 DEF Stream!Next
  <1>3. CASE \E e \in SubEvents : SubPollStore(s, e)
    BY <1>3, StoreRefines DEF Stream!Next
  <1>4. CASE WriterMark(s)
    BY <1>4, MarkRefines DEF Stream!Next
  <1>5. QED
    BY <1>1, <1>2, <1>3, <1>4 DEF Writer

\* Every step of poll(): a read event leaves the stream of its sub-HAL at its head; looking at an
\* empty queue, waiting and waking change no stream.
LEMMA ReaderRefines ==
  ASSUME IInv, Reader
  PROVE  Stream!Next \/ UNCHANGED Stream!vars
  <1>1. CASE \E n \in MaxReads : PollEnter(n)
    <2>1. UNCHANGED queueVars /\ UNCHANGED polled /\ data' = << >>
      BY <1>1 DEF PollEnter, queueVars, writerVars
    <2>2. Stream!Begin
      BY <2>1, ChanUnchanged DEF Stream!Begin
    <2>3. QED
      BY <2>2 DEF Stream!Next
  <1>2. CASE ScanTake
    BY <1>2, TakeRefines DEF Stream!Next
  <1>3. CASE ScanEmpty \/ PollWait \/ PollSpuriousWake \/ PollResume \/ PollReturn
    <2>1. UNCHANGED queueVars /\ UNCHANGED <<polled, data>>
      BY <1>3 DEF ScanEmpty, PollWait, PollSpuriousWake, PollResume, PollReturn, queueVars,
                  writerVars
    <2>2. QED
      BY <2>1, ChanUnchanged DEF Stream!vars
  <1>4. QED
    BY <1>1, <1>2, <1>3 DEF Reader

\* The rings implement the streams, for every capacity and number of sub-HALs.
\* What a sub-HAL's poll() returned joins its stream whole and in order, every
\* event leaves it once, oldest first, and poll() hands it on converted.
THEOREM Refinement == Spec => ImplementsStream
  <1>1. Init => Stream!Init
    BY DEF Init, Stream!Init, Contents
  <1>2. IInv /\ [Next]_vars => [Stream!Next]_(Stream!vars)
    <2> SUFFICES ASSUME IInv, [Next]_vars PROVE Stream!Next \/ UNCHANGED Stream!vars
      OBVIOUS
    <2>1. CASE \E s \in Subs : Writer(s)
      BY <2>1, WriterRefines
    <2>2. CASE Reader
      BY <2>2, ReaderRefines
    <2>3. CASE UNCHANGED vars
      <3>1. UNCHANGED queueVars /\ UNCHANGED <<polled, data>>
        BY <2>3 DEF vars, queueVars, writerVars, readerVars
      <3>2. QED
        BY <3>1, ChanUnchanged DEF Stream!vars
    <2>4. QED
      BY <2>1, <2>2, <2>3 DEF Next
  <1>3. QED
    BY <1>1, <1>2, Inductive, PTL DEF Spec, ImplementsStream, Stream!Spec
=============================================================================
