--------------------------- MODULE RilUnsolProofs ---------------------------
(***************************************************************************)
(* Proofs about the indications' wake lock and about the NITZ copy, for     *)
(* every number of vendor threads, timers, indications and client starts.   *)
(***************************************************************************)
EXTENDS RilUnsol, TLAPS

\* Where a thread is after an indication: at l, or through with it.
LEMMA DoneMoves ==
  ASSUME TypeOK, NEW t \in Threads, NEW l \in Labels \cup {"done"}, Done(t, l)
  PROVE  /\ left' \in 0 .. 1
         /\ \E m \in Labels : /\ pc' = [pc EXCEPT ![t] = m]
                              /\ l # "done" => m = l
                              /\ l = "done" => m \in {"idle", "grab", "resend"}
  <1>1. CASE l # "done"
    BY <1>1 DEF Done, Goto, TypeOK
  <1>2. CASE l = "done" /\ t \in Vendors
    <2>1. Goto(t, "idle") /\ UNCHANGED left
      BY <1>2, ThreadAssumption DEF Done
    <2>2. QED
      BY <1>2, <2>1 DEF Goto, TypeOK, Labels
  <1>3. CASE l = "done" /\ t = Binder /\ left > 0
    <2>1. Goto(t, "grab") /\ left' = left - 1
      <3>1. left # 0 /\ Binder \notin Vendors
        BY <1>3, ThreadAssumption DEF TypeOK
      <3>2. QED
        BY <1>3, <3>1 DEF Done
    <2>2. QED
      BY <1>3, <2>1 DEF Goto, TypeOK, Labels
  <1>4. CASE l = "done" /\ t = Binder /\ left = 0
    <2>1. Goto(t, IF s_lastNITZTimeData # 0 THEN "resend" ELSE "idle") /\ UNCHANGED left
      <3>1. ~(left > 0) /\ Binder \notin Vendors
        BY <1>4, ThreadAssumption DEF TypeOK
      <3>2. QED
        BY <1>4, <3>1 DEF Done
    <2>2. QED
      BY <1>4, <2>1 DEF Goto, TypeOK, Labels
  <1>5. QED
    BY <1>1, <1>2, <1>3, <1>4 DEF Threads, TypeOK

\* The write through what a thread saw keeps the types of what it writes.
LEMMA CancelSeenType ==
  ASSUME TypeOK, NEW t \in Threads, CancelSeen(t)
  PROVE  /\ userParam' \in [Slots -> {0, 1}] /\ stray' \in BOOLEAN
         /\ seen' \in [Threads -> Slots \cup {NULL}] /\ dangling' \subseteq Threads
BY DEF CancelSeen, TypeOK

\* So does releaseWakeLock() up to its test.
LEMMA releaseWakeLockType ==
  ASSUME TypeOK, NEW t \in Threads, releaseWakeLock(t)
  PROVE  /\ wakeLock' \in BOOLEAN /\ s_wakelock_count' \in Nat
         /\ seen' \in [Threads -> Slots \cup {NULL}]
BY DEF releaseWakeLock, TypeOK

-----------------------------------------------------------------------------
\* The initial state has the types.
LEMMA InitType == Init => TypeOK
  <1> SUFFICES ASSUME Init PROVE TypeOK
    OBVIOUS
  <1>1. wakeLock \in BOOLEAN /\ alive \in BOOLEAN /\ stray \in BOOLEAN
    BY DEF Init
  <1>2. /\ timer \in [Slots -> {"free", "pending", "firing"}] /\ userParam \in [Slots -> {0, 1}]
        /\ pc \in [Threads -> Labels] /\ p_info \in [Threads -> Slots \cup {NULL}]
        /\ seen \in [Threads -> Slots \cup {NULL}] /\ dangling \subseteq Threads
    BY DEF Init, Labels
  <1>3. /\ nitz \in [Threads -> 0 .. MaxUnsol] /\ delivered \in [1 .. MaxUnsol -> Nat]
    BY BoundAssumption DEF Init
  <1>4. QED
    BY <1>1, <1>2, <1>3, BoundAssumption, VersionAssumption DEF Init, TypeOK

\* The vendor's call begins.
LEMMA UnsolType ==
  ASSUME TypeOK, NEW t \in Vendors, NEW n \in 0 .. MaxUnsol, Unsol(t, n)
  PROVE  TypeOK'
BY BoundAssumption DEF TypeOK, Unsol, Goto, Threads, Labels, timerVars, seenVars, loopVars,
   clientVars, nitzVars

\* Where error_exit leads: to the write at the end of releaseWakeLock(), or out.
LEMMA ErrorExitMoves ==
  ASSUME TypeOK, NEW t \in Threads, ErrorExit(t)
  PROVE  /\ left' \in 0 .. 1
         /\ \E m \in Labels : /\ pc' = [pc EXCEPT ![t] = m]
                              /\ seen'[t] # NULL => m = "release"
                              /\ seen'[t] = NULL => m \in {"idle", "grab", "resend"}
  <1>1. CASE seen'[t] = NULL
    <2>1. Done(t, "done")
      BY <1>1 DEF ErrorExit
    <2>2. QED
      BY <1>1, <2>1, DoneMoves
  <1>2. CASE seen'[t] # NULL
    <2>1. Done(t, "release") /\ "release" \in Labels
      BY <1>2 DEF ErrorExit, Labels
    <2>2. QED
      BY <1>2, <2>1, DoneMoves
  <1>3. QED
    BY <1>1, <1>2

\* And where that write leads.
LEMMA EndReleaseMoves ==
  ASSUME TypeOK, NEW t \in Threads, EndRelease(t)
  PROVE  /\ left' \in 0 .. 1
         /\ \E m \in Labels : /\ pc' = [pc EXCEPT ![t] = m]
                              /\ m \in {"idle", "grab", "resend"}
  <1>1. CASE pc[t] = "acked"
    <2>1. Done(t, "idle") /\ "idle" \in Labels
      BY <1>1 DEF EndRelease, Labels
    <2>2. QED
      BY <2>1, DoneMoves
  <1>2. CASE pc[t] # "acked"
    <2>1. Done(t, "done")
      BY <1>2 DEF EndRelease
    <2>2. QED
      BY <2>1, DoneMoves
  <1>3. QED
    BY <1>1, <1>2

\* Each step of the handler.
LEMMA HandlerType ==
  ASSUME TypeOK, NEW t \in Threads, Handler(t)
  PROVE  TypeOK'
  <1> USE DEF timerVars, seenVars, loopVars, clientVars, nitzVars, sendVars
  <1>1. CASE GrabOnly(t)
    BY <1>1 DEF TypeOK, GrabOnly, Goto, Labels
  <1>2. CASE GrabWithTimer(t)
    <2>1. PICK s \in Slots : /\ StartTimer(s)
                             /\ userParam' = [userParam EXCEPT ![s] = 0]
                             /\ p_info' = [p_info EXCEPT ![t] = s]
      BY <1>2 DEF GrabWithTimer
    <2>2. /\ userParam' \in [Slots -> {0, 1}] /\ p_info' \in [Threads -> Slots \cup {NULL}]
          /\ timer' \in [Slots -> {"free", "pending", "firing"}]
      BY <2>1 DEF TypeOK, StartTimer
    <2>3. wakeLock' \in BOOLEAN /\ s_wakelock_count' \in Nat
      BY <1>2 DEF TypeOK, GrabWithTimer
    <2>4. pc' \in [Threads -> Labels]
      BY <1>2 DEF TypeOK, GrabWithTimer, Goto, Labels
    <2>5. QED
      BY <1>2, <2>2, <2>3, <2>4 DEF TypeOK, GrabWithTimer
  <1>3. CASE GrabNoMemory(t)
    BY <1>3 DEF TypeOK, GrabNoMemory, Goto, Labels
  <1>4. CASE Indicate(t)
    <2>1. AfterCall(t, client = NULL) \in Labels \cup {"done"}
      BY DEF AfterCall, Labels
    <2>2. left' \in 0 .. 1 /\ pc' \in [Threads -> Labels]
      <3>1. Done(t, AfterCall(t, client = NULL))
        BY <1>4 DEF Indicate
      <3>2. left' \in 0 .. 1 /\ \E m \in Labels : pc' = [pc EXCEPT ![t] = m]
        BY <2>1, <3>1, DoneMoves, Zenon
      <3>3. QED
        BY <3>2 DEF TypeOK
    <2>3. nitz' \in [Threads -> 0 .. MaxUnsol]
      BY <1>4, BoundAssumption DEF Indicate, TypeOK
    <2>4. delivered' \in [1 .. MaxUnsol -> Nat]
      BY <1>4 DEF Indicate, TypeOK
    <2>5. owed' \in Nat /\ client' \in 1 .. MaxClients \cup {NULL}
      BY <1>4 DEF Indicate, TypeOK
    <2>6. QED
      BY <1>4, <2>2, <2>3, <2>4, <2>5 DEF Indicate, TypeOK
  <1>5. CASE Schedule(t)
    BY <1>5 DEF TypeOK, Schedule, StartTimer, Goto, Labels
  <1>6. CASE ScheduleNoMemory(t)
    <2>1. nitz' \in [Threads -> 0 .. MaxUnsol]
      BY <1>6, BoundAssumption DEF ScheduleNoMemory, TypeOK
    <2>2. QED
      BY <1>6, <2>1 DEF TypeOK, ScheduleNoMemory, Goto, Labels
  <1>7. CASE TestLast(t)
    <2>1. seen' \in [Threads -> Slots \cup {NULL}]
      BY <1>7 DEF TypeOK, TestLast
    <2>2. pc' \in [Threads -> Labels]
      BY <1>7 DEF TypeOK, TestLast, Goto, Labels
    <2>3. QED
      BY <1>7, <2>1, <2>2 DEF TypeOK, TestLast
  <1>8. CASE CancelPrevious(t)
    BY <1>8, CancelSeenType DEF TypeOK, CancelPrevious, Goto, Labels
  <1>9. CASE Publish(t)
    <2>1. AfterPublish(t) \in Labels \cup {"done"}
      BY DEF AfterPublish, Labels
    <2>2. Done(t, AfterPublish(t))
      BY <1>9 DEF Publish
    <2>3. left' \in 0 .. 1 /\ pc' \in [Threads -> Labels]
      BY <2>1, <2>2, DoneMoves DEF TypeOK
    <2>4. QED
      BY <1>9, <2>3 DEF TypeOK, Publish
  <1>10. CASE Keep(t)
    <2>1. left' \in 0 .. 1 /\ pc' \in [Threads -> Labels]
      BY <1>10, DoneMoves DEF Keep, TypeOK
    <2>2. nitz' \in [Threads -> 0 .. MaxUnsol] /\ s_lastNITZTimeData' \in 0 .. MaxUnsol
      BY <1>10, BoundAssumption DEF Keep, TypeOK
    <2>3. QED
      BY <1>10, <2>1, <2>2 DEF TypeOK, Keep
  <1>11. CASE KeepNoMemory(t)
    <2>1. nitz' \in [Threads -> 0 .. MaxUnsol] /\ s_lastNITZTimeData' \in 0 .. MaxUnsol
      BY <1>11, BoundAssumption DEF KeepNoMemory, TypeOK
    <2>2. QED
      BY <1>11, <2>1 DEF TypeOK, KeepNoMemory, Goto, Labels
  <1>12. CASE ErrorExit(t)
    <2>1. left' \in 0 .. 1 /\ pc' \in [Threads -> Labels]
      BY <1>12, ErrorExitMoves DEF TypeOK
    <2>2. releaseWakeLock(t)
      BY <1>12 DEF ErrorExit
    <2>3. QED
      BY <1>12, <2>1, <2>2, releaseWakeLockType DEF TypeOK, ErrorExit
  <1>13. CASE EndRelease(t)
    <2>1. left' \in 0 .. 1 /\ pc' \in [Threads -> Labels]
      BY <1>13, EndReleaseMoves DEF TypeOK
    <2>2. CancelSeen(t)
      BY <1>13 DEF EndRelease
    <2>3. QED
      BY <1>13, <2>1, <2>2, CancelSeenType DEF TypeOK, EndRelease
  <1>14. QED
    BY <1>1, <1>2, <1>3, <1>4, <1>5, <1>6, <1>7, <1>8, <1>9, <1>10, <1>11, <1>12, <1>13 DEF Handler

\* The copy is sent again and freed.
LEMMA ResendType ==
  ASSUME TypeOK, Resend \/ ResendFree
  PROVE  TypeOK'
  <1> USE DEF timerVars, seenVars, loopVars, clientVars, sendVars
  <1>1. CASE Resend
    <2>1. delivered' \in [1 .. MaxUnsol -> Nat]
      <3>1. delivered' = delivered \/ delivered' = [delivered EXCEPT ![s_lastNITZTimeData] = @ + 1]
        BY <1>1 DEF Resend
      <3>2. QED
        BY <3>1 DEF TypeOK
    <2>2. owed' \in Nat /\ client' \in 1 .. MaxClients \cup {NULL}
      BY <1>1 DEF TypeOK, Resend
    <2>3. pc' \in [Threads -> Labels]
      BY <1>1 DEF TypeOK, Resend, Goto, Labels
    <2>4. QED
      BY <1>1, <2>1, <2>2, <2>3 DEF TypeOK, Resend
  <1>2. CASE ResendFree
    <2>1. pc' \in [Threads -> Labels]
      BY <1>2 DEF TypeOK, ResendFree, Goto, Labels
    <2>2. s_lastNITZTimeData' \in 0 .. MaxUnsol
      BY <1>2, BoundAssumption DEF ResendFree
    <2>3. QED
      BY <1>2, <2>1, <2>2 DEF TypeOK, ResendFree
  <1>3. QED
    BY <1>1, <1>2

\* Timers fire and are freed.
LEMMA EventLoopType ==
  ASSUME TypeOK, EventLoop
  PROVE  TypeOK'
  <1> USE DEF timerVars, seenVars, threadVars, clientVars, nitzVars, sendVars
  <1>1. CASE \E s \in Slots : Fire(s)
    BY <1>1 DEF TypeOK, Fire
  <1>2. CASE wakeTimeoutCallback
    <2>1. wakeLock' \in BOOLEAN
      BY <1>2, Zenon DEF TypeOK, wakeTimeoutCallback
    <2>2. s_wakelock_count' \in Nat
      BY <1>2 DEF TypeOK, wakeTimeoutCallback
    <2>3. QED
      BY <1>2, <2>1, <2>2 DEF TypeOK, wakeTimeoutCallback
  <1>3. CASE CheckLast
    BY <1>3 DEF TypeOK, CheckLast
  <1>4. CASE ClearLast
    BY <1>4 DEF TypeOK, ClearLast
  <1>5. CASE FreeInfo
    <2>1. dangling' \subseteq Threads
      BY <1>5 DEF TypeOK, FreeInfo
    <2>2. QED
      BY <1>5, <2>1 DEF TypeOK, FreeInfo
  <1>6. QED
    BY <1>1, <1>2, <1>3, <1>4, <1>5 DEF EventLoop

\* The client starts, dies, connects and acknowledges.
LEMMA ClientType ==
  ASSUME TypeOK, Started, Client
  PROVE  TypeOK'
  <1> USE DEF timerVars, seenVars, threadVars, loopVars, nitzVars, sendVars
  <1>1. CASE ClientStart
    BY <1>1, BoundAssumption DEF TypeOK, ClientStart
  <1>2. CASE ClientDie
    BY <1>2 DEF TypeOK, ClientDie
  <1>3. CASE Connect
    <2>1. pc' \in [Threads -> Labels]
      BY <1>3 DEF TypeOK, Connect, Goto, Labels
    <2>2. client' \in 1 .. MaxClients \cup {NULL} /\ left' \in 0 .. 1
      BY <1>3 DEF TypeOK, Started, Connect
    <2>3. QED
      BY <1>3, <2>1, <2>2 DEF TypeOK, Connect
  <1>4. CASE responseAcknowledgement
    <2>1. Binder \in Threads /\ releaseWakeLock(Binder)
      BY <1>4 DEF Threads, responseAcknowledgement
    <2>2. pc' \in [Threads -> Labels]
      BY <1>4 DEF TypeOK, responseAcknowledgement, Goto, Labels
    <2>3. owed' \in Nat
      BY <1>4 DEF TypeOK, responseAcknowledgement
    <2>4. QED
      BY <1>4, <2>1, <2>2, <2>3, releaseWakeLockType DEF TypeOK, responseAcknowledgement
  <1>5. QED
    BY <1>1, <1>2, <1>3, <1>4 DEF Client

\* Only a process that was started lives.
LEMMA StartedStep ==
  ASSUME TypeOK, Started, Next
  PROVE  Started'
  <1> USE DEF Started, clientVars
  <1>1. CASE ClientStart \/ ClientDie
    BY <1>1 DEF TypeOK, ClientStart, ClientDie
  <1>2. CASE Connect \/ responseAcknowledgement
    BY <1>2 DEF Connect, responseAcknowledgement
  <1>3. CASE \E t \in Vendors, n \in 0 .. MaxUnsol : Unsol(t, n)
    BY <1>3 DEF Unsol
  <1>4. CASE \E t \in Threads : Handler(t)
    BY <1>4 DEF Handler, GrabOnly, GrabWithTimer, GrabNoMemory, Indicate, Schedule,
       ScheduleNoMemory, TestLast, CancelPrevious, Publish, Keep, KeepNoMemory, ErrorExit, EndRelease
  <1>5. CASE Resend \/ ResendFree
    BY <1>5 DEF Resend, ResendFree
  <1>6. CASE EventLoop
    BY <1>6 DEF EventLoop, Fire, wakeTimeoutCallback, CheckLast, ClearLast, FreeInfo
  <1>7. QED
    BY <1>1, <1>2, <1>3, <1>4, <1>5, <1>6 DEF Next, Client

\* The types are kept, and only started processes live: the second is what
\* makes the client that connects one of the processes.
THEOREM TypeInductive == Spec => [](TypeOK /\ Started)
  <1>1. Init => Started
    BY DEF Init, Started
  <1>2. TypeOK /\ Started /\ [Next]_vars => (TypeOK /\ Started)'
    <2> SUFFICES ASSUME TypeOK, Started, [Next]_vars PROVE (TypeOK /\ Started)'
      OBVIOUS
    <2>1. CASE Next
      <3>1. TypeOK'
        BY <2>1, UnsolType, HandlerType, ResendType, EventLoopType, ClientType DEF Next
      <3>2. QED
        BY <2>1, <3>1, StartedStep
    <2>2. CASE UNCHANGED vars
      BY <2>2 DEF TypeOK, Started, vars, timerVars, seenVars, threadVars, loopVars, clientVars, nitzVars,
         sendVars
    <2>3. QED
      BY <2>1, <2>2
  <1>3. QED
    BY InitType, <1>1, <1>2, PTL DEF Spec

\* The state of the indications keeps its types, in every step.
THEOREM TypeCorrect == Spec => []TypeOK
BY TypeInductive, PTL

-----------------------------------------------------------------------------
(***************************************************************************)
(* The NITZ copy.                                                           *)
(***************************************************************************)

\* A step that touches neither the NITZ nor their copy, and does not end
\* resendLastNITZTimeData().
LEMMA NitzFrame ==
  ASSUME NitzInv, UNCHANGED <<nitz, nitzVars, lastNitz>>,
         pc[Binder] = "resent" => pc'[Binder] = "resent"
  PROVE  NitzInv'
BY DEF NitzInv, nitzVars

\* A new NITZ has a number no thread, no copy and no client has.
LEMMA UnsolNitz ==
  ASSUME TypeOK, NitzInv, NEW t \in Vendors, NEW n \in 0 .. MaxUnsol, Unsol(t, n)
  PROVE  NitzInv'
  <1>1. /\ t \in Threads /\ Binder \in Threads /\ t # Binder
        /\ lastNitz \in Nat /\ lastNitz' \in Nat /\ lastNitz <= lastNitz'
        /\ nitz' = [nitz EXCEPT ![t] = n]
        /\ n > 0 => n = lastNitz + 1 /\ n = lastNitz'
        /\ UNCHANGED nitzVars
        /\ pc'[Binder] = pc[Binder]
    BY ThreadAssumption, BoundAssumption DEF TypeOK, Unsol, Goto, Threads
  <1>2. /\ nitz \in [Threads -> Nat] /\ delivered \in [1 .. MaxUnsol -> Nat]
        /\ s_lastNITZTimeData \in Nat
    BY BoundAssumption DEF TypeOK
  <1>3. QED
    BY <1>1, <1>2 DEF NitzInv, nitzVars

\* A thread that gives its NITZ up without giving it to anybody.
LEMMA DropNitz ==
  ASSUME TypeOK, NitzInv, NEW t \in Threads,
         nitz' = [nitz EXCEPT ![t] = 0],
         UNCHANGED <<delivered, lastNitz>>,
         s_lastNITZTimeData' \in {0, s_lastNITZTimeData},
         pc[Binder] = "resent" => pc'[Binder] = "resent" \/ s_lastNITZTimeData' = 0
  PROVE  NitzInv'
BY DEF NitzInv, TypeOK

\* The response function: the thread's NITZ reaches a live client, is lost
\* with a dead one, or is kept by the thread.
LEMMA IndicateNitz ==
  ASSUME TypeOK, NitzInv, NEW t \in Threads, Indicate(t)
  PROVE  NitzInv'
  <1>1. pc[Binder] = "resent" => pc'[Binder] = "resent"
    <2>1. AfterCall(t, client = NULL) \in Labels \cup {"done"}
      BY DEF AfterCall, Labels
    <2>2. QED
      BY <2>1, DoneMoves DEF Indicate, TypeOK, Threads
  <1>2. CASE client = NULL
    <2>1. UNCHANGED <<nitz, nitzVars, lastNitz>>
      BY <1>2 DEF Indicate, nitzVars, sendVars, TypeOK
    <2>2. QED
      BY <1>1, <2>1, NitzFrame
  <1>3. CASE client # NULL /\ ~(client = clients /\ alive /\ nitz[t] > 0)
    <2>1. nitz' = [nitz EXCEPT ![t] = 0] /\ UNCHANGED <<nitzVars, lastNitz>>
      BY <1>3 DEF Indicate, nitzVars, sendVars
    <2>2. QED
      BY <1>1, <2>1, DropNitz DEF nitzVars
  <1>4. CASE client # NULL /\ client = clients /\ alive /\ nitz[t] > 0
    <2>1. /\ nitz' = [nitz EXCEPT ![t] = 0]
          /\ delivered' = [delivered EXCEPT ![nitz[t]] = @ + 1]
          /\ UNCHANGED <<s_lastNITZTimeData, lastNitz>>
      BY <1>4 DEF Indicate, sendVars
    <2>2. nitz[t] \in DOMAIN delivered /\ delivered[nitz[t]] = 0
      BY <1>4 DEF TypeOK, NitzInv
    <2>3. QED
      BY <1>1, <1>4, <2>1, <2>2 DEF NitzInv, TypeOK
  <1>5. QED
    BY <1>2, <1>3, <1>4

\* The other steps of the handler.
LEMMA HandlerNitz ==
  ASSUME TypeOK, NitzInv, NEW t \in Threads, Handler(t)
  PROVE  NitzInv'
  <1>1. CASE GrabOnly(t) \/ GrabWithTimer(t) \/ GrabNoMemory(t)
    BY <1>1, NitzFrame DEF GrabOnly, GrabWithTimer, GrabNoMemory, Goto, nitzVars, sendVars,
       TypeOK, Threads
  <1>2. CASE Indicate(t)
    BY <1>2, IndicateNitz
  <1>3. CASE Schedule(t) \/ TestLast(t) \/ CancelPrevious(t)
    BY <1>3, NitzFrame DEF Schedule, TestLast, CancelPrevious, Goto, nitzVars, sendVars, TypeOK,
       Threads
  <1>4. CASE ScheduleNoMemory(t)
    <2>1. pc[Binder] = "resent" => pc'[Binder] = "resent"
      BY <1>4 DEF ScheduleNoMemory, Goto, TypeOK, Threads
    <2>2. QED
      BY <1>4, <2>1, DropNitz DEF ScheduleNoMemory, nitzVars, sendVars
  <1>5. CASE Publish(t)
    <2>1. AfterPublish(t) \in Labels \cup {"done"} /\ Done(t, AfterPublish(t))
      BY <1>5 DEF AfterPublish, Labels, Publish
    <2>2. pc[Binder] = "resent" => pc'[Binder] = "resent"
      BY <1>5, <2>1, DoneMoves DEF Publish, TypeOK, Threads
    <2>3. QED
      BY <1>5, <2>2, NitzFrame DEF Publish, sendVars
  <1>6. CASE Keep(t)
    <2>1. pc[Binder] = "resent" => pc'[Binder] = "resent"
      BY <1>6, DoneMoves DEF Keep, TypeOK, Threads
    <2>2. /\ nitz' = [nitz EXCEPT ![t] = 0] /\ s_lastNITZTimeData' = nitz[t]
          /\ UNCHANGED <<delivered, lastNitz>>
      BY <1>6 DEF Keep, sendVars
    <2>3. QED
      BY <2>1, <2>2 DEF NitzInv, TypeOK
  <1>7. CASE KeepNoMemory(t)
    BY <1>7, DropNitz DEF KeepNoMemory, sendVars
  <1>8. CASE ErrorExit(t)
    <2>1. pc[Binder] = "resent" => pc'[Binder] = "resent"
      BY <1>8, ErrorExitMoves DEF ErrorExit, TypeOK, Threads
    <2>2. QED
      BY <1>8, <2>1, NitzFrame DEF ErrorExit, sendVars
  <1>9. CASE EndRelease(t)
    <2>1. pc[Binder] = "resent" => pc'[Binder] = "resent"
      BY <1>9, EndReleaseMoves DEF EndRelease, TypeOK, Threads
    <2>2. QED
      BY <1>9, <2>1, NitzFrame DEF EndRelease, sendVars
  <1>10. QED
    BY <1>1, <1>2, <1>3, <1>4, <1>5, <1>6, <1>7, <1>8, <1>9 DEF Handler

\* resendLastNITZTimeData(): between the call and the free the copy is one
\* that was sent, unless another thread has replaced it.
LEMMA ResendNitz ==
  ASSUME TypeOK, NitzInv, Resend \/ ResendFree
  PROVE  NitzInv'
  <1> Binder \in Threads
    BY DEF Threads
  <1>1. CASE Resend /\ s_lastNITZTimeData # 0 /\ client # NULL /\ client = clients /\ alive
    <2>1. /\ delivered' = [delivered EXCEPT ![s_lastNITZTimeData] = @ + 1]
          /\ pc[Binder] = "resend" /\ pc'[Binder] = "resent"
          /\ UNCHANGED <<nitz, s_lastNITZTimeData, lastNitz>>
      BY <1>1 DEF Resend, Goto, TypeOK, sendVars
    <2>2. s_lastNITZTimeData \in DOMAIN delivered /\ delivered[s_lastNITZTimeData] = 0
      BY <1>1, <2>1 DEF TypeOK, NitzInv
    <2>3. QED
      BY <2>1, <2>2 DEF NitzInv, TypeOK
  <1>2. CASE Resend /\ ~(s_lastNITZTimeData # 0 /\ client # NULL /\ client = clients /\ alive)
    <2>1. UNCHANGED <<nitz, nitzVars, lastNitz>> /\ pc[Binder] # "resent"
      BY <1>2 DEF Resend, nitzVars, sendVars
    <2>2. QED
      BY <2>1, NitzFrame
  <1>3. CASE ResendFree
    BY <1>3 DEF ResendFree, NitzInv, TypeOK, Goto, sendVars
  <1>4. QED
    BY <1>1, <1>2, <1>3

\* The event loop and the client do not touch a NITZ.
LEMMA OthersNitz ==
  ASSUME TypeOK, NitzInv, EventLoop \/ Client
  PROVE  NitzInv'
  <1> USE DEF threadVars, nitzVars, sendVars
  <1>1. CASE EventLoop
    BY <1>1, NitzFrame DEF EventLoop, Fire, wakeTimeoutCallback, CheckLast, ClearLast, FreeInfo
  <1>2. CASE ClientStart \/ ClientDie \/ responseAcknowledgement
    BY <1>2, NitzFrame DEF ClientStart, ClientDie, responseAcknowledgement
  <1>3. CASE Connect
    BY <1>3, NitzFrame DEF Connect
  <1>4. QED
    BY <1>1, <1>2, <1>3 DEF Client

\* Every NITZ is in one place at most and in none once it was delivered.
THEOREM NitzInductive == Spec => [](TypeOK /\ NitzInv)
  <1>1. Init => NitzInv
    BY BoundAssumption DEF Init, NitzInv
  <1>2. TypeOK /\ NitzInv /\ [Next]_vars => NitzInv'
    <2> SUFFICES ASSUME TypeOK, NitzInv, [Next]_vars PROVE NitzInv'
      OBVIOUS
    <2>1. CASE Next
      BY <2>1, UnsolNitz, HandlerNitz, ResendNitz, OthersNitz DEF Next
    <2>2. CASE UNCHANGED vars
      BY <2>2, NitzFrame DEF vars, threadVars, sendVars
    <2>3. QED
      BY <2>1, <2>2
  <1>3. QED
    BY <1>1, <1>2, TypeCorrect, PTL DEF Spec

\* No NITZ is given to clients twice, neither by the handler and from the copy
\* nor by two connections.
THEOREM NitzDeliveredOnce == Spec => []NitzAtMostOnce
  <1>1. NitzInv => NitzAtMostOnce
    BY DEF NitzInv, NitzAtMostOnce
  <1>2. QED
    BY <1>1, NitzInductive, PTL

-----------------------------------------------------------------------------
(***************************************************************************)
(* The wake lock and its timers.                                            *)
(***************************************************************************)

\* Nobody holds the mutex: no thread has a timer of its own and none is
\* between a test and its write.
LEMMA Unlocked ==
  ASSUME TypeOK, TimerInv, Acks, ~Locked
  PROVE  /\ \A t \in Threads : pc[t] \notin Holding /\ p_info[t] = NULL /\ seen[t] = NULL
         /\ dangling = {}
  <1>1. \A t \in Threads : pc[t] \notin Holding
    BY DEF Locked
  <1>2. \A t \in Threads : p_info[t] = NULL /\ seen[t] = NULL
    BY <1>1 DEF TimerInv, OwnTimerInv, SeenInv, Holding
  <1>3. dangling = {}
    BY <1>2 DEF TimerInv, SeenInv, TypeOK
  <1>4. QED
    BY <1>1, <1>2, <1>3

\* A step that leaves the timers alone, by threads that have none to start
\* and do not hold the mutex.
LEMMA TimerFrame ==
  ASSUME TimerInv, UNCHANGED <<version, timerVars, p_info, loopVars>>,
         \A r \in Threads :
           \/ pc'[r] = pc[r]
           \/ /\ pc[r] \notin Holding /\ pc'[r] \notin Holding
              /\ pc'[r] = "schedule" => ~Acks
              /\ pc[r] \in {"indicate", "schedule", "error"} =>
                   Acks \/ pc'[r] \in {"indicate", "schedule", "error"}
  PROVE  TimerInv'
  <1> USE DEF timerVars, seenVars, loopVars, Holding
  <1>1. Acks' <=> Acks
    BY DEF Acks
  <1>2. \A s : WillRelease(s)' <=> WillRelease(s)
    BY DEF WillRelease
  <1>3. InfoInv'
    BY DEF TimerInv, InfoInv
  <1>4. OwnTimerInv'
    BY <1>1, <1>2 DEF TimerInv, OwnTimerInv
  <1>5. SeenInv'
    BY DEF TimerInv, SeenInv
  <1>6. MutexInv'
    BY <1>1 DEF TimerInv, MutexInv
  <1>7. WakeLockHasTimer'
    BY <1>1, <1>2 DEF TimerInv, WakeLockHasTimer, HeldHasTimer
  <1>8. QED
    BY <1>3, <1>4, <1>5, <1>6, <1>7 DEF TimerInv

\* A timer is started.  Its block was free, so nobody has it, and nobody who
\* holds the mutex has seen it.
LEMMA StartTimerKeeps ==
  ASSUME TypeOK, TimerInv, NEW t \in Threads, NEW s \in Slots,
         StartTimer(s), userParam' = [userParam EXCEPT ![s] = 0],
         p_info' = [p_info EXCEPT ![t] = s],
         pc[t] \notin Holding, pc' = [pc EXCEPT ![t] = "test"],
         UNCHANGED <<version, s_last_wake_timeout_info, seenVars, loopVars>>,
         Acks => ~Locked, ~Acks => s_wakelock_count' = 0
  PROVE  TimerInv'
  <1> USE DEF seenVars, loopVars
  <1>1. Acks' <=> Acks
    BY DEF Acks
  <1>2. timer[s] = "free" /\ timer' = [timer EXCEPT ![s] = "pending"] /\ s # NULL
    BY SlotAssumption DEF StartTimer, Slots
  <1>3. timer'[s] = "pending" /\ userParam'[s] = 0
    BY <1>2 DEF TypeOK
  <1>4. \A r \in Slots : r # s => timer'[r] = timer[r] /\ userParam'[r] = userParam[r]
    BY <1>2 DEF TypeOK
  <1>5. /\ p_info'[t] = s /\ pc'[t] = "test"
        /\ \A r \in Threads : r # t => p_info'[r] = p_info[r] /\ pc'[r] = pc[r]
    BY DEF TypeOK
  <1>6. /\ s # s_last_wake_timeout_info /\ \A r \in Threads : p_info[r] # s
    BY <1>2 DEF TimerInv, InfoInv, OwnTimerInv
  <1>7. WillRelease(s)'
    BY <1>3 DEF WillRelease
  <1>8. \A r \in Slots : WillRelease(r) => WillRelease(r)'
    BY <1>4, <1>7 DEF WillRelease
  <1>9. InfoInv'
    BY <1>2, <1>4, <1>6 DEF TimerInv, InfoInv, TypeOK
  <1>10. OwnTimerInv'
    <2>1. \A r \in Threads : r # t /\ p_info[r] # NULL =>
            /\ stray \/ WillRelease(p_info[r])'
            /\ timer'[p_info[r]] = timer[p_info[r]]
      BY <1>4, <1>6, <1>8 DEF TimerInv, OwnTimerInv, TypeOK
    <2>2. QED
      BY <1>1, <1>2, <1>3, <1>5, <1>6, <1>7, <2>1 DEF TimerInv, OwnTimerInv
  <1>11. SeenInv'
    <2>1. pc[t] \notin {"cancel", "release", "acked"} /\ seen[t] = NULL
      BY DEF TimerInv, SeenInv, Holding
    <2>2. \A r \in Threads : seen[r] # NULL /\ r \notin dangling => seen[r] # s
      BY <1>2 DEF TimerInv, SeenInv
    <2>3. QED
      BY <1>4, <1>5, <2>1, <2>2 DEF TimerInv, SeenInv, TypeOK
  <1>12. MutexInv'
    <2>1. CASE Acks
      <3>1. (\A r \in Threads : pc[r] \notin Holding) /\ dangling = {}
        BY <2>1, Unlocked
      <3>2. \A r \in Threads : pc'[r] \in Holding => r = t
        BY <1>5, <3>1
      <3>3. \A r \in Threads : pc'[r] \notin {"release", "acked"}
        BY <1>5, <3>1 DEF Holding
      <3>4. QED
        BY <1>1, <2>1, <3>1, <3>2, <3>3 DEF TimerInv, MutexInv
    <2>2. CASE ~Acks
      <3>1. \A r \in Threads : pc'[r] \notin {"release", "acked"}
        BY <1>5, <2>2 DEF TimerInv, MutexInv
      <3>2. QED
        BY <1>1, <2>2, <3>1 DEF MutexInv
    <2>3. QED
      BY <2>1, <2>2
  <1>13. WakeLockHasTimer'
    BY <1>7 DEF WakeLockHasTimer, HeldHasTimer
  <1>14. QED
    BY <1>9, <1>10, <1>11, <1>12, <1>13 DEF TimerInv

\* The write through what a thread saw.  The timer it saw, if it was not freed
\* since, is nobody's own; if it was, the block is free or the write is a
\* stray one.  The thread has a timer of its own, or has released the wake
\* lock.
LEMMA CancelSeenKeeps ==
  ASSUME TypeOK, TimerInv, NEW t \in Threads, CancelSeen(t),
         pc[t] \in {"cancel", "release", "acked"}, NEW m \in Labels,
         pc' = [pc EXCEPT ![t] = m],
         pc[t] = "cancel" => m = "publish",
         pc[t] # "cancel" => m \in {"idle", "grab", "resend"},
         UNCHANGED <<version, wakeLock, s_wakelock_count, timer, s_last_wake_timeout_info,
                     p_info, loopVars>>
  PROVE  TimerInv'
  <1> USE DEF loopVars
  <1>1. Acks' <=> Acks
    BY DEF Acks
  <1>2. seen[t] \in Slots /\ seen[t] # NULL
    BY SlotAssumption DEF TimerInv, SeenInv, TypeOK
  <1>3. /\ pc'[t] = m /\ seen'[t] = NULL
        /\ \A r \in Threads : r # t => pc'[r] = pc[r] /\ seen'[r] = seen[r]
    BY DEF CancelSeen, TypeOK
  <1>4. ~stray' => ~stray /\ (t \in dangling => timer[seen[t]] = "free")
    BY DEF CancelSeen
  <1>5. Acks => ~stray'
    BY DEF CancelSeen, TimerInv, MutexInv
  <1>6. ~stray' => \A r \in Threads : p_info[r] # NULL => userParam'[p_info[r]] = userParam[p_info[r]]
    <2>1. CASE timer[seen[t]] = "free"
      BY <2>1 DEF CancelSeen
    <2>2. CASE timer[seen[t]] # "free" /\ ~stray'
      <3>1. \A r \in Threads : p_info[r] # seen[t]
        BY <1>2, <1>4, <2>2 DEF TimerInv, SeenInv
      <3>2. userParam' = [userParam EXCEPT ![seen[t]] = 1]
        BY <2>2 DEF CancelSeen
      <3>3. QED
        BY <3>1, <3>2 DEF TypeOK
    <2>3. QED
      BY <2>1, <2>2
  <1>7. ~stray' => \A r \in Threads : p_info[r] # NULL => WillRelease(p_info[r])'
    BY <1>4, <1>6 DEF WillRelease, TimerInv, OwnTimerInv
  <1>8. InfoInv'
    BY DEF TimerInv, InfoInv
  <1>9. OwnTimerInv'
    BY <1>1, <1>3, <1>7 DEF TimerInv, OwnTimerInv
  <1>10. SeenInv'
    <2>1. \A r \in Threads : r \in dangling' <=> r \in dangling /\ r # t
      BY DEF CancelSeen
    <2>2. dangling' \subseteq Threads
      BY <2>1 DEF CancelSeen, TypeOK
    <2>3. QED
      BY <1>3, <2>1, <2>2 DEF TimerInv, SeenInv, TypeOK
  <1>11. MutexInv'
    <2>1. \A r \in Threads : pc'[r] \in Holding => pc[r] \in Holding
      BY <1>3 DEF Holding
    <2>2. \A r \in Threads : pc'[r] \in {"release", "acked"} => pc[r] \in {"release", "acked"}
      BY <1>3
    <2>3. \A r \in dangling' : r \in dangling /\ seen'[r] = seen[r]
      BY <1>3 DEF CancelSeen, TypeOK
    <2>4. QED
      BY <1>1, <1>5, <2>1, <2>2, <2>3 DEF TimerInv, MutexInv
  <1>12. WakeLockHasTimer'
    <2>1. CASE pc[t] = "cancel"
      <3>1. p_info[t] # NULL /\ p_info[t] \in Slots
        BY <2>1 DEF TimerInv, OwnTimerInv, TypeOK
      <3>2. QED
        BY <1>7, <3>1 DEF WakeLockHasTimer, HeldHasTimer
    <2>2. CASE pc[t] # "cancel"
      BY <2>2 DEF WakeLockHasTimer, HeldHasTimer, TimerInv, MutexInv
    <2>3. QED
      BY <2>1, <2>2
  <1>13. QED
    BY <1>8, <1>9, <1>10, <1>11, <1>12 DEF TimerInv

\* releaseWakeLock() up to its test: the wake lock goes, or since version 13
\* the count was above one and no timer is touched.
LEMMA releaseWakeLockKeeps ==
  ASSUME TypeOK, TimerInv, NEW t \in Threads, releaseWakeLock(t),
         pc[t] \in {"idle", "error"}, NEW m \in Labels, pc' = [pc EXCEPT ![t] = m],
         seen'[t] = NULL => m \in {"idle", "grab", "resend"},
         seen'[t] # NULL => m \in {"release", "acked"},
         UNCHANGED <<version, timer, userParam, s_last_wake_timeout_info, dangling, stray, p_info,
                     loopVars>>
  PROVE  TimerInv'
  <1> USE DEF loopVars
  <1>1. Acks' <=> Acks
    BY DEF Acks
  <1>2. \A s : WillRelease(s)' <=> WillRelease(s)
    BY DEF WillRelease
  <1>3. /\ pc'[t] = m /\ \A r \in Threads : r # t => pc'[r] = pc[r] /\ seen'[r] = seen[r]
    BY DEF releaseWakeLock, TypeOK
  <1>4. seen[t] = NULL /\ t \notin dangling /\ p_info[t] = NULL
    BY DEF TimerInv, OwnTimerInv, SeenInv
  <1>5. seen'[t] # NULL => /\ Acks /\ ~wakeLock' /\ s_wakelock_count' = 0
                           /\ seen'[t] = s_last_wake_timeout_info
    <2>1. seen'[t] # NULL => Acks /\ s_wakelock_count <= 1 /\ seen'[t] = s_last_wake_timeout_info
      BY <1>4 DEF releaseWakeLock, TypeOK
    <2>2. s_wakelock_count <= 1 => ~(s_wakelock_count > 1)
      BY DEF TypeOK
    <2>3. QED
      BY <2>1, <2>2 DEF releaseWakeLock
  <1>6. ~Acks => s_wakelock_count' = 0 /\ ~wakeLock'
    <2>1. ~Acks => ~(s_wakelock_count > 1)
      BY DEF TimerInv, MutexInv
    <2>2. QED
      BY <2>1 DEF releaseWakeLock
  <1>7. wakeLock' => wakeLock
    BY DEF releaseWakeLock
  <1>8. InfoInv'
    BY DEF TimerInv, InfoInv
  <1>9. OwnTimerInv'
    BY <1>1, <1>2, <1>3, <1>4 DEF TimerInv, OwnTimerInv
  <1>10. SeenInv'
    <2>1. seen'[t] # NULL => /\ timer[seen'[t]] # "free"
                             /\ \A r \in Threads : p_info[r] # seen'[t]
      BY <1>5, SlotAssumption DEF TimerInv, InfoInv, OwnTimerInv
    <2>2. QED
      BY <1>3, <1>4, <2>1 DEF TimerInv, SeenInv, TypeOK
  <1>11. MutexInv'
    <2>1. CASE Acks
      <3>1. (\A r \in Threads : pc[r] \notin Holding) /\ dangling = {}
        BY <2>1, Unlocked DEF releaseWakeLock
      <3>2. \A r \in Threads : pc'[r] \in Holding => r = t
        BY <1>3, <3>1
      <3>3. \A r \in Threads : pc'[r] \in {"release", "acked"} => ~wakeLock'
        BY <1>3, <1>5, <3>1 DEF Holding
      <3>4. QED
        BY <1>1, <2>1, <3>1, <3>2, <3>3 DEF TimerInv, MutexInv
    <2>2. CASE ~Acks
      <3>1. \A r \in Threads : pc'[r] \notin {"release", "acked"}
        BY <1>3, <1>5, <2>2 DEF TimerInv, MutexInv
      <3>2. QED
        BY <1>1, <1>6, <2>2, <3>1 DEF MutexInv
    <2>3. QED
      BY <2>1, <2>2
  <1>12. WakeLockHasTimer'
    BY <1>1, <1>2, <1>6, <1>7 DEF TimerInv, WakeLockHasTimer, HeldHasTimer
  <1>13. QED
    BY <1>8, <1>9, <1>10, <1>11, <1>12 DEF TimerInv

\* grabPartialWakeLock().
LEMMA GrabTimer ==
  ASSUME TypeOK, TimerInv, NEW t \in Threads, GrabOnly(t) \/ GrabWithTimer(t) \/ GrabNoMemory(t)
  PROVE  TimerInv'
  <1> USE DEF loopVars
  <1>1. CASE GrabWithTimer(t)
    <2>1. PICK s \in Slots : /\ StartTimer(s)
                             /\ userParam' = [userParam EXCEPT ![s] = 0]
                             /\ p_info' = [p_info EXCEPT ![t] = s]
      BY <1>1 DEF GrabWithTimer
    <2>2. /\ Acks /\ ~Locked
          /\ pc[t] \notin Holding /\ pc' = [pc EXCEPT ![t] = "test"]
          /\ UNCHANGED <<version, s_last_wake_timeout_info, seenVars, loopVars>>
      BY <1>1 DEF GrabWithTimer, Goto, Holding
    <2>3. QED
      BY <2>1, <2>2, StartTimerKeeps
  <1>2. CASE GrabOnly(t) \/ GrabNoMemory(t)
    <2>1. /\ pc[t] = "grab" /\ pc'[t] = "indicate"
          /\ \A r \in Threads : r # t => pc'[r] = pc[r]
          /\ UNCHANGED <<version, s_wakelock_count, timer, userParam, s_last_wake_timeout_info,
                         seen, dangling, stray, p_info, epc, fired, param>>
      BY <1>2 DEF GrabOnly, GrabNoMemory, Goto, TypeOK, seenVars
    <2>2. Acks' <=> Acks
      BY <2>1 DEF Acks
    <2>3. \A s : WillRelease(s)' <=> WillRelease(s)
      BY <2>1 DEF WillRelease
    <2>4. Acks => ~wakeLock'
      BY <1>2 DEF GrabOnly, GrabNoMemory
    <2>5. InfoInv' /\ OwnTimerInv' /\ SeenInv'
      BY <2>1, <2>2, <2>3 DEF TimerInv, InfoInv, OwnTimerInv, SeenInv
    <2>6. MutexInv'
      BY <2>1, <2>2, <2>4 DEF TimerInv, MutexInv, Holding
    <2>7. WakeLockHasTimer'
      BY <2>1, <2>2, <2>4 DEF WakeLockHasTimer, HeldHasTimer
    <2>8. QED
      BY <2>5, <2>6, <2>7 DEF TimerInv
  <1>3. QED
    BY <1>1, <1>2

\* After the call a thread goes on to start the timer, before version 13.
LEMMA IndicateTimer ==
  ASSUME TypeOK, TimerInv, NEW t \in Threads, Indicate(t)
  PROVE  TimerInv'
  <1> DEFINE l == AfterCall(t, client = NULL)
  <1>1. PICK m \in Labels : /\ pc' = [pc EXCEPT ![t] = m]
                            /\ l # "done" => m = l
                            /\ l = "done" => m \in {"idle", "grab", "resend"}
    <2>1. l \in Labels \cup {"done"} /\ Done(t, l)
      BY DEF AfterCall, Labels, Indicate
    <2>2. QED
      BY <2>1, DoneMoves
  <1>2. /\ pc[t] = "indicate"
        /\ Acks => m \in {"keep", "idle", "grab", "resend"}
        /\ ~Acks => m = "schedule"
    BY <1>1 DEF AfterCall, Indicate
  <1>3. UNCHANGED <<version, timerVars, p_info, loopVars>>
    BY DEF Indicate
  <1>4. QED
    BY <1>1, <1>2, <1>3, TimerFrame DEF TypeOK, Holding

\* Before version 13 a thread starts its timer after the call.
LEMMA ScheduleTimer ==
  ASSUME TypeOK, TimerInv, NEW t \in Threads, Schedule(t)
  PROVE  TimerInv'
  <1>1. PICK s \in Slots : /\ StartTimer(s)
                           /\ userParam' = [userParam EXCEPT ![s] = 0]
                           /\ p_info' = [p_info EXCEPT ![t] = s]
    BY DEF Schedule
  <1>2. pc[t] = "schedule" /\ ~Acks /\ s_wakelock_count' = 0
    BY DEF Schedule, TimerInv, OwnTimerInv, MutexInv
  <1>3. /\ pc[t] \notin Holding /\ pc' = [pc EXCEPT ![t] = "test"]
        /\ UNCHANGED <<version, s_last_wake_timeout_info, seenVars, loopVars>>
    BY <1>2 DEF Schedule, Goto, Holding
  <1>4. QED
    BY <1>1, <1>2, <1>3, StartTimerKeeps

\* The test: what the thread sees is published and not freed, and so nobody's
\* own timer.
LEMMA TestLastTimer ==
  ASSUME TypeOK, TimerInv, NEW t \in Threads, TestLast(t)
  PROVE  TimerInv'
  <1> USE DEF loopVars
  <1>1. /\ pc[t] = "test" /\ pc'[t] \in {"cancel", "publish"}
        /\ pc'[t] = "cancel" <=> s_last_wake_timeout_info # NULL
        /\ seen'[t] = s_last_wake_timeout_info
        /\ \A r \in Threads : r # t => pc'[r] = pc[r] /\ seen'[r] = seen[r]
        /\ UNCHANGED <<version, wakeLock, s_wakelock_count, timer, userParam,
                       s_last_wake_timeout_info, dangling, stray, p_info, epc, fired, param>>
    BY DEF TestLast, Goto, TypeOK
  <1>2. Acks' <=> Acks
    BY <1>1 DEF Acks
  <1>3. \A s : WillRelease(s)' <=> WillRelease(s)
    BY <1>1 DEF WillRelease
  <1>4. t \notin dangling
    BY <1>1 DEF TimerInv, SeenInv
  <1>5. InfoInv'
    BY <1>1 DEF TimerInv, InfoInv
  <1>6. OwnTimerInv'
    BY <1>1, <1>2, <1>3 DEF TimerInv, OwnTimerInv
  <1>7. SeenInv'
    <2>1. s_last_wake_timeout_info # NULL => /\ timer[s_last_wake_timeout_info] # "free"
                                             /\ \A r \in Threads : p_info[r] # s_last_wake_timeout_info
      BY DEF TimerInv, InfoInv, OwnTimerInv
    <2>2. QED
      BY <1>1, <1>4, <2>1 DEF TimerInv, SeenInv, TypeOK
  <1>8. MutexInv'
    <2>1. \A r \in Threads : pc'[r] \in Holding => pc[r] \in Holding
      BY <1>1 DEF Holding
    <2>2. \A r \in dangling : seen'[r] = seen[r]
      BY <1>1, <1>4 DEF TypeOK
    <2>3. QED
      BY <1>1, <1>2, <2>1, <2>2 DEF TimerInv, MutexInv
  <1>9. WakeLockHasTimer'
    BY <1>1, <1>2, <1>3 DEF TimerInv, WakeLockHasTimer, HeldHasTimer
  <1>10. QED
    BY <1>5, <1>6, <1>7, <1>8, <1>9 DEF TimerInv

\* The write.
LEMMA CancelPreviousTimer ==
  ASSUME TypeOK, TimerInv, NEW t \in Threads, CancelPrevious(t)
  PROVE  TimerInv'
  <1>1. /\ pc[t] = "cancel" /\ CancelSeen(t) /\ pc' = [pc EXCEPT ![t] = "publish"]
        /\ UNCHANGED <<version, wakeLock, s_wakelock_count, timer, s_last_wake_timeout_info,
                       p_info, loopVars>>
    BY DEF CancelPrevious, Goto
  <1>2. "publish" \in Labels
    BY DEF Labels
  <1>3. QED
    BY <1>1, <1>2, CancelSeenKeeps

\* The thread's timer becomes the one that was started last.
LEMMA PublishTimer ==
  ASSUME TypeOK, TimerInv, NEW t \in Threads, Publish(t)
  PROVE  TimerInv'
  <1> USE DEF loopVars, seenVars
  <1>1. PICK m \in Labels : /\ pc' = [pc EXCEPT ![t] = m]
                            /\ m \in {"indicate", "keep", "idle", "grab", "resend"}
    <2>1. AfterPublish(t) \in {"indicate", "keep", "done"} /\ Done(t, AfterPublish(t))
      BY DEF AfterPublish, Publish
    <2>2. QED
      BY <2>1, DoneMoves DEF Labels
  <1>2. /\ pc[t] = "publish" /\ pc'[t] = m /\ p_info'[t] = NULL
        /\ s_last_wake_timeout_info' = p_info[t]
        /\ \A r \in Threads : r # t => pc'[r] = pc[r] /\ p_info'[r] = p_info[r]
        /\ UNCHANGED <<version, wakeLock, s_wakelock_count, timer, userParam, seen, dangling, stray,
                       epc, fired, param>>
    BY <1>1 DEF Publish, TypeOK
  <1>3. Acks' <=> Acks
    BY <1>2 DEF Acks
  <1>4. \A s : WillRelease(s)' <=> WillRelease(s)
    BY <1>2 DEF WillRelease
  <1>5. /\ p_info[t] # NULL /\ p_info[t] \in Slots
        /\ stray \/ WillRelease(p_info[t])
        /\ timer[p_info[t]] # "free"
        /\ Acks \/ timer[p_info[t]] = "pending"
    BY <1>2 DEF TimerInv, OwnTimerInv, TypeOK
  <1>6. InfoInv'
    <2>1. epc = "free" => p_info[t] # fired
      BY <1>5 DEF TimerInv, InfoInv, MutexInv, WillRelease
    <2>2. QED
      BY <1>2, <1>5, <2>1 DEF TimerInv, InfoInv
  <1>7. OwnTimerInv'
    BY <1>1, <1>2, <1>3, <1>4, <1>5 DEF TimerInv, OwnTimerInv
  <1>8. SeenInv'
    BY <1>1, <1>2, SlotAssumption DEF TimerInv, SeenInv, TypeOK
  <1>9. MutexInv'
    BY <1>1, <1>2, <1>3 DEF TimerInv, MutexInv, Holding
  <1>10. WakeLockHasTimer'
    BY <1>2, <1>4, <1>5 DEF WakeLockHasTimer, HeldHasTimer
  <1>11. QED
    BY <1>6, <1>7, <1>8, <1>9, <1>10 DEF TimerInv

\* Each step of the handler.
LEMMA HandlerTimer ==
  ASSUME TypeOK, TimerInv, NEW t \in Threads, Handler(t)
  PROVE  TimerInv'
  <1>1. CASE ScheduleNoMemory(t) \/ KeepNoMemory(t)
    <2>1. /\ pc[t] \in {"schedule", "keep"} /\ pc' = [pc EXCEPT ![t] = "error"]
          /\ UNCHANGED <<version, timerVars, p_info, loopVars>>
      BY <1>1 DEF ScheduleNoMemory, KeepNoMemory, Goto
    <2>2. QED
      BY <2>1, TimerFrame DEF TypeOK, Holding
  <1>2. CASE Keep(t)
    <2>1. /\ Done(t, "done") /\ pc[t] = "keep"
          /\ UNCHANGED <<version, timerVars, p_info, loopVars>>
      BY <1>2 DEF Keep
    <2>2. PICK m \in {"idle", "grab", "resend"} : pc' = [pc EXCEPT ![t] = m]
      BY <2>1, DoneMoves
    <2>3. QED
      BY <2>1, <2>2, TimerFrame DEF TypeOK, Holding
  <1>3. CASE ErrorExit(t)
    <2>1. PICK m \in Labels : /\ pc' = [pc EXCEPT ![t] = m]
                              /\ seen'[t] # NULL => m = "release"
                              /\ seen'[t] = NULL => m \in {"idle", "grab", "resend"}
      BY <1>3, ErrorExitMoves
    <2>2. /\ pc[t] = "error" /\ releaseWakeLock(t)
          /\ UNCHANGED <<version, timer, userParam, s_last_wake_timeout_info, dangling, stray,
                         p_info, loopVars>>
      BY <1>3 DEF ErrorExit
    <2>3. QED
      BY <2>1, <2>2, releaseWakeLockKeeps
  <1>4. CASE EndRelease(t)
    <2>1. PICK m \in Labels : /\ pc' = [pc EXCEPT ![t] = m]
                              /\ m \in {"idle", "grab", "resend"}
      BY <1>4, EndReleaseMoves
    <2>2. /\ pc[t] \in {"release", "acked"} /\ CancelSeen(t)
          /\ UNCHANGED <<version, wakeLock, s_wakelock_count, timer, s_last_wake_timeout_info,
                         p_info, loopVars>>
      BY <1>4 DEF EndRelease
    <2>3. QED
      BY <2>1, <2>2, CancelSeenKeeps
  <1>5. QED
    BY <1>1, <1>2, <1>3, <1>4, GrabTimer, IndicateTimer, ScheduleTimer, TestLastTimer,
       CancelPreviousTimer, PublishTimer DEF Handler

\* A timer fires.  Before version 13, had its thread not published it, the
\* timer could be freed and s_last_wake_timeout_info set to it afterwards:
\* this is where threads that are held up would break the invariant.
LEMMA FireTimer ==
  ASSUME TypeOK, Punctual, TimerInv, NEW s \in Slots, Fire(s)
  PROVE  TimerInv'
  <1>1. Acks' <=> Acks
    BY DEF Acks, Fire
  <1>2. Acks \/ \A t \in Threads : p_info[t] # s
    BY DEF Punctual, Fire
  <1>3. /\ epc = "idle" /\ epc' = "callback" /\ fired' = s /\ param' = userParam[s]
        /\ timer[s] = "pending" /\ timer' = [timer EXCEPT ![s] = "firing"]
        /\ UNCHANGED <<wakeLock, s_wakelock_count, userParam, s_last_wake_timeout_info, seen,
                       dangling, stray, pc, p_info>>
    BY DEF Fire, threadVars, seenVars
  <1>4. timer'[s] = "firing" /\ \A r \in Slots : r # s => timer'[r] = timer[r]
    BY <1>3 DEF TypeOK
  <1>5. \A r \in Slots : WillRelease(r) => WillRelease(r)'
    BY <1>3, <1>4 DEF WillRelease
  <1>6. InfoInv'
    BY <1>3, <1>4 DEF TimerInv, InfoInv, TypeOK
  <1>7. OwnTimerInv'
    <2>1. \A t \in Threads : p_info[t] # NULL => p_info[t] \in Slots
      BY DEF TypeOK
    <2>2. \A t \in Threads : p_info[t] # NULL =>
            /\ stray \/ WillRelease(p_info[t])'
            /\ timer'[p_info[t]] # "free"
            /\ Acks \/ timer'[p_info[t]] = "pending"
      <3> SUFFICES ASSUME NEW t \in Threads, p_info[t] # NULL
                   PROVE  /\ stray \/ WillRelease(p_info[t])'
                          /\ timer'[p_info[t]] # "free"
                          /\ Acks \/ timer'[p_info[t]] = "pending"
        OBVIOUS
      <3>1. stray \/ WillRelease(p_info[t])'
        BY <1>3, <1>5, <2>1 DEF TimerInv, OwnTimerInv
      <3>2. timer[p_info[t]] # "free" /\ (Acks \/ timer[p_info[t]] = "pending")
        BY DEF TimerInv, OwnTimerInv
      <3>3. QED
        BY <1>2, <1>4, <2>1, <3>1, <3>2
    <2>3. QED
      BY <1>1, <1>3, <2>2 DEF TimerInv, OwnTimerInv
  <1>8. SeenInv'
    <2>1. \A t \in Threads : seen[t] # NULL => seen[t] \in Slots
      BY DEF TypeOK
    <2>2. QED
      BY <1>3, <1>4, <2>1 DEF TimerInv, SeenInv
  <1>9. MutexInv'
    <2>1. \A t \in dangling : timer[seen[t]] = "free" => timer'[seen[t]] = "free"
      BY <1>3 DEF TypeOK
    <2>2. QED
      BY <1>1, <1>3, <2>1 DEF TimerInv, MutexInv
  <1>10. WakeLockHasTimer'
    BY <1>1, <1>3, <1>5 DEF TimerInv, WakeLockHasTimer, HeldHasTimer
  <1>11. QED
    BY <1>6, <1>7, <1>8, <1>9, <1>10 DEF TimerInv

\* wakeTimeoutCallback().  The timer that released the wake lock was nobody's
\* own: since version 13 the mutex is free, before, own timers do not fire.
LEMMA wakeTimeoutCallbackTimer ==
  ASSUME TypeOK, TimerInv, wakeTimeoutCallback
  PROVE  TimerInv'
  <1>1. Acks' <=> Acks
    BY DEF Acks, wakeTimeoutCallback
  <1>2. /\ epc = "callback" /\ epc' = "check"
        /\ UNCHANGED <<timer, userParam, s_last_wake_timeout_info, seen, dangling, stray, pc,
                       p_info, fired, param>>
    BY DEF wakeTimeoutCallback, threadVars, seenVars
  <1>3. /\ param = 0 => ~Locked /\ ~wakeLock' /\ s_wakelock_count' = 0
        /\ param # 0 => UNCHANGED <<wakeLock, s_wakelock_count>>
    BY DEF wakeTimeoutCallback
  <1>4. \A t \in Threads : p_info[t] # NULL => stray \/ WillRelease(p_info[t])'
    <2>1. CASE Acks /\ param = 0
      BY <1>3, <2>1, Unlocked
    <2>2. CASE ~Acks
      BY <1>2, <2>2 DEF TimerInv, InfoInv, OwnTimerInv, WillRelease
    <2>3. CASE param # 0
      BY <1>2, <2>3 DEF TimerInv, OwnTimerInv, WillRelease
    <2>4. QED
      BY <2>1, <2>2, <2>3
  <1>5. InfoInv'
    BY <1>2 DEF TimerInv, InfoInv
  <1>6. OwnTimerInv'
    BY <1>1, <1>2, <1>4 DEF TimerInv, OwnTimerInv
  <1>7. SeenInv'
    BY <1>2 DEF TimerInv, SeenInv
  <1>8. MutexInv'
    BY <1>1, <1>2, <1>3 DEF TimerInv, MutexInv
  <1>9. WakeLockHasTimer'
    BY <1>1, <1>2, <1>3 DEF TimerInv, WakeLockHasTimer, HeldHasTimer, WillRelease
  <1>10. QED
    BY <1>5, <1>6, <1>7, <1>8, <1>9 DEF TimerInv

\* The rest of userTimerCallback().  Threads that saw the block that is freed
\* are left with a dangling pointer, and since version 13 the block stays free
\* until they are through.
LEMMA CallbackTimer ==
  ASSUME TypeOK, TimerInv, CheckLast \/ ClearLast \/ FreeInfo
  PROVE  TimerInv'
  <1> USE DEF threadVars, seenVars
  <1>1. Acks' <=> Acks
    BY DEF Acks, CheckLast, ClearLast, FreeInfo
  <1>2. CASE CheckLast \/ ClearLast
    <2>1. /\ epc \in {"check", "clear"} /\ epc' \in {"clear", "free"}
          /\ epc' = "free" => s_last_wake_timeout_info' # fired \/ s_last_wake_timeout_info' = NULL
          /\ s_last_wake_timeout_info' \in {s_last_wake_timeout_info, NULL}
          /\ UNCHANGED <<wakeLock, s_wakelock_count, timer, userParam, seen, dangling, stray, pc,
                         p_info, fired, param>>
      BY <1>2 DEF CheckLast, ClearLast, timerVars
    <2>2. \A r \in Slots : WillRelease(r)' <=> WillRelease(r)
      BY <2>1 DEF WillRelease
    <2>3. InfoInv'
      BY <2>1 DEF TimerInv, InfoInv
    <2>4. OwnTimerInv'
      BY <1>1, <2>1, <2>2 DEF TimerInv, OwnTimerInv, TypeOK
    <2>5. SeenInv' /\ MutexInv'
      BY <1>1, <2>1 DEF TimerInv, SeenInv, MutexInv
    <2>6. WakeLockHasTimer'
      BY <1>1, <2>1, <2>2 DEF TimerInv, WakeLockHasTimer, HeldHasTimer
    <2>7. QED
      BY <2>3, <2>4, <2>5, <2>6 DEF TimerInv
  <1>3. CASE FreeInfo
    <2>1. /\ fired \in Slots /\ fired # NULL /\ timer[fired] = "firing"
          /\ fired # s_last_wake_timeout_info
          /\ timer' = [timer EXCEPT ![fired] = "free"]
          /\ userParam' = [userParam EXCEPT ![fired] = 0]
          /\ dangling' = dangling \cup {t \in Threads : seen[t] = fired}
          /\ UNCHANGED <<wakeLock, s_wakelock_count, s_last_wake_timeout_info, seen, stray, pc,
                         p_info>>
          /\ epc = "free" /\ epc' = "idle"
      BY <1>3, SlotAssumption DEF FreeInfo, TimerInv, InfoInv, Slots
    <2>2. /\ timer'[fired] = "free"
          /\ \A r \in Slots : r # fired => timer'[r] = timer[r] /\ userParam'[r] = userParam[r]
      BY <2>1 DEF TypeOK
    <2>3. \A r \in Slots : WillRelease(r) => WillRelease(r)'
      BY <2>1, <2>2 DEF WillRelease
    <2>4. InfoInv'
      BY <2>1, <2>2 DEF TimerInv, InfoInv, TypeOK
    <2>5. OwnTimerInv'
      <3>1. \A t \in Threads : p_info[t] # NULL => p_info[t] \in Slots /\ p_info[t] # fired
        <4>1. \A t \in Threads : p_info[t] # NULL => p_info[t] \in Slots
          BY DEF TypeOK
        <4>2. \A t \in Threads : p_info[t] # NULL => timer[p_info[t]] = "pending"
          BY <2>1 DEF TimerInv, OwnTimerInv, MutexInv, WillRelease
        <4>3. QED
          BY <2>1, <4>1, <4>2
      <3>2. QED
        BY <1>1, <2>1, <2>2, <2>3, <3>1 DEF TimerInv, OwnTimerInv
    <2>6. SeenInv'
      <3>1. \A t \in Threads : seen[t] # NULL => seen[t] \in Slots
        BY DEF TypeOK
      <3>2. QED
        BY <2>1, <2>2, <3>1 DEF TimerInv, SeenInv
    <2>7. MutexInv'
      <3>1. \A t \in dangling : timer[seen[t]] = "free" => timer'[seen[t]] = "free"
        BY <2>1 DEF TypeOK
      <3>2. \A t \in dangling' : t \in dangling \/ timer'[seen[t]] = "free"
        BY <2>1, <2>2
      <3>3. QED
        BY <1>1, <2>1, <3>1, <3>2 DEF TimerInv, MutexInv
    <2>8. WakeLockHasTimer'
      BY <1>1, <2>1, <2>3 DEF TimerInv, WakeLockHasTimer, HeldHasTimer
    <2>9. QED
      BY <2>4, <2>5, <2>6, <2>7, <2>8 DEF TimerInv
  <1>4. QED
    BY <1>2, <1>3

\* The vendor's call, the client and the resending of the copy.
LEMMA OthersTimer ==
  ASSUME TypeOK, TimerInv,
         \/ \E t \in Vendors, n \in 0 .. MaxUnsol : Unsol(t, n)
         \/ Resend \/ ResendFree \/ Client
  PROVE  TimerInv'
  <1> USE DEF threadVars, Holding
  <1>1. CASE \E t \in Vendors, n \in 0 .. MaxUnsol : Unsol(t, n)
    BY <1>1, TimerFrame DEF Unsol, Goto, Threads, TypeOK
  <1>2. CASE Resend \/ ResendFree
    BY <1>2, TimerFrame DEF Resend, ResendFree, Goto, TypeOK
  <1>3. CASE ClientStart \/ ClientDie
    BY <1>3, TimerFrame DEF ClientStart, ClientDie
  <1>4. CASE Connect
    BY <1>4, TimerFrame DEF Connect, Goto, TypeOK
  <1>5. CASE responseAcknowledgement
    <2> DEFINE m == IF seen'[Binder] = NULL THEN "idle" ELSE "acked"
    <2>1. /\ Binder \in Threads /\ pc[Binder] = "idle" /\ releaseWakeLock(Binder)
          /\ pc' = [pc EXCEPT ![Binder] = m] /\ m \in Labels
          /\ UNCHANGED <<version, timer, userParam, s_last_wake_timeout_info, dangling, stray,
                         p_info, loopVars>>
      BY <1>5 DEF responseAcknowledgement, Goto, Threads, Labels
    <2>2. QED
      BY <2>1, releaseWakeLockKeeps
  <1>6. QED
    BY <1>1, <1>2, <1>3, <1>4, <1>5 DEF Client

\* Wherever timers are published before they fire: every thread that has
\* started a timer still has it, a thread that has tested the pointer holds a
\* timer or a freed block, and the wake lock has its timer, all until a stray
\* write; and since version 13 there is no stray write.
THEOREM TimerInductive == Spec => [](TypeOK /\ (Punctual => TimerInv))
  <1>1. Init => TimerInv
    BY SlotAssumption DEF Init, TimerInv, InfoInv, OwnTimerInv, SeenInv, MutexInv,
       WakeLockHasTimer, HeldHasTimer, Holding
  <1>2. TypeOK /\ (Punctual => TimerInv) /\ [Next]_vars => (Punctual => TimerInv)'
    <2> SUFFICES ASSUME TypeOK, Punctual => TimerInv, [Next]_vars, Punctual' PROVE TimerInv'
      OBVIOUS
    <2>1. UNCHANGED version
      BY DEF Next, Unsol, Handler, GrabOnly, GrabWithTimer, GrabNoMemory, Indicate, Schedule,
         ScheduleNoMemory, TestLast, CancelPrevious, Publish, Keep, KeepNoMemory, ErrorExit,
         EndRelease, Resend, ResendFree, EventLoop, Fire, wakeTimeoutCallback, CheckLast, ClearLast,
         FreeInfo, Client, ClientStart, ClientDie, Connect, responseAcknowledgement, vars
    <2>2. Punctual /\ TimerInv
      BY <2>1 DEF Punctual, Acks
    <2>3. CASE Next
      BY <2>2, <2>3, HandlerTimer, FireTimer, wakeTimeoutCallbackTimer, CallbackTimer, OthersTimer
         DEF Next, EventLoop
    <2>4. CASE UNCHANGED vars
      BY <2>2, <2>4, TimerFrame DEF vars, threadVars
    <2>5. QED
      BY <2>3, <2>4
  <1>3. QED
    BY <1>1, <1>2, TypeCorrect, PTL DEF Spec

\* "as we exit we'll either release it immediately or set a timer to release
\* it later": if no thread is held up for longer than the timeout, the wake
\* lock is never held without a timer that will release it, for any number of
\* threads, acknowledgements and client deaths, unless a thread has cancelled
\* a timer at the address of one that was freed between the thread's test of
\* s_last_wake_timeout_info and its write.
THEOREM WakeLockAlwaysHasTimer ==
  ASSUME ~SlowThreads
  PROVE  Spec => []WakeLockHasTimer
  <1>1. (Punctual => TimerInv) => WakeLockHasTimer
    BY DEF Punctual, TimerInv
  <1>2. QED
    BY <1>1, TimerInductive, PTL

\* Since version 13 timers are started, cancelled and published under the
\* mutex: no stray write happens though the event loop frees without it, and
\* the wake lock has its timer however long a thread is held up.
THEOREM AcksAlwaysHaveTimer == Spec => [](Acks => ~stray /\ WakeLockHasTimer)
  <1>1. (Punctual => TimerInv) => (Acks => ~stray /\ WakeLockHasTimer)
    BY DEF Punctual, TimerInv, MutexInv
  <1>2. QED
    BY <1>1, TimerInductive, PTL
=============================================================================
