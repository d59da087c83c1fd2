------------------------- MODULE FingerprintProofs -------------------------
(***************************************************************************)
(* Proofs about the sessions of the fingerprint HAL, for tables and         *)
(* enrolments of any size.                                                  *)
(***************************************************************************)
EXTENDS Fingerprint, FiniteSetTheorems, WellFoundedInduction, TLAPS

\* A set of natural numbers that is not empty has a least element.
LEMMA LeastElement ==
  ASSUME NEW T \in SUBSET Nat, T # {}
  PROVE  \E x \in T : \A y \in T : x <= y
  <1>1. PICK x \in T : \A y \in T : ~(<<y, x>> \in OpToRel(<, Nat))
    BY NatLessThanWellFounded, WFMin
  <1>2. \A y \in T : x <= y
    <2> SUFFICES ASSUME NEW y \in T PROVE x <= y
      OBVIOUS
    <2>1. ~(y < x)
      BY <1>1 DEF OpToRel
    <2>2. QED
      BY <2>1
  <1>3. QED
    BY <1>2

\* The finger an enrolment picks does not exist: when the table is full it is
\* the place behind the last one.
LEMMA FirstFreeIsFree ==
  ASSUME finger \in SUBSET Fingers
  PROVE  FirstFree \in Nat /\ FirstFree \notin finger
  <1> DEFINE free == {i \in 1 .. MaxFingers + 1 : i \notin finger}
  <1>1. MaxFingers + 1 \in free
    BY FingerprintAssumption DEF Fingers
  <1>2. PICK x \in free : \A y \in free : x <= y
    <2>1. free \in SUBSET Nat /\ free # {}
      BY <1>1
    <2> HIDE DEF free
    <2>2. QED
      BY <2>1, LeastElement
  <1>3. 1 .. x - 1 \subseteq finger
    BY <1>2, FingerprintAssumption
  <1>4. QED
    BY <1>3 DEF FirstFree

\* The table of fingers is finite.
LEMMA FingersFinite ==
  ASSUME finger \in SUBSET Fingers
  PROVE  IsFiniteSet(finger)
  <1>1. 1 \in Int /\ MaxFingers \in Int
    BY FingerprintAssumption
  <1>2. IsFiniteSet(Fingers)
    BY <1>1, FS_Interval DEF Fingers
  <1>3. QED
    BY <1>2, FS_Subset

\* Two fingers have different places among the existing ones.
LEMMA RankStrict ==
  ASSUME finger \in SUBSET Fingers, NEW f \in finger, NEW g \in finger, f < g
  PROVE  Rank(f) \in Nat /\ Rank(g) \in Nat /\ Rank(f) < Rank(g)
  <1> DEFINE upto(x) == {j \in finger : j <= x}
  <1>1. IsFiniteSet(finger)
    BY FingersFinite
  <1>2. IsFiniteSet(upto(f)) /\ IsFiniteSet(upto(g))
    BY <1>1, FS_Subset
  <1>3. upto(f) \subseteq upto(g) /\ upto(f) # upto(g)
    <2>1. f \in Nat /\ g \in Nat /\ finger \subseteq Nat
      BY DEF Fingers
    <2>2. g \in upto(g) /\ g \notin upto(f)
      BY <2>1
    <2>3. \A j \in finger : j <= f => j <= g
      BY <2>1
    <2>4. upto(f) \subseteq upto(g)
      BY <2>3
    <2>5. QED
      BY <2>2, <2>4
  <1>4. Cardinality(upto(f)) \in Nat /\ Cardinality(upto(g)) \in Nat
    BY <1>2, FS_CardinalityType
  <1>5. Cardinality(upto(f)) < Cardinality(upto(g))
    BY <1>2, <1>3, <1>4, FS_Subset
  <1>6. QED
    BY <1>4, <1>5 DEF Rank

\* The place of a finger, counted from 0 as the trustlet does, leads back to
\* the finger.
LEMMA FingerAtRank ==
  ASSUME finger \in SUBSET Fingers, NEW f \in finger
  PROVE  FingerAt(Rank(f) - 1) = f
  <1>1. f \in Nat /\ finger \subseteq Nat
    BY DEF Fingers
  <1>2. Rank(f) \in Nat
    <2>1. IsFiniteSet(finger)
      BY FingersFinite
    <2>2. QED
      BY <2>1, FS_Subset, FS_CardinalityType DEF Rank
  <1>3. \A g \in finger : Rank(g) = Rank(f) => g = f
    BY <1>1, RankStrict
  <1>4. Rank(f) = Rank(f) - 1 + 1
    BY <1>2
  <1>5. \A g \in finger : Rank(g) = Rank(f) - 1 + 1 <=> g = f
    BY <1>3, <1>4
  <1>6. QED
    BY <1>5 DEF FingerAt

-----------------------------------------------------------------------------
\* The calling thread goes to another place, or returns.
LEMMA ClientMoves ==
  ASSUME TypeOK
  PROVE  /\ \A pc \in {"app", "spawn", "timer", "check", "cancel", "wake", "poll", "close", "gone",
                       "crashed"} : [client EXCEPT !.pc = pc] \in ClientStates
         /\ Returned \in ClientStates
  <1>1. Returned \in ClientStates
    BY DEF Returned, ClientStates
  <1>2. QED
    BY <1>1 DEF TypeOK, ClientStates

\* The worker goes to another place, or ends.
LEMMA WorkerMoves ==
  ASSUME TypeOK
  PROVE  /\ \A pc \in UsesTrustlet \cup {"none", "tellOut", "tellLast", "tellAuthenticated",
                                        "outIdle", "uninit", "uninitIdle", "authIdle"} :
              [worker EXCEPT !.pc = pc] \in WorkerStates
         /\ NoWorker \in WorkerStates
  <1>1. NoWorker \in WorkerStates
    BY DEF NoWorker, WorkerStates
  <1>2. QED
    BY <1>1 DEF TypeOK, WorkerStates

\* A call of the client begins: the types are kept.
LEMMA CallType ==
  ASSUME Inv, Open, Call
  PROVE  TypeOK'
  <1>1. CASE fingerprint_open
    <2>1. client' \in ClientStates
      BY <1>1, ClientMoves DEF Inv, fingerprint_open
    <2>2. QED
      BY <1>1, <2>1 DEF Inv, TypeOK, fingerprint_open
  <1>2. CASE \E fingers \in SUBSET Fingers : ChangeFingers(fingers)
    BY <1>2 DEF TypeOK, Inv, ChangeFingers
  <1>3. CASE fingerprint_authenticate
    BY <1>3, FingerprintAssumption, ZenonT(60)
       DEF TypeOK, AppInv, WorkerInv, Inv, fingerprint_authenticate,
       Calls, ClientStates, WorkerStates, Returned, Capturing, UsesTrustlet, Sessions
  <1>4. CASE \E timeout \in BOOLEAN : fingerprint_enroll(timeout)
    BY <1>4 DEF TypeOK, Inv, fingerprint_enroll, Calls, ClientStates, Returned, Sessions
  <1>5. CASE \E kind \in {"cancel", "close"} : fingerprint_cancel(kind)
    BY <1>5 DEF TypeOK, Inv, fingerprint_cancel, Calls, ClientStates, Returned
  <1>6. QED
    BY <1>1, <1>2, <1>3, <1>4, <1>5 DEF Call

\* A call takes the trustlet from nobody: the fingers change between sessions only.
LEMMA CallApp ==
  ASSUME Inv, Open, Call
  PROVE  AppInv'
  <1>1. CASE fingerprint_open
    BY <1>1 DEF TypeOK, AppInv, Inv, fingerprint_open, ClientStates, Returned
  <1>2. CASE \E fingers \in SUBSET Fingers : ChangeFingers(fingers)
    BY <1>2 DEF AppInv, Inv, ChangeFingers
  <1>3. CASE fingerprint_authenticate
    BY <1>3 DEF AppInv, Inv, fingerprint_authenticate, Calls, Sessions
  <1>4. CASE \E timeout \in BOOLEAN : fingerprint_enroll(timeout)
    BY <1>4 DEF AppInv, Inv, fingerprint_enroll, Calls, Sessions
  <1>5. CASE \E kind \in {"cancel", "close"} : fingerprint_cancel(kind)
    BY <1>5 DEF AppInv, Inv, fingerprint_cancel, Calls
  <1>6. QED
    BY <1>1, <1>2, <1>3, <1>4, <1>5 DEF Call

\* Fingers change only when there is no worker, so the finger an enrolment works on
\* stays free.
LEMMA CallSess ==
  ASSUME Inv, Open, Call
  PROVE  WorkerInv'
  <1>1. CASE fingerprint_open
    BY <1>1 DEF AppInv, WorkerInv, Inv, fingerprint_open, Ended, Capturing, UsesTrustlet,
       StoredWhenComplete
  <1>2. CASE \E fingers \in SUBSET Fingers : ChangeFingers(fingers)
    BY <1>2 DEF WorkerInv, Inv, ChangeFingers, Ended, Capturing, UsesTrustlet, StoredWhenComplete
  <1>3. CASE fingerprint_authenticate
    BY <1>3 DEF WorkerInv, Inv, fingerprint_authenticate, Ended, StoredWhenComplete
  <1>4. CASE \E timeout \in BOOLEAN : fingerprint_enroll(timeout)
    BY <1>4 DEF WorkerInv, Inv, fingerprint_enroll, Ended, StoredWhenComplete
  <1>5. CASE \E kind \in {"cancel", "close"} : fingerprint_cancel(kind)
    BY <1>5 DEF WorkerInv, Inv, fingerprint_cancel, Ended, StoredWhenComplete
  <1>6. QED
    BY <1>1, <1>2, <1>3, <1>4, <1>5 DEF Call

\* The calling thread goes on: the types are kept.
LEMMA ClientType ==
  ASSUME Inv, Open, ClientStep
  PROVE  TypeOK'
  <1>1. CASE GiveUp
    BY <1>1 DEF TypeOK, Inv, GiveUp, ClientStates, Returned
  <1>2. CASE Claim
    BY <1>2, FingerprintAssumption DEF TypeOK, AppInv, WorkerInv, Inv, Claim, Ended,
       ClientStates, WorkerStates, Capturing, UsesTrustlet, Sessions
  <1>3. CASE vcs_init
    <2>1. client' \in ClientStates
      BY <1>3, ClientMoves DEF Inv, vcs_init
    <2>2. app' \in [init : BOOLEAN, open : BOOLEAN]
      <3>1. app \in [init : BOOLEAN, open : BOOLEAN]
        BY DEF Inv, TypeOK
      <3>2. /\ [app EXCEPT !.open = TRUE] \in [init : BOOLEAN, open : BOOLEAN]
            /\ [init |-> TRUE, open |-> TRUE] \in [init : BOOLEAN, open : BOOLEAN]
        BY <3>1
      <3>3. app' \in {app, [init |-> TRUE, open |-> TRUE], [app EXCEPT !.open = TRUE]}
        BY <1>3, Zenon DEF vcs_init
      <3>4. QED
        BY <3>1, <3>2, <3>3
    <2>3. QED
      BY <1>3, <2>1, <2>2 DEF Inv, TypeOK, vcs_init
  <1>4. CASE Spawn
    BY <1>4, FingerprintAssumption DEF TypeOK, AppInv, Inv, Spawn, NoWorker, ClientStates,
       WorkerStates, Returned, Capturing, UsesTrustlet
  <1>5. CASE SpawnTimer
    BY <1>5 DEF TypeOK, Inv, SpawnTimer, ClientStates, Returned
  <1>6. CASE SpawnFails
    BY <1>6 DEF TypeOK, Inv, SpawnFails, ClientStates, Returned
  <1>7. CASE StopTimer
    BY <1>7 DEF TypeOK, Inv, StopTimer, ClientStates
  <1>8. CASE JoinTimer
    BY <1>8 DEF TypeOK, Inv, JoinTimer, ClientStates
  <1>9. CASE CancelCheck
    BY <1>9 DEF TypeOK, Inv, CancelCheck, Cancelled, ClientStates, Returned
  <1>10. CASE CancelSet
    BY <1>10 DEF TypeOK, Inv, CancelSet, ClientStates
  <1>11. CASE CancelWake
    BY <1>11 DEF TypeOK, Inv, CancelWake, WakeWorker, ClientStates, WorkerStates, Capturing,
       UsesTrustlet
  <1>12. CASE CancelPoll
    BY <1>12 DEF TypeOK, Inv, CancelPoll, Cancelled, ClientStates, Returned
  <1>13. CASE fingerprint_close
    BY <1>13 DEF TypeOK, Inv, fingerprint_close, Closed, ClientStates
  <1>14. QED
    BY <1>1, <1>2, <1>3, <1>4, <1>5, <1>6, <1>7, <1>8, <1>9, <1>10, <1>11, <1>12, <1>13
       DEF ClientStep

\* A session that starts while a worker is alive marks both as not alone; one that
\* starts alone has opened the trustlet before it has a worker.
LEMMA ClientApp ==
  ASSUME Inv, Open, ClientStep
  PROVE  AppInv'
  <1>1. CASE GiveUp
    BY <1>1 DEF AppInv, Inv, GiveUp, Returned
  <1>2. CASE Claim
    BY <1>2 DEF TypeOK, AppInv, Inv, Claim, Ended, ClientStates, WorkerStates, Capturing,
       UsesTrustlet
  <1>3. CASE vcs_init
    BY <1>3 DEF TypeOK, AppInv, Inv, vcs_init, ClientStates, Returned, Ended
  <1>4. CASE Spawn
    BY <1>4 DEF AppInv, Inv, Spawn, Returned
  <1>5. CASE SpawnTimer
    BY <1>5 DEF AppInv, Inv, SpawnTimer, Returned
  <1>6. CASE SpawnFails
    BY <1>6 DEF AppInv, Inv, SpawnFails, Returned
  <1>7. CASE StopTimer
    BY <1>7 DEF AppInv, Inv, StopTimer
  <1>8. CASE JoinTimer
    BY <1>8 DEF AppInv, Inv, JoinTimer
  <1>9. CASE CancelCheck
    BY <1>9 DEF AppInv, Inv, CancelCheck, Cancelled, Returned
  <1>10. CASE CancelSet
    BY <1>10 DEF AppInv, Inv, CancelSet
  <1>11. CASE CancelWake
    BY <1>11 DEF AppInv, Inv, CancelWake, WakeWorker, Capturing, UsesTrustlet
  <1>12. CASE CancelPoll
    BY <1>12 DEF AppInv, Inv, CancelPoll, Cancelled, Returned
  <1>13. CASE fingerprint_close
    BY <1>13 DEF AppInv, fingerprint_close, Closed, Open
  <1>14. QED
    BY <1>1, <1>2, <1>3, <1>4, <1>5, <1>6, <1>7, <1>8, <1>9, <1>10, <1>11, <1>12, <1>13
       DEF ClientStep

\* A new worker has all its images to take; the state of a session is set while no
\* undisturbed worker is at its end.
LEMMA ClientSess ==
  ASSUME Inv, Open, ClientStep
  PROVE  WorkerInv'
  <1>1. CASE GiveUp
    BY <1>1 DEF WorkerInv, Inv, GiveUp, Ended, StoredWhenComplete
  <1>2. CASE Claim
    BY <1>2 DEF TypeOK, WorkerInv, Inv, Claim, Ended, WorkerStates, StoredWhenComplete
  <1>3. CASE vcs_init
    BY <1>3 DEF WorkerInv, Inv, vcs_init, Ended, StoredWhenComplete
  <1>4. CASE Spawn
    <2>1. /\ worker'.pc = "begin" /\ worker'.kind = client.kind /\ worker'.count = Samples
          /\ worker'.idx = 0 /\ worker'.fid = 0 /\ worker'.matched = 0 /\ UNCHANGED finger
      BY <1>4 DEF Spawn, NoWorker
    <2>2. client.kind \in Sessions /\ Samples > 0 /\ 0 \notin finger
      BY <1>4, FingerprintAssumption DEF Spawn, Inv, AppInv, TypeOK, Fingers
    <2>3. QED
      BY <2>1, <2>2 DEF WorkerInv, StoredWhenComplete
  <1>5. CASE SpawnTimer
    BY <1>5 DEF WorkerInv, Inv, SpawnTimer, Ended, StoredWhenComplete
  <1>6. CASE SpawnFails
    BY <1>6 DEF WorkerInv, Inv, SpawnFails, Ended, StoredWhenComplete
  <1>7. CASE StopTimer
    BY <1>7 DEF WorkerInv, Inv, StopTimer, Ended, StoredWhenComplete
  <1>8. CASE JoinTimer
    BY <1>8 DEF WorkerInv, Inv, JoinTimer, Ended, StoredWhenComplete
  <1>9. CASE CancelCheck
    BY <1>9 DEF WorkerInv, Inv, CancelCheck, Ended, StoredWhenComplete
  <1>10. CASE CancelSet
    BY <1>10 DEF WorkerInv, Inv, CancelSet, Ended, StoredWhenComplete
  <1>11. CASE CancelWake
    BY <1>11 DEF WorkerInv, Inv, CancelWake, WakeWorker, Capturing, UsesTrustlet, Ended,
       StoredWhenComplete
  <1>12. CASE CancelPoll
    BY <1>12 DEF WorkerInv, Inv, CancelPoll, Ended, StoredWhenComplete
  <1>13. CASE fingerprint_close
    BY <1>13 DEF WorkerInv, Inv, fingerprint_close, Ended, StoredWhenComplete
  <1>14. QED
    BY <1>1, <1>2, <1>3, <1>4, <1>5, <1>6, <1>7, <1>8, <1>9, <1>10, <1>11, <1>12, <1>13
       DEF ClientStep

\* The sensor's signal, in time or not, and the timeout thread: the types are kept.
LEMMA OtherType ==
  ASSUME Inv, Open, sensor_process_signal \/ SignalHangs \/ TimerStep
  PROVE  TypeOK'
  <1>1. CASE sensor_process_signal
    BY <1>1 DEF TypeOK, Inv, sensor_process_signal, WakeWorker, WorkerStates, Capturing,
       UsesTrustlet
  <1>2. CASE TimerStep
    BY <1>2 DEF TypeOK, Inv, TimerStep, TimerWait, TimerExpires, TimerUnlocks, TimerChecks,
       TimerCancels, TimerPolls, TimerTells
  <1>3. CASE SignalHangs
    BY <1>3 DEF TypeOK, Inv, SignalHangs, ClientStates, Returned
  <1>4. QED
    BY <1>1, <1>2, <1>3

\* None of them touches the trustlet; the signal wakes the worker.
LEMMA OtherApp ==
  ASSUME Inv, Open, sensor_process_signal \/ SignalHangs \/ TimerStep
  PROVE  AppInv'
  <1>1. CASE sensor_process_signal
    BY <1>1 DEF AppInv, Inv, sensor_process_signal, WakeWorker, Capturing, UsesTrustlet, Ended
  <1>2. CASE TimerStep
    BY <1>2 DEF AppInv, Inv, TimerStep, TimerWait, TimerExpires, TimerUnlocks, TimerChecks,
       TimerCancels, TimerPolls, TimerTells, Ended
  <1>3. CASE SignalHangs
    BY <1>3 DEF AppInv, Inv, SignalHangs, Returned, Ended, Open
  <1>4. QED
    BY <1>1, <1>2, <1>3

\* None of them starts a session or stores a finger.
LEMMA OtherSess ==
  ASSUME Inv, Open, sensor_process_signal \/ SignalHangs \/ TimerStep
  PROVE  WorkerInv'
  <1>1. CASE sensor_process_signal
    BY <1>1 DEF WorkerInv, Inv, sensor_process_signal, WakeWorker, Capturing, UsesTrustlet,
       Ended, StoredWhenComplete
  <1>2. CASE TimerStep
    BY <1>2 DEF WorkerInv, Inv, TimerStep, TimerWait, TimerExpires, TimerUnlocks, TimerChecks,
       TimerCancels, TimerPolls, TimerTells, Ended, StoredWhenComplete
  <1>3. CASE SignalHangs
    BY <1>3 DEF WorkerInv, Inv, SignalHangs, Ended, StoredWhenComplete
  <1>4. QED
    BY <1>1, <1>2, <1>3

\* The worker goes on: the types are kept, and its count does not run below zero.
LEMMA WorkerType ==
  ASSUME Inv, Open, WorkerStep
  PROVE  TypeOK'
  <1>1. CASE Begin
    <2>1. [worker EXCEPT !.pc = "loop", !.idx = FirstFree] \in WorkerStates
      BY FirstFreeIsFree DEF Inv, TypeOK, WorkerStates, UsesTrustlet, Capturing
    <2>2. worker' \in WorkerStates
      BY <1>1, <2>1, WorkerMoves DEF Inv, Begin, Goto, UsesTrustlet, Capturing
    <2>3. QED
      BY <1>1, <2>2 DEF Inv, TypeOK, Begin, Shared
  <1>2. CASE Loop
    BY <1>2 DEF TypeOK, Inv, Loop, Goto, Shared, WorkerStates, Capturing, UsesTrustlet
  <1>3. CASE CaptureStart
    BY <1>3 DEF TypeOK, Inv, CaptureStart, Goto, Out, WorkerStates, Capturing, UsesTrustlet
  <1>4. CASE CaptureWait
    BY <1>4 DEF TypeOK, Inv, CaptureWait, Goto, Shared, CheckState, WorkerStates, Capturing,
       UsesTrustlet
  <1>5. CASE Capture
    BY <1>5 DEF TypeOK, Inv, Capture, Goto, Out, CheckState, WorkerStates, Capturing, UsesTrustlet
  <1>6. CASE Match
    <2>1. ASSUME NEW f \in finger
          PROVE  [worker EXCEPT !.pc = "uninit", !.matched = f, !.fid = FingerAt(Rank(f) - 1)]
                   \in WorkerStates
      <3>1. FingerAt(Rank(f) - 1) = f /\ f \in Nat
        BY FingerAtRank DEF Inv, TypeOK, Fingers
      <3>2. QED
        BY <3>1 DEF Inv, TypeOK, WorkerStates
    <2>2. worker' \in WorkerStates
      BY <1>6, <2>1, WorkerMoves DEF Inv, Match, Goto, UsesTrustlet, Capturing
    <2>3. QED
      BY <1>6, <2>2 DEF Inv, TypeOK, Match, Shared
  <1>7. CASE AddImage
    <2>1. worker.count \in Nat /\ worker.count > 0
      BY <1>7 DEF AddImage, At, Inv, TypeOK, WorkerStates, WorkerInv, Capturing
    <2>2. ASSUME NEW last \in BOOLEAN
          PROVE  [worker EXCEPT !.pc = "tellSample",
                    !.count = CASE last -> 0
                                [] ~last /\ @ = 1 -> 1
                                [] OTHER -> @ - 1] \in WorkerStates
      <3>1. ASSUME NEW n \in Nat
            PROVE  [worker EXCEPT !.pc = "tellSample", !.count = n] \in WorkerStates
        BY DEF Inv, TypeOK, WorkerStates, UsesTrustlet
      <3>2. (CASE last -> 0
               [] ~last /\ worker.count = 1 -> 1
               [] OTHER -> worker.count - 1) \in Nat
        BY <2>1
      <3>3. QED
        BY <3>1, <3>2
    <2>3. worker' \in WorkerStates
      BY <1>7, <2>2, WorkerMoves DEF Inv, AddImage, Goto, UsesTrustlet, Capturing
    <2>4. QED
      BY <1>7, <2>3 DEF Inv, TypeOK, AddImage, Shared
  <1>8. CASE Tell
    <2>1. worker' \in WorkerStates
      BY <1>8, WorkerMoves DEF Inv, Tell, Goto, UsesTrustlet, Capturing
    <2>2. QED
      BY <1>8, <2>1 DEF Inv, TypeOK, Tell, Shared
  <1>9. CASE Finish
    BY <1>9 DEF TypeOK, Inv, Finish, Goto, WorkerStates
  <1>10. CASE OutIdle
    BY <1>10 DEF TypeOK, Inv, OutIdle, Goto, Shared, WorkerStates
  <1>11. CASE vcs_uninit
    BY <1>11 DEF TypeOK, Inv, vcs_uninit, Closed, Goto, WorkerStates
  <1>12. CASE UninitIdle
    <2>1. worker' \in WorkerStates
      BY <1>12, WorkerMoves DEF Inv, UninitIdle, Goto
    <2>2. QED
      BY <1>12, <2>1 DEF Inv, TypeOK, UninitIdle, Shared
  <1>13. CASE AuthIdle
    <2>1. worker' \in WorkerStates
      BY <1>13, WorkerMoves DEF Inv, AuthIdle, Goto
    <2>2. QED
      BY <1>13, <2>1 DEF Inv, TypeOK, AuthIdle, Shared
  <1>14. QED
    BY <1>1, <1>2, <1>3, <1>4, <1>5, <1>6, <1>7, <1>8, <1>9, <1>10, <1>11, <1>12, <1>13 DEF
       WorkerStep

\* The trustlet is closed by the worker when it has no command left.
LEMMA WorkerApp ==
  ASSUME Inv, Open, WorkerStep
  PROVE  AppInv'
  <1>1. CASE Begin
    BY <1>1, FirstFreeIsFree, FingerprintAssumption, ZenonT(60)
       DEF TypeOK, AppInv, WorkerInv, Inv, Begin,
       Goto, At, Shared, ClientStates, WorkerStates, Capturing, UsesTrustlet, Sessions, Open, Ended
  <1>2. CASE Loop
    BY <1>2 DEF AppInv, Inv, Loop, Goto, At, Shared, Capturing, UsesTrustlet, Ended
  <1>3. CASE CaptureStart
    BY <1>3 DEF TypeOK, AppInv, Inv, CaptureStart, Goto, At, WorkerStates, Ended
  <1>4. CASE CaptureWait
    BY <1>4 DEF TypeOK, AppInv, Inv, CaptureWait, Goto, At, Shared, CheckState, WorkerStates, Ended
  <1>5. CASE Capture
    BY <1>5 DEF TypeOK, AppInv, Inv, Capture, Goto, At, CheckState, WorkerStates, Ended
  <1>6. CASE Match
    BY <1>6, FingerAtRank, FingerprintAssumption, ZenonT(60)
       DEF TypeOK, AppInv, WorkerInv, Inv, Match, Goto,
       At, Shared, ClientStates, WorkerStates, Capturing, UsesTrustlet, Sessions, Open, Ended
  <1>7. CASE AddImage
    BY <1>7, FingerprintAssumption, ZenonT(60)
       DEF TypeOK, AppInv, WorkerInv, Inv, AddImage, Goto, At,
       Shared, ClientStates, WorkerStates, Capturing, UsesTrustlet, Sessions, Open, Ended
  <1>8. CASE Tell
    BY <1>8 DEF TypeOK, AppInv, Inv, Tell, Goto, At, Shared, NoWorker, WorkerStates, Capturing,
       UsesTrustlet, Ended
  <1>9. CASE Finish
    BY <1>9 DEF AppInv, Inv, Finish, Goto, At, UsesTrustlet, Ended
  <1>10. CASE OutIdle
    BY <1>10 DEF AppInv, Inv, OutIdle, Goto, At, Shared, Capturing, UsesTrustlet, Ended
  <1>11. CASE vcs_uninit
    BY <1>11 DEF AppInv, Inv, vcs_uninit, Closed, Goto, At, Capturing, UsesTrustlet, Ended
  <1>12. CASE UninitIdle
    BY <1>12 DEF TypeOK, AppInv, Inv, UninitIdle, Goto, At, Shared, NoWorker, WorkerStates,
       Capturing, UsesTrustlet, Ended
  <1>13. CASE AuthIdle
    BY <1>13 DEF TypeOK, AppInv, Inv, AuthIdle, Goto, At, Shared, NoWorker, WorkerStates,
       Capturing, UsesTrustlet, Ended
  <1>14. QED
    BY <1>1, <1>2, <1>3, <1>4, <1>5, <1>6, <1>7, <1>8, <1>9, <1>10, <1>11, <1>12, <1>13 DEF
       WorkerStep

\* An enrolment picks a free finger and stores it when it finishes.
LEMMA WorkerSess ==
  ASSUME Inv, Open, WorkerStep
  PROVE  WorkerInv'
  <1>1. CASE Begin
    BY <1>1, FirstFreeIsFree, FingerprintAssumption, ZenonT(60)
       DEF TypeOK, AppInv, WorkerInv, Inv, Begin,
       Goto, At, Shared, ClientStates, WorkerStates, Capturing, UsesTrustlet, Sessions, Ended,
       StoredWhenComplete
  <1>2. CASE Loop
    BY <1>2 DEF WorkerInv, Inv, Loop, Goto, At, Shared, Capturing, UsesTrustlet, Sessions, Ended,
       StoredWhenComplete
  <1>3. CASE CaptureStart
    BY <1>3 DEF TypeOK, WorkerInv, Inv, CaptureStart, Goto, At, Out, WorkerStates, UsesTrustlet,
       Ended, StoredWhenComplete
  <1>4. CASE CaptureWait
    BY <1>4 DEF TypeOK, WorkerInv, Inv, CaptureWait, Goto, At, Shared, CheckState, WorkerStates,
       UsesTrustlet, Ended, StoredWhenComplete
  <1>5. CASE Capture
    BY <1>5 DEF TypeOK, WorkerInv, Inv, Capture, Goto, At, Out, CheckState, WorkerStates,
       UsesTrustlet, Ended, StoredWhenComplete
  <1>6. CASE Match
    <2>1. CASE \E f \in finger :
                 worker' = [worker EXCEPT !.pc = "uninit", !.matched = f,
                                          !.fid = FingerAt(Rank(f) - 1)]
      <3>1. PICK f \in finger : worker' = [worker EXCEPT !.pc = "uninit", !.matched = f,
                                                          !.fid = FingerAt(Rank(f) - 1)]
        BY <2>1
      <3>2. /\ worker'.pc = "uninit" /\ worker'.kind = worker.kind
            /\ worker'.fid = FingerAt(Rank(f) - 1) /\ worker'.matched = f
        BY <3>1
      <3>3. FingerAt(Rank(f) - 1) = f /\ worker.kind \in Sessions
        BY <1>6, FingerAtRank DEF Inv, TypeOK, WorkerInv, Match, At, Ended
      <3>4. QED
        BY <3>2, <3>3 DEF WorkerInv, StoredWhenComplete, Capturing, UsesTrustlet
    <2>2. CASE Goto("tellAgain") \/ Goto("tellOut")
      BY <1>6, <2>2 DEF Match, At, Goto, Shared, Inv, TypeOK, WorkerInv, WorkerStates,
         StoredWhenComplete, UsesTrustlet
    <2>3. QED
      BY <1>6, <2>1, <2>2 DEF Match
  <1>7. CASE AddImage
    BY <1>7, FingerprintAssumption, ZenonT(60)
       DEF TypeOK, AppInv, WorkerInv, Inv, AddImage, Goto, At,
       Shared, ClientStates, WorkerStates, Capturing, UsesTrustlet, Sessions, Ended,
       StoredWhenComplete
  <1>8. CASE Tell
    BY <1>8 DEF TypeOK, WorkerInv, Inv, Tell, Goto, At, Shared, NoWorker, WorkerStates,
       Capturing, UsesTrustlet, Ended, StoredWhenComplete
  <1>9. CASE Finish
    BY <1>9 DEF WorkerInv, Inv, Finish, Goto, At, Capturing, UsesTrustlet, Ended, StoredWhenComplete
  <1>10. CASE OutIdle
    BY <1>10 DEF WorkerInv, Inv, OutIdle, Goto, At, Capturing, UsesTrustlet, Ended,
       StoredWhenComplete
  <1>11. CASE vcs_uninit
    BY <1>11 DEF WorkerInv, Inv, vcs_uninit, Goto, At, Capturing, UsesTrustlet, Ended,
       StoredWhenComplete
  <1>12. CASE UninitIdle
    BY <1>12 DEF TypeOK, WorkerInv, Inv, UninitIdle, Goto, NoWorker, WorkerStates, Capturing,
       UsesTrustlet, Ended, StoredWhenComplete
  <1>13. CASE AuthIdle
    BY <1>13 DEF TypeOK, WorkerInv, Inv, AuthIdle, Goto, At, NoWorker, WorkerStates, Capturing,
       UsesTrustlet, Ended, StoredWhenComplete
  <1>14. QED
    BY <1>1, <1>2, <1>3, <1>4, <1>5, <1>6, <1>7, <1>8, <1>9, <1>10, <1>11, <1>12, <1>13 DEF
       WorkerStep

-----------------------------------------------------------------------------
\* The invariant behind the theorems below: it relates the call that starts a
\* session, the trustlet and the worker.
THEOREM Inductive == Spec => []Inv
  <1>1. Init => Inv
    <2> SUFFICES ASSUME Init PROVE Inv
      OBVIOUS
    <2>1. TypeOK
      <3>1. client \in ClientStates
        BY DEF Init, Returned, ClientStates
      <3>2. worker \in WorkerStates
        BY DEF Init, NoWorker, WorkerStates
      <3>3. app \in [init : BOOLEAN, open : BOOLEAN]
        BY DEF Init, Closed
      <3>4. QED
        BY <3>1, <3>2, <3>3 DEF Init, TypeOK
    <2>2. AppInv
      BY DEF Init, AppInv, NoWorker, Closed, Ended, UsesTrustlet, Capturing
    <2>3. WorkerInv
      BY DEF Init, WorkerInv, NoWorker, Ended, Capturing, StoredWhenComplete
    <2>4. QED
      BY <2>1, <2>2, <2>3 DEF Inv
  <1>2. Inv /\ [Next]_vars => Inv'
    <2> SUFFICES ASSUME Inv, [Next]_vars PROVE Inv'
      OBVIOUS
    <2>1. CASE Open /\ Call
      BY <2>1, CallType, CallApp, CallSess DEF Inv
    <2>2. CASE Open /\ ClientStep
      BY <2>2, ClientType, ClientApp, ClientSess DEF Inv
    <2>3. CASE Open /\ (sensor_process_signal \/ SignalHangs \/ TimerStep)
      BY <2>3, OtherType, OtherApp, OtherSess DEF Inv
    <2>4. CASE Open /\ WorkerStep
      BY <2>4, WorkerType, WorkerApp, WorkerSess DEF Inv
    <2>5. CASE UNCHANGED vars
      BY <2>5 DEF vars, Inv, TypeOK, AppInv, WorkerInv, Ended, Open, StoredWhenComplete
    <2>6. QED
      BY <2>1, <2>2, <2>3, <2>4, <2>5 DEF Next
  <1>3. QED
    BY <1>1, <1>2, PTL DEF Spec

\* A worker whose session was started with no other worker alive has the
\* trustlet open at each of its commands: neither a cancellation, nor a timeout,
\* nor what an earlier session left behind closes it (vcs_init(), vcs_uninit()).
THEOREM TrustletAlwaysOpen == Spec => []TrustletStaysOpen
  <1>1. Inv => TrustletStaysOpen
    BY DEF Inv, AppInv, TrustletStaysOpen, CommandPoints, UsesTrustlet, Capturing
  <1>2. QED
    BY <1>1, Inductive, PTL

\* The finger an authentication reports is the one that matched, for a table of
\* any size and with any gaps (vcs_authenticate()).
THEOREM AlwaysReportsMatched == Spec => []ReportsMatchedFinger
  <1>1. Inv => ReportsMatchedFinger
    BY DEF Inv, WorkerInv, ReportsMatchedFinger
  <1>2. QED
    BY <1>1, Inductive, PTL

\* An enrolment that was neither cancelled between two images nor disturbed by
\* another session stores its finger with the last image (vcs_enroll()).
THEOREM AlwaysStoredComplete == Spec => []StoredWhenComplete
  <1>1. Inv => StoredWhenComplete
    BY DEF Inv, WorkerInv
  <1>2. QED
    BY <1>1, Inductive, PTL
=============================================================================
