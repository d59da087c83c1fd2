---------------------------- MODULE Fingerprint -----------------------------
(***************************************************************************)
(* The sessions of the fingerprint HAL (fingerprint/fingerprint.c and      *)
(* fingerprint_tz.c): one client thread calls it; a session, an            *)
(* authentication or an enrolment, runs in a worker thread that talks to   *)
(* the trustlet and waits for the sensor; an enrolment may have a timeout  *)
(* thread; the sensor's interrupt arrives as a signal.  They share         *)
(* tz.state, the trustlet's handle, the sensor and the table of fingers,   *)
(* whose contents are not modelled.                                        *)
(*                                                                         *)
(* get_tz_state(), set_tz_state() and a section under sensor.lock or       *)
(* tz.timeout.lock are one step each, and so is the signal handler when it *)
(* interrupts a thread outside such a section.  Inside one it waits for a  *)
(* lock that the thread under it holds, and that thread hangs.  vdev->lock *)
(* is held by the client from the start of a session to the end of its     *)
(* call; a notice needs it.                                                *)
(*                                                                         *)
(* Bound: one worker and one timeout thread are alive at a time; a new one *)
(* is created once the last has ended, though its session may have begun   *)
(* before.                                                                 *)
(* External: the trustlet, which answers every command; the framework,     *)
(* which calls from one thread and changes the group or removes fingers    *)
(* between sessions only.                                                  *)
(***************************************************************************)
EXTENDS Naturals, FiniteSets

CONSTANTS
  MaxFingers,   \* MAX_NUM_FINGERS
  Samples       \* images of an enrolment, 8 in the code

ASSUME FingerprintAssumption == MaxFingers \in Nat \ {0} /\ Samples \in Nat \ {0}

VARIABLES
  state,            \* tz.state
  app,              \* the trustlet: [init: tz.init, open: tz.qhandle is valid]
  sensor,           \* [signal, drdy]: drdy is the interrupt
  finger,           \* the fingers that exist in tz.finger
  client,           \* the calling thread
  worker,           \* the worker thread
  timer,            \* the timeout thread
  timeout_thread    \* tz.timeout.timeout_thread is set

vars == <<state, app, sensor, finger, client, worker, timer, timeout_thread>>

Fingers == 1 .. MaxFingers

NoWorker == [pc |-> "none", kind |-> "none", idx |-> 0, count |-> 0, matched |-> 0, fid |-> 0,
             alone |-> TRUE]
Returned == [pc |-> "idle", kind |-> "none", timeout |-> FALSE, alone |-> TRUE]
Closed == [init |-> FALSE, open |-> FALSE]

Ended == worker.pc = "none"
Locked == client.pc \in {"busy", "app", "spawn", "timer", "full"}
Busy == state \notin {"IDLE", "CANCEL"}

Init ==
  /\ state = "IDLE"
  /\ app = Closed
  /\ sensor = [signal |-> FALSE, drdy |-> FALSE]
  /\ finger = {}
  /\ client = [Returned EXCEPT !.pc = "closed"]
  /\ worker = NoWorker
  /\ timer = "none" /\ timeout_thread = FALSE

-----------------------------------------------------------------------------
(* The client's calls *)

\* The trustlet is started and closed twice; vcs_uninit() after a failed
\* vcs_init() uses a NULL handle.  The sensor's file may not open.
fingerprint_open ==
  /\ client.pc = "closed"
  /\ \/ client' = Returned /\ finger' \in SUBSET Fingers
     \/ client' = [client EXCEPT !.pc = "crashed"] /\ finger' \in SUBSET Fingers
     \/ client' = [client EXCEPT !.pc = "gone"] /\ UNCHANGED finger
  /\ UNCHANGED <<state, app, sensor, worker, timer, timeout_thread>>

Calls(op) == client.pc = "idle" /\ client' = op

\* fingerprint_set_active_group() and fingerprint_remove(): other fingers exist
ChangeFingers(fingers) ==
  /\ client.pc = "idle" /\ Ended
  /\ finger' = fingers
  /\ UNCHANGED <<state, app, sensor, client, worker, timer, timeout_thread>>

fingerprint_authenticate ==
  /\ Calls([Returned EXCEPT !.pc = "busy", !.kind = "SCAN"])
  /\ UNCHANGED <<state, app, sensor, finger, worker, timer, timeout_thread>>

\* The token was accepted.  With no finger free send_error_notice() locks
\* vdev->lock a second time.
fingerprint_enroll(timeout) ==
  /\ Calls([Returned EXCEPT !.pc = IF finger = Fingers THEN "full" ELSE "busy",
                            !.kind = "ENROLL", !.timeout = timeout])
  /\ UNCHANGED <<state, app, sensor, finger, worker, timer, timeout_thread>>

-----------------------------------------------------------------------------
(* The start of a session: vcs_start_authenticate(), vcs_start_enroll() *)

\* the first tries for half a second, the second once
GiveUp ==
  /\ client.pc = "busy" /\ state # "IDLE"
  /\ client' = Returned
  /\ UNCHANGED <<state, app, sensor, finger, worker, timer, timeout_thread>>

Claim ==
  /\ client.pc = "busy" /\ state = "IDLE"
  /\ state' = client.kind
  /\ client' = [client EXCEPT !.pc = "app", !.alone = Ended]
  /\ worker' = [worker EXCEPT !.alone = Ended]
  /\ UNCHANGED <<app, sensor, finger, timer, timeout_thread>>

\* Starting the app or raising the bandwidth may fail, before tz.init is set, and
\* so may vcs_resume(), after it: the call returns with tz.state as it is.
vcs_init ==
  /\ client.pc = "app"
  /\ \/ app.init /\ UNCHANGED app /\ client' = [client EXCEPT !.pc = "spawn"]
     \/ ~app.init /\ app' = [init |-> TRUE, open |-> TRUE]
        /\ client' \in {[client EXCEPT !.pc = "spawn"], Returned}
     \/ ~app.init /\ app' \in {app, [app EXCEPT !.open = TRUE]} /\ client' = Returned
  /\ UNCHANGED <<state, sensor, finger, worker, timer, timeout_thread>>

\* pthread_create() of the worker, then of the timeout thread.  Bound: there is
\* one of each, so a new one starts when the last one has ended.
Spawn ==
  /\ client.pc = "spawn" /\ Ended
  /\ worker' = [NoWorker EXCEPT !.pc = "begin", !.kind = client.kind, !.count = Samples,
                                !.alone = client.alone]
  /\ client' = IF client.timeout THEN [client EXCEPT !.pc = "timer"] ELSE Returned
  /\ UNCHANGED <<state, app, sensor, finger, timer, timeout_thread>>

SpawnTimer ==
  /\ client.pc = "timer" /\ timer = "none"
  /\ timer' = "started" /\ timeout_thread' = TRUE
  /\ client' = Returned
  /\ UNCHANGED <<state, app, sensor, finger, worker>>

\* either may fail
SpawnFails ==
  /\ client.pc \in {"spawn", "timer"}
  /\ client' = Returned
  /\ UNCHANGED <<state, app, sensor, finger, worker, timer, timeout_thread>>

-----------------------------------------------------------------------------
(* Condition variables *)

\* pthread_cond_signal(&tz.timeout.cond) is lost when the thread does not wait yet
WakeTimer == timer' = IF timer = "waiting" THEN "woken" ELSE timer

\* pthread_cond_signal(&sensor.cond)
WakeWorker == worker' = IF worker.pc = "asleep" THEN [worker EXCEPT !.pc = "wait"] ELSE worker

\* sensor_process_signal() in a thread that is in none of the sections: stops the
\* timeout, then tells the worker of a finger
sensor_process_signal ==
  /\ sensor.drdy
  /\ timeout_thread' = FALSE
  /\ IF timeout_thread THEN WakeTimer ELSE UNCHANGED timer
  /\ sensor' = [signal |-> sensor.signal \/ Busy, drdy |-> FALSE]
  /\ WakeWorker
  /\ UNCHANGED <<state, app, finger, client>>

\* the threads' sections: get_tz_state() and set_tz_state(); the accesses to
\* sensor.signal and sensor.cond; those to tz.timeout.cond
HoldsTz ==
  \/ client.pc \in {"busy", "check", "cancel", "close"}
  \/ timer \in {"check", "cancelling", "poll"}
  \/ worker.pc \in {"loop", "wait", "capture", "outIdle", "uninitIdle", "authIdle"}
  \/ worker.kind = "ENROLL" /\ worker.pc \in {"begin", "image"}

HoldsSensor == client.pc = "wake" \/ worker.pc \in {"start", "wait", "capture"}

HoldsTimeout == client.pc = "stop" \/ timer \in {"started", "woken", "expired"}

\* sensor_process_signal() in a thread that holds a lock it takes.  How far it got
\* and what the other threads do then is not followed: client.pc ends the run.
SignalHangs ==
  /\ sensor.drdy
  /\ HoldsTz \/ HoldsSensor \/ (timeout_thread /\ HoldsTimeout)
  /\ client' = [Returned EXCEPT !.pc = "hung"]
  /\ UNCHANGED <<state, app, sensor, finger, worker, timer, timeout_thread>>

-----------------------------------------------------------------------------
(* fingerprint_cancel(), called by the client or by fingerprint_close() *)

fingerprint_cancel(kind) ==
  /\ Calls([Returned EXCEPT !.pc = IF timeout_thread THEN "stop" ELSE "check", !.kind = kind])
  /\ UNCHANGED <<state, app, sensor, finger, worker, timer, timeout_thread>>

\* pthread_cond_signal(&tz.timeout.cond) under its lock
StopTimer ==
  /\ client.pc = "stop"
  /\ WakeTimer
  /\ client' = [client EXCEPT !.pc = "join"]
  /\ UNCHANGED <<state, app, sensor, finger, worker, timeout_thread>>

\* pthread_join(); the handler may have cleared the thread in between
JoinTimer ==
  /\ client.pc = "join"
  /\ ~timeout_thread \/ timer = "none"
  /\ timeout_thread' = FALSE
  /\ client' = [client EXCEPT !.pc = "check"]
  /\ UNCHANGED <<state, app, sensor, finger, worker, timer>>

Cancelled == IF client.kind = "close" THEN [client EXCEPT !.pc = "close"] ELSE Returned

CancelCheck ==
  /\ client.pc = "check"
  /\ client' = IF Busy THEN [client EXCEPT !.pc = "cancel"] ELSE Cancelled
  /\ UNCHANGED <<state, app, sensor, finger, worker, timer, timeout_thread>>

CancelSet ==
  /\ client.pc = "cancel"
  /\ state' = "CANCEL"
  /\ client' = [client EXCEPT !.pc = "wake"]
  /\ UNCHANGED <<app, sensor, finger, worker, timer, timeout_thread>>

\* a bug: the worker is not woken
CancelSilently ==
  /\ client.pc = "wake"
  /\ client' = [client EXCEPT !.pc = "poll"]
  /\ sensor' = [sensor EXCEPT !.drdy = FALSE]
  /\ UNCHANGED <<state, app, finger, worker, timer, timeout_thread>>

CancelWake ==
  /\ client.pc = "wake"
  /\ client' = [client EXCEPT !.pc = "poll"]
  /\ sensor' = [sensor EXCEPT !.drdy = FALSE]
  /\ WakeWorker
  /\ UNCHANGED <<state, app, finger, timer, timeout_thread>>

\* while (1) until tz.state is idle
CancelPoll ==
  /\ client.pc = "poll" /\ state = "IDLE"
  /\ client' = Cancelled
  /\ UNCHANGED <<state, app, sensor, finger, worker, timer, timeout_thread>>

\* The rest of fingerprint_close(); the device, its lock and the sensor's file
\* are gone, whoever still runs.
fingerprint_close ==
  /\ client.pc = "close"
  /\ client' = [client EXCEPT !.pc = "gone"]
  /\ app' = Closed
  /\ state' = "IDLE"
  /\ UNCHANGED <<sensor, finger, worker, timer, timeout_thread>>

-----------------------------------------------------------------------------
(* The timeout thread, vcs_timeout() *)

TimerWait ==
  /\ timer = "started" /\ timer' = "waiting"
  /\ UNCHANGED <<state, app, sensor, finger, client, worker, timeout_thread>>

TimerExpires ==
  /\ timer = "waiting" /\ timer' = "expired"
  /\ UNCHANGED <<state, app, sensor, finger, client, worker, timeout_thread>>

\* pthread_cond_timedwait() returns with the lock, which is given back
TimerUnlocks ==
  /\ \/ timer = "woken" /\ timer' = "none"
     \/ timer = "expired" /\ timer' = "check"
  /\ UNCHANGED <<state, app, sensor, finger, client, worker, timeout_thread>>

TimerChecks ==
  /\ timer = "check"
  /\ timer' = IF Busy THEN "cancelling" ELSE "tell"
  /\ UNCHANGED <<state, app, sensor, finger, client, worker, timeout_thread>>

\* sensor.cond is not signalled
TimerCancels ==
  /\ timer = "cancelling" /\ timer' = "poll"
  /\ state' = "CANCEL"
  /\ sensor' = [sensor EXCEPT !.drdy = FALSE]
  /\ UNCHANGED <<app, finger, client, worker, timeout_thread>>

TimerPolls ==
  /\ timer = "poll" /\ state = "IDLE" /\ timer' = "tell"
  /\ UNCHANGED <<state, app, sensor, finger, client, worker, timeout_thread>>

\* send_error_notice(FINGERPRINT_ERROR_TIMEOUT)
TimerTells ==
  /\ timer = "tell" /\ ~Locked /\ timer' = "none"
  /\ UNCHANGED <<state, app, sensor, finger, client, worker, timeout_thread>>

-----------------------------------------------------------------------------
(* The worker: vcs_authenticate(), vcs_enroll() and vcs_start_capture() *)

At(pc) == worker.pc = pc
Goto(pc) == worker' = [worker EXCEPT !.pc = pc]
Out == IF worker.kind = "SCAN" THEN "uninit" ELSE "outIdle"

Shared == <<app, sensor, finger, client, timer, timeout_thread>>

\* vcs_check_state(): a cancelled session becomes idle
CheckState(stop, goOn) ==
  IF Busy THEN goOn /\ UNCHANGED state ELSE stop /\ state' = "IDLE"

\* the loop over tz.finger; past the end when none is free
FirstFree == CHOOSE i \in 1 .. MaxFingers + 1 : i \notin finger /\ 1 .. i - 1 \subseteq finger

\* An authentication ignores the answer; an enrolment picks a finger, and gives up
\* without closing anything when one of the first two commands fails.
Begin ==
  /\ At("begin")
  /\ \/ worker.kind = "SCAN" /\ Goto("loop") /\ UNCHANGED state
     \/ /\ worker.kind = "ENROLL"
        /\ worker' = [worker EXCEPT !.pc = "loop", !.idx = FirstFree]
        /\ UNCHANGED state
     \/ worker.kind = "ENROLL" /\ state' = "IDLE" /\ Goto("tellLast")
  /\ UNCHANGED Shared

\* while (get_tz_state() == ...): an enrolment that was cancelled at this point is
\* finished as if it were complete
Loop ==
  /\ At("loop")
  /\ Goto(CASE state = worker.kind -> "start"
            [] state # worker.kind /\ worker.kind = "SCAN" -> "uninit"
            [] OTHER -> "finish")
  /\ UNCHANGED state /\ UNCHANGED Shared

\* vfmCaptureStart; an error other than -1 counts as an image
CaptureStart ==
  /\ At("start")
  /\ \/ Goto("wait") /\ sensor' = [sensor EXCEPT !.drdy = TRUE]
     \/ Goto(Out) /\ UNCHANGED sensor
     \/ Goto("image") /\ UNCHANGED sensor
  /\ UNCHANGED <<state, app, finger, client, timer, timeout_thread>>

\* the test of the loop and pthread_cond_wait(), under sensor.lock
CaptureWait ==
  /\ At("wait")
  /\ CheckState(Goto("capture"), Goto(IF sensor.signal THEN "capture" ELSE "asleep"))
  /\ UNCHANGED Shared

\* The state is checked again; vfmCaptureReadData until the finger is gone, and
\* vfmCaptureProcessData: a poor image is reported and another one taken.
Capture ==
  /\ At("capture")
  /\ CheckState(Goto(Out) /\ UNCHANGED sensor,
                /\ sensor' = [sensor EXCEPT !.signal = FALSE]
                /\ Goto("image") \/ Goto("tellPoor") \/ Goto(Out))
  /\ UNCHANGED <<app, finger, client, timer, timeout_thread>>

\* the place of a finger among the existing ones
Rank(f) == Cardinality({j \in finger : j <= f})

\* a bug: the trustlet counts from 0
FingerCountedFromZero(place) == CHOOSE f \in finger \cup {0} : Rank(f) = place

\* the trustlet names a template by its place, counted from 0
FingerAt(place) == CHOOSE f \in finger : Rank(f) = place + 1

\* vfmMatchImageToTemplates
Match ==
  /\ At("image") /\ worker.kind = "SCAN"
  /\ \/ \E f \in finger :
          worker' = [worker EXCEPT !.pc = "uninit", !.matched = f, !.fid = FingerAt(Rank(f) - 1)]
     \/ Goto("tellAgain")
     \/ Goto("tellOut")
  /\ UNCHANGED state /\ UNCHANGED Shared

\* vfmEnrollAddImage: the trustlet says which image is the last one
AddImage ==
  /\ At("image") /\ worker.kind = "ENROLL"
  /\ \/ \E last \in BOOLEAN :
          /\ worker' = [worker EXCEPT !.pc = "tellSample",
               !.count = CASE last -> 0
                           [] ~last /\ @ = 1 -> 1
                           [] OTHER -> @ - 1]
          /\ UNCHANGED state
     \/ Goto("tellAgain") /\ UNCHANGED state
     \/ Goto("tellLast") /\ state' = "IDLE"
  /\ UNCHANGED Shared

\* the notices; each takes vdev->lock
Tell ==
  /\ ~Locked
  /\ \/ At("tellPoor") /\ Goto("start")
     \/ At("tellAgain") /\ Goto("loop")
     \/ At("tellOut") /\ Goto("uninit")
     \/ At("tellSample") /\ Goto(IF worker.count = 0 THEN "finish" ELSE "loop")
     \/ (At("tellLast") \/ At("tellAuthenticated")) /\ worker' = NoWorker
  /\ UNCHANGED state /\ UNCHANGED Shared

\* a bug: the loop is left with an image to take
FinishAnyway ==
  /\ At("finish") \/ At("tellSample")
  /\ finger' = finger \cup ({worker.idx} \cap Fingers)
  /\ Goto("outIdle")
  /\ UNCHANGED <<state, app, sensor, client, timer, timeout_thread>>

\* vfmEnrollFinish, vfmPayloadBind, db_write_to_db(), vfmEnrollmentPasswordSet.  A
\* write past the table is not followed.
Finish ==
  /\ At("finish")
  /\ finger' = finger \cup ({worker.idx} \cap Fingers)
  /\ Goto("outIdle")
  /\ UNCHANGED <<state, app, sensor, client, timer, timeout_thread>>

\* An enrolment is idle before it has cleaned up; its finger and its count of
\* images are not used again.
OutIdle ==
  /\ At("outIdle")
  /\ state' = "IDLE"
  /\ worker' = [worker EXCEPT !.pc = "uninit", !.idx = 0, !.count = 0]
  /\ UNCHANGED Shared

\* a bug: tz.init survives
UninitKeepingInit ==
  /\ At("uninit")
  /\ app' = [app EXCEPT !.open = FALSE]
  /\ Goto("uninitIdle")
  /\ UNCHANGED <<state, sensor, finger, client, timer, timeout_thread>>

vcs_uninit ==
  /\ At("uninit")
  /\ app' = Closed
  /\ Goto("uninitIdle")
  /\ UNCHANGED <<state, sensor, finger, client, timer, timeout_thread>>

\* vcs_uninit() ends with the idle state, and vcs_authenticate() sets it again
UninitIdle ==
  /\ At("uninitIdle")
  /\ state' = "IDLE"
  /\ IF worker.kind = "SCAN" THEN Goto("authIdle") ELSE worker' = NoWorker
  /\ UNCHANGED Shared

AuthIdle ==
  /\ At("authIdle")
  /\ state' = "IDLE"
  /\ IF worker.fid # 0 THEN Goto("tellAuthenticated") ELSE worker' = NoWorker
  /\ UNCHANGED Shared

-----------------------------------------------------------------------------

Call ==
  \/ fingerprint_open
  \/ \E fingers \in SUBSET Fingers : ChangeFingers(fingers)
  \/ fingerprint_authenticate
  \/ \E timeout \in BOOLEAN : fingerprint_enroll(timeout)
  \/ \E kind \in {"cancel", "close"} : fingerprint_cancel(kind)

ClientStep ==
  \/ GiveUp \/ Claim \/ vcs_init \/ Spawn \/ SpawnTimer \/ SpawnFails
  \/ StopTimer \/ JoinTimer \/ CancelCheck \/ CancelSet \/ CancelWake \/ CancelPoll
  \/ fingerprint_close

TimerStep ==
  \/ TimerWait \/ TimerExpires \/ TimerUnlocks \/ TimerChecks
  \/ TimerCancels \/ TimerPolls \/ TimerTells

WorkerStep ==
  \/ Begin \/ Loop \/ CaptureStart \/ CaptureWait \/ Capture \/ Match \/ AddImage \/ Tell
  \/ Finish \/ OutIdle \/ vcs_uninit \/ UninitIdle \/ AuthIdle

\* once the device is closed, or a thread hangs in the handler, the other threads
\* are on their own
Open == client.pc \notin {"gone", "crashed", "hung"}

Next ==
  /\ Open
  /\ Call \/ ClientStep \/ TimerStep \/ WorkerStep \/ sensor_process_signal \/ SignalHangs

Spec == Init /\ [][Next]_vars

\* A thread that can go on does, the trustlet answers and time passes.  Nothing is
\* assumed of the client's calls and of fingers on the sensor.
FairSpec ==
  /\ Spec
  /\ WF_vars(Open /\ ClientStep)
  /\ WF_vars(Open /\ TimerStep)
  /\ WF_vars(Open /\ WorkerStep)
-----------------------------------------------------------------------------
(* Properties *)

CommandPoints == {"begin", "loop", "start", "wait", "asleep", "capture", "image", "finish"}

\* A worker of a session that was started with no other worker alive has the
\* trustlet open whenever it uses it: nothing that the client, short of closing
\* the device, a timeout or an earlier session did takes it away.
TrustletStaysOpen == Open /\ worker.alone /\ worker.pc \in CommandPoints => app.open

\* The finger an authentication reports is the finger that matched, whatever gaps
\* the table has: the trustlet counts templates, the client knows fingers.
ReportsMatchedFinger == worker.pc = "tellAuthenticated" => worker.fid = worker.matched

\* A finger is stored when its last image was taken: an enrolment that has stored
\* one and was neither cancelled between two images nor disturbed by another
\* session has none left to take.
StoredWhenComplete ==
  worker.alone /\ worker.pc = "outIdle" /\ worker.idx \in finger /\ state = "ENROLL" =>
    worker.count = 0

\* The ways a call is known to hang: an enrolment with no finger free; a
\* cancellation of a session that has just ended or was never started, which
\* waits for an idle state nobody will set; a cancellation that joins a timeout
\* thread which itself waits for an idle state: it wakes no worker, and may have
\* missed the state when a new session began; and a signal that came while the
\* thread it interrupted held a mutex that the handler takes (fingerprint.c:94).
KnownHang ==
  \/ client.pc = "full"
  \/ state = "CANCEL" /\ Ended
  \/ client.pc = "join" /\ timeout_thread /\ timer = "poll"
  \/ client.pc = "hung"

\* Every call returns, or hangs in one of those ways.
CallsReturn ==
  client.pc \notin {"idle", "closed"} ~> client.pc \in {"idle", "gone", "crashed"} \/ KnownHang

(***************************************************************************)
(* The inductive invariants behind the theorems of FingerprintProofs.       *)
(***************************************************************************)

Sessions == {"SCAN", "ENROLL"}

\* a session that goes on: commands, and notices in between
Capturing == {"begin", "loop", "start", "wait", "asleep", "capture", "image", "tellPoor", "tellAgain"}
UsesTrustlet == Capturing \cup {"tellSample", "finish"}

ClientStates ==
  [pc : {"closed", "idle", "busy", "full", "app", "spawn", "timer", "stop", "join", "check", "cancel",
         "wake", "poll", "close", "gone", "crashed", "hung"},
   kind : Sessions \cup {"none", "cancel", "close"}, timeout : BOOLEAN, alone : BOOLEAN]

WorkerStates ==
  [pc : UsesTrustlet \cup {"none", "tellOut", "tellLast", "tellAuthenticated", "outIdle", "uninit",
                           "uninitIdle", "authIdle"},
   kind : Sessions \cup {"none"}, idx : Nat, count : Nat, matched : Nat, fid : Nat,
   alone : BOOLEAN]

TypeOK ==
  /\ state \in Sessions \cup {"IDLE", "CANCEL"}
  /\ app \in [init : BOOLEAN, open : BOOLEAN]
  /\ finger \in SUBSET Fingers
  /\ client \in ClientStates
  /\ worker \in WorkerStates

\* A session that was claimed with no worker alive has the trustlet from
\* vcs_init() to its own vcs_uninit(): tz.init never says more than the handle.
AppInv ==
  /\ client.pc = "closed" => Ended
  /\ client.pc \in {"busy", "app", "spawn"} => client.kind \in Sessions
  /\ app.init => app.open
  /\ client.pc \in {"app", "spawn"} /\ client.alone => Ended
  /\ client.pc = "spawn" /\ client.alone => app.open
  /\ Open /\ worker.alone /\ worker.pc \in UsesTrustlet => app.open

\* The finger an enrolment works on is not stored before it is finished, and
\* it is finished with its last image or because it was cancelled; the finger
\* an authentication found is the one that matched.
WorkerInv ==
  /\ ~Ended => worker.kind \in Sessions
  /\ worker.pc \in Capturing => worker.count > 0
  /\ worker.pc \in UsesTrustlet => worker.idx \notin finger
  /\ worker.alone /\ worker.pc = "finish" /\ state = "ENROLL" => worker.count = 0
  /\ StoredWhenComplete
  /\ worker.fid = worker.matched

Inv == TypeOK /\ AppInv /\ WorkerInv
============================================================================
