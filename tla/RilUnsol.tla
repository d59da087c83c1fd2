------------------------------ MODULE RilUnsol ------------------------------
(***************************************************************************)
(* RIL_onUnsolicitedResponse (ril/libril/ril.cpp): how an indication keeps  *)
(* the device awake until the client has seen it, and how the last network  *)
(* time (NITZ) is kept for a client that is not connected.                  *)
(*                                                                          *)
(* The vendor's threads and the binder thread, which serves the client,     *)
(* send indications; the event loop's thread fires timers.  A timer that    *)
(* was not cancelled releases the wake lock.  s_last_wake_timeout_info is   *)
(* written by all of them, under s_wakeLockCountMutex or not at all, and    *)
(* the event loop frees the object it points to without the mutex.  A       *)
(* thread that has found the pointer set therefore writes through an        *)
(* address that may have been freed, and given to another timer, since.     *)
(* (The build reads the pointer once, for the test and the write: nothing   *)
(* in between could change it for the compiler.)                            *)
(*                                                                          *)
(* The call of the client is one step here; the lock around it and the      *)
(* handling of a dead client are the subject of RadioService.  Indications  *)
(* of wakeType DONT_WAKE touch none of this state.                          *)
(***************************************************************************)
EXTENDS Integers, FiniteSets

CONSTANTS
  Vendors, Binder,
  SlotCount,    \* blocks of memory for UserCallbackInfo objects
  Versions,     \* what s_callbacks.version may be
  MaxUnsol,     \* how many indications the vendor sends
  MaxClients,   \* how many times the client process may start
  NoMemory,     \* an allocation may fail
  SlowThreads,  \* a thread may be held up for longer than the 200 ms timeout
  NULL

ASSUME ThreadAssumption == Binder \notin Vendors
ASSUME SlotAssumption == SlotCount \in Nat /\ NULL \notin Nat
ASSUME VersionAssumption == Versions \subseteq Nat
ASSUME BoundAssumption == MaxUnsol \in Nat /\ MaxClients \in Nat
ASSUME SwitchAssumption == NoMemory \in BOOLEAN /\ SlowThreads \in BOOLEAN

Threads == Vendors \cup {Binder}
Slots == 1 .. SlotCount
Labels == {"idle", "grab", "indicate", "schedule", "test", "cancel", "publish", "keep", "error",
           "release", "acked", "resend", "resent"}

\* Where a thread holds s_wakeLockCountMutex, since version 13.
Holding == {"test", "cancel", "publish", "release", "acked"}

VARIABLES
  version,                  \* s_callbacks.version
  wakeLock,                 \* the kernel's wake lock ANDROID_WAKE_LOCK_NAME
  s_wakelock_count,
  timer, userParam,         \* per slot: its state, and whether it was cancelled
  s_last_wake_timeout_info,
  seen,                     \* per thread: what its test of s_last_wake_timeout_info read
  dangling,                 \* threads whose seen was freed since the test
  stray,                    \* a thread has cancelled a timer it never saw
  pc, p_info, nitz,         \* per thread: place, own timer, NITZ number or 0
  left,                     \* indications the binder thread still sends to a new client
  epc, fired, param,        \* the event loop: place, timer that fires, its parameter
  clients, alive, client,   \* clients started, the last one lives, the one connected
  owed,                     \* indications the client has yet to acknowledge
  sent, lastNitz,           \* indications sent, and how many of them were NITZ
  s_lastNITZTimeData,       \* the NITZ kept, 0 for none
  delivered                 \* per NITZ: how many times a live client got it

seenVars   == <<seen, dangling, stray>>
timerVars  == <<wakeLock, s_wakelock_count, timer, userParam, s_last_wake_timeout_info, seenVars>>
threadVars == <<pc, p_info, nitz, left>>
loopVars   == <<epc, fired, param>>
clientVars == <<clients, alive, client, owed>>
nitzVars   == <<s_lastNITZTimeData, delivered>>
sendVars   == <<sent, lastNitz>>
vars == <<version, timerVars, threadVars, loopVars, clientVars, nitzVars, sendVars>>

Acks == version >= 13

\* s_wakeLockCountMutex is held; before version 13 nobody takes it.
Locked == Acks /\ \E t \in Threads : pc[t] \in Holding

TypeOK ==
  /\ version \in Versions
  /\ wakeLock \in BOOLEAN
  /\ s_wakelock_count \in Nat
  /\ timer \in [Slots -> {"free", "pending", "firing"}]
  /\ userParam \in [Slots -> {0, 1}]
  /\ s_last_wake_timeout_info \in Slots \cup {NULL}
  /\ seen \in [Threads -> Slots \cup {NULL}]
  /\ dangling \subseteq Threads
  /\ stray \in BOOLEAN
  /\ pc \in [Threads -> Labels]
  /\ p_info \in [Threads -> Slots \cup {NULL}]
  /\ nitz \in [Threads -> 0 .. MaxUnsol]
  /\ left \in 0 .. 1
  /\ epc \in {"idle", "callback", "check", "clear", "free"}
  /\ fired \in Slots \cup {NULL}
  /\ param \in {0, 1}
  /\ clients \in 0 .. MaxClients
  /\ alive \in BOOLEAN
  /\ client \in 1 .. MaxClients \cup {NULL}
  /\ owed \in Nat
  /\ sent \in 0 .. MaxUnsol
  /\ lastNitz \in 0 .. sent
  /\ s_lastNITZTimeData \in 0 .. MaxUnsol
  /\ delivered \in [1 .. MaxUnsol -> Nat]

Init ==
  /\ version \in Versions
  /\ wakeLock = FALSE
  /\ s_wakelock_count = 0
  /\ timer = [s \in Slots |-> "free"]
  /\ userParam = [s \in Slots |-> 0]
  /\ s_last_wake_timeout_info = NULL
  /\ seen = [t \in Threads |-> NULL]
  /\ dangling = {}
  /\ stray = FALSE
  /\ pc = [t \in Threads |-> "idle"]
  /\ p_info = [t \in Threads |-> NULL]
  /\ nitz = [t \in Threads |-> 0]
  /\ left = 0
  /\ epc = "idle"
  /\ fired = NULL
  /\ param = 0
  /\ clients = 0
  /\ alive = FALSE
  /\ client = NULL
  /\ owed = 0
  /\ sent = 0
  /\ lastNitz = 0
  /\ s_lastNITZTimeData = 0
  /\ delivered = [n \in 1 .. MaxUnsol |-> 0]

Goto(t, l) == pc' = [pc EXCEPT ![t] = l]

-----------------------------------------------------------------------------
(***************************************************************************)
(* RIL_onUnsolicitedResponse().                                             *)
(***************************************************************************)

\* The vendor sends an indication; n is its number if it is a NITZ, else 0.
Unsol(t, n) ==
  /\ pc[t] = "idle"
  /\ sent < MaxUnsol
  /\ n \in {0, lastNitz + 1}
  /\ sent' = sent + 1
  /\ lastNitz' = IF n > 0 THEN n ELSE lastNitz
  /\ nitz' = [nitz EXCEPT ![t] = n]
  /\ Goto(t, "grab")
  /\ UNCHANGED <<version, timerVars, p_info, left, loopVars, clientVars, nitzVars>>

\* internalRequestTimedCallback(): the first block that is free, freed before
\* or never used, becomes a timer.
StartTimer(s) ==
  /\ timer[s] = "free"
  /\ \A r \in 1 .. s - 1 : timer[r] # "free"
  /\ timer' = [timer EXCEPT ![s] = "pending"]

\* userParam of the object the thread saw is set: that timer is cancelled, or
\* the one that has its address by now.  A free block is cleared by calloc().
CancelSeen(t) ==
  /\ userParam' = IF timer[seen[t]] # "free" THEN [userParam EXCEPT ![seen[t]] = 1]
                  ELSE userParam
  /\ stray' = (stray \/ (t \in dangling /\ timer[seen[t]] # "free"))
  /\ seen' = [seen EXCEPT ![t] = NULL]
  /\ dangling' = dangling \ {t}

\* grabPartialWakeLock() before version 13.
GrabOnly(t) ==
  /\ pc[t] = "grab"
  /\ ~Acks
  /\ wakeLock' = TRUE
  /\ Goto(t, "indicate")
  /\ UNCHANGED <<version, s_wakelock_count, timer, userParam, s_last_wake_timeout_info, seenVars,
                 p_info, nitz, left, loopVars, clientVars, nitzVars, sendVars>>

\* grabPartialWakeLock() since version 13 takes the mutex and starts the timer
\* that shall take the place of the previous one.
GrabWithTimer(t) ==
  /\ pc[t] = "grab"
  /\ Acks
  /\ ~Locked
  /\ wakeLock' = TRUE
  /\ s_wakelock_count' = s_wakelock_count + 1
  /\ \E s \in Slots : /\ StartTimer(s)
                      /\ userParam' = [userParam EXCEPT ![s] = 0]
                      /\ p_info' = [p_info EXCEPT ![t] = s]
  /\ Goto(t, "test")
  /\ UNCHANGED <<version, s_last_wake_timeout_info, seenVars, nitz, left, loopVars, clientVars,
                 nitzVars, sendVars>>

\* No memory for the timer: the wake lock is released for everybody.
GrabNoMemory(t) ==
  /\ pc[t] = "grab"
  /\ NoMemory
  /\ Acks
  /\ ~Locked
  /\ wakeLock' = FALSE
  /\ Goto(t, "indicate")
  /\ UNCHANGED <<version, s_wakelock_count, timer, userParam, s_last_wake_timeout_info, seenVars,
                 p_info, nitz, left, loopVars, clientVars, nitzVars, sendVars>>

\* Mutant: the timer is cancelled whatever the count.
ReleaseCancelling(t) ==
  /\ ~Locked
  /\ s_wakelock_count' = IF s_wakelock_count > 1 THEN s_wakelock_count - 1 ELSE 0
  /\ wakeLock' = (wakeLock /\ s_wakelock_count > 1)
  /\ seen' = [seen EXCEPT ![t] = s_last_wake_timeout_info]

\* Mutant: the count does not stop at zero.
ReleaseBelowZero(t) ==
  /\ ~Locked
  /\ s_wakelock_count' = s_wakelock_count - 1
  /\ wakeLock' = (wakeLock /\ s_wakelock_count > 1)
  /\ seen' = IF Acks /\ s_wakelock_count <= 1
             THEN [seen EXCEPT ![t] = s_last_wake_timeout_info] ELSE seen

\* releaseWakeLock() up to its test of s_last_wake_timeout_info.  Since version
\* 13 the last holder goes on to cancel the timer it saw; before, nothing is
\* counted and nothing cancelled.
releaseWakeLock(t) ==
  /\ ~Locked
  /\ s_wakelock_count' = IF s_wakelock_count > 1 THEN s_wakelock_count - 1 ELSE 0
  /\ wakeLock' = (wakeLock /\ s_wakelock_count > 1)
  /\ seen' = IF Acks /\ s_wakelock_count <= 1
             THEN [seen EXCEPT ![t] = s_last_wake_timeout_info] ELSE seen

\* Where the handler goes after the call (missed: no client was connected).
AfterCall(t, missed) ==
  IF ~Acks THEN "schedule" ELSE IF missed /\ nitz[t] > 0 THEN "keep" ELSE "done"

\* The thread is through with an indication; the binder thread goes on with
\* onNewCommandConnect().
Done(t, l) ==
  CASE l # "done" -> Goto(t, l) /\ UNCHANGED left
    [] l = "done" /\ t \in Vendors -> Goto(t, "idle") /\ UNCHANGED left
    [] l = "done" /\ t = Binder /\ left > 0 -> Goto(t, "grab") /\ left' = left - 1
    [] l = "done" /\ t = Binder /\ left = 0 ->
         Goto(t, IF s_lastNITZTimeData # 0 THEN "resend" ELSE "idle") /\ UNCHANGED left

\* The response function: without a client it returns -1 for a NITZ.  A dead
\* client is forgotten, and the function returns 0 as if it had got it.
\* The thread's NITZ number is cleared unless it was missed.
Indicate(t) ==
  /\ pc[t] = "indicate"
  /\ LET live == client # NULL /\ client = clients /\ alive
     IN  /\ client' = IF live THEN client ELSE NULL
         /\ owed' = IF live /\ Acks THEN owed + 1 ELSE owed
         /\ delivered' = IF live /\ nitz[t] > 0 THEN [delivered EXCEPT ![nitz[t]] = @ + 1]
                         ELSE delivered
         /\ nitz' = [nitz EXCEPT ![t] = IF client = NULL THEN @ ELSE 0]
         /\ Done(t, AfterCall(t, client = NULL))
  /\ UNCHANGED <<version, timerVars, p_info, loopVars, clients, alive, s_lastNITZTimeData, sendVars>>

\* Before version 13 the timer is started after the call, with no mutex.
Schedule(t) ==
  /\ pc[t] = "schedule"
  /\ \E s \in Slots : /\ StartTimer(s)
                      /\ userParam' = [userParam EXCEPT ![s] = 0]
                      /\ p_info' = [p_info EXCEPT ![t] = s]
  /\ Goto(t, "test")
  /\ UNCHANGED <<version, wakeLock, s_wakelock_count, s_last_wake_timeout_info, seenVars, nitz,
                 left, loopVars, clientVars, nitzVars, sendVars>>

\* No memory for the timer: error_exit (a NITZ that was missed is not kept).
ScheduleNoMemory(t) ==
  /\ pc[t] = "schedule"
  /\ NoMemory
  /\ nitz' = [nitz EXCEPT ![t] = 0]
  /\ Goto(t, "error")
  /\ UNCHANGED <<version, timerVars, p_info, left, loopVars, clientVars, nitzVars, sendVars>>

\* "Cancel the previous request": the same lines in both versions, with the
\* mutex since version 13 and without it before.  First the test ...
TestLast(t) ==
  /\ pc[t] = "test"
  /\ seen' = [seen EXCEPT ![t] = s_last_wake_timeout_info]
  /\ Goto(t, IF s_last_wake_timeout_info = NULL THEN "publish" ELSE "cancel")
  /\ UNCHANGED <<version, wakeLock, s_wakelock_count, timer, userParam, s_last_wake_timeout_info,
                 dangling, stray, p_info, nitz, left, loopVars, clientVars, nitzVars, sendVars>>

\* ... then the write through what it saw ...
CancelPrevious(t) ==
  /\ pc[t] = "cancel"
  /\ CancelSeen(t)
  /\ Goto(t, "publish")
  /\ UNCHANGED <<version, wakeLock, s_wakelock_count, timer, s_last_wake_timeout_info, p_info,
                 nitz, left, loopVars, clientVars, nitzVars, sendVars>>

AfterPublish(t) ==
  IF Acks THEN "indicate" ELSE IF nitz[t] > 0 THEN "keep" ELSE "done"

\* ... and the thread's own timer becomes the last one.
Publish(t) ==
  /\ pc[t] = "publish"
  /\ s_last_wake_timeout_info' = p_info[t]
  /\ p_info' = [p_info EXCEPT ![t] = NULL]
  /\ Done(t, AfterPublish(t))
  /\ UNCHANGED <<version, wakeLock, s_wakelock_count, timer, userParam, seenVars, nitz, loopVars,
                 clientVars, nitzVars, sendVars>>

\* "keep a copy of the last NITZ response"
Keep(t) ==
  /\ pc[t] = "keep"
  /\ s_lastNITZTimeData' = nitz[t]
  /\ nitz' = [nitz EXCEPT ![t] = 0]
  /\ Done(t, "done")
  /\ UNCHANGED <<version, timerVars, p_info, loopVars, clientVars, delivered, sendVars>>

\* No memory for the copy: the previous copy is gone.
KeepNoMemory(t) ==
  /\ pc[t] = "keep"
  /\ NoMemory
  /\ s_lastNITZTimeData' = 0
  /\ nitz' = [nitz EXCEPT ![t] = 0]
  /\ Goto(t, "error")
  /\ UNCHANGED <<version, timerVars, p_info, left, loopVars, clientVars, delivered, sendVars>>

\* error_exit: the wake lock is released at once.
ErrorExit(t) ==
  /\ pc[t] = "error"
  /\ releaseWakeLock(t)
  /\ Done(t, IF seen'[t] = NULL THEN "done" ELSE "release")
  /\ UNCHANGED <<version, timer, userParam, s_last_wake_timeout_info, dangling, stray, p_info,
                 nitz, loopVars, clientVars, nitzVars, sendVars>>

\* The end of releaseWakeLock(), on the way back from error_exit or from the
\* client's acknowledgement: the write, and the mutex is given up.
EndRelease(t) ==
  /\ pc[t] \in {"release", "acked"}
  /\ CancelSeen(t)
  /\ Done(t, IF pc[t] = "acked" THEN "idle" ELSE "done")
  /\ UNCHANGED <<version, wakeLock, s_wakelock_count, timer, s_last_wake_timeout_info, p_info,
                 nitz, loopVars, clientVars, nitzVars, sendVars>>

-----------------------------------------------------------------------------
(***************************************************************************)
(* The client, and its calls on the binder thread.                          *)
(***************************************************************************)
ClientStart ==
  /\ ~alive
  /\ clients < MaxClients
  /\ clients' = clients + 1
  /\ alive' = TRUE
  /\ owed' = 0
  /\ UNCHANGED <<version, timerVars, threadVars, loopVars, client, nitzVars, sendVars>>

ClientDie ==
  /\ alive
  /\ alive' = FALSE
  /\ owed' = 0
  /\ UNCHANGED <<version, timerVars, threadVars, loopVars, clients, client, nitzVars, sendVars>>

\* setResponseFunctions(), then onNewCommandConnect() with its two
\* indications and the NITZ that was kept.
Connect ==
  /\ pc[Binder] = "idle"
  /\ alive
  /\ client # clients
  /\ client' = clients
  /\ left' = 1
  /\ Goto(Binder, "grab")
  /\ UNCHANGED <<version, timerVars, p_info, nitz, loopVars, clients, alive, owed, nitzVars, sendVars>>

\* resendLastNITZTimeData(): the call, under the read lock.  Nothing is sent
\* if the copy has gone since onNewCommandConnect() saw it.
Resend ==
  /\ pc[Binder] = "resend"
  /\ LET kept == s_lastNITZTimeData # 0
         live == client # NULL /\ client = clients /\ alive
     IN  /\ client' = IF kept /\ ~live THEN NULL ELSE client
         /\ owed' = IF kept /\ live /\ Acks THEN owed + 1 ELSE owed
         /\ delivered' = IF kept /\ live THEN [delivered EXCEPT ![s_lastNITZTimeData] = @ + 1]
                         ELSE delivered
         /\ Goto(Binder, IF client = NULL THEN "idle" ELSE "resent")
  /\ UNCHANGED <<version, timerVars, p_info, nitz, left, loopVars, clients, alive,
                 s_lastNITZTimeData, sendVars>>

\* Mutant: the copy stays after it was sent.
ResendKeep ==
  /\ pc[Binder] = "resent"
  /\ Goto(Binder, "idle")
  /\ UNCHANGED <<version, timerVars, p_info, nitz, left, loopVars, clientVars, nitzVars, sendVars>>

\* The copy is freed, whichever it is by now.
ResendFree ==
  /\ pc[Binder] = "resent"
  /\ s_lastNITZTimeData' = 0
  /\ Goto(Binder, "idle")
  /\ UNCHANGED <<version, timerVars, p_info, nitz, left, loopVars, clientVars, delivered, sendVars>>

\* The client acknowledges an indication.
responseAcknowledgement ==
  /\ pc[Binder] = "idle"
  /\ owed > 0
  /\ owed' = owed - 1
  /\ releaseWakeLock(Binder)
  /\ Goto(Binder, IF seen'[Binder] = NULL THEN "idle" ELSE "acked")
  /\ UNCHANGED <<version, timer, userParam, s_last_wake_timeout_info, dangling, stray, p_info, nitz,
                 left, loopVars, clients, alive, client, nitzVars, sendVars>>

-----------------------------------------------------------------------------
(***************************************************************************)
(* The event loop: userTimerCallback() and wakeTimeoutCallback().           *)
(***************************************************************************)

\* A timer fires and its parameter is read.  Unless threads may be held up, a
\* thread that started a timer has published it before it fires.
Fire(s) ==
  /\ epc = "idle"
  /\ timer[s] = "pending"
  /\ SlowThreads \/ \A t \in Threads : p_info[t] # s
  /\ timer' = [timer EXCEPT ![s] = "firing"]
  /\ fired' = s
  /\ param' = userParam[s]
  /\ epc' = "callback"
  /\ UNCHANGED <<version, wakeLock, s_wakelock_count, userParam, s_last_wake_timeout_info, seenVars,
                 threadVars, clientVars, nitzVars, sendVars>>

\* Mutant: the timeout takes one grab back.
TimeoutReleasesOne ==
  /\ epc = "callback"
  /\ IF param = 0
     THEN /\ ~Locked
          /\ s_wakelock_count' = IF s_wakelock_count > 1 THEN s_wakelock_count - 1 ELSE 0
          /\ wakeLock' = (wakeLock /\ s_wakelock_count > 1)
     ELSE UNCHANGED <<wakeLock, s_wakelock_count>>
  /\ epc' = "check"
  /\ UNCHANGED <<version, timer, userParam, s_last_wake_timeout_info, seenVars, threadVars, fired,
                 param, clientVars, nitzVars, sendVars>>

\* wakeTimeoutCallback(): the wake lock is released whatever the count, under
\* the mutex since version 13.
wakeTimeoutCallback ==
  /\ epc = "callback"
  /\ IF param = 0
     THEN ~Locked /\ wakeLock' = FALSE /\ s_wakelock_count' = 0
     ELSE UNCHANGED <<wakeLock, s_wakelock_count>>
  /\ epc' = "check"
  /\ UNCHANGED <<version, timer, userParam, s_last_wake_timeout_info, seenVars, threadVars, fired,
                 param, clientVars, nitzVars, sendVars>>

\* userTimerCallback() looks at s_last_wake_timeout_info, clears it and frees
\* the object, with no mutex.
CheckLast ==
  /\ epc = "check"
  /\ epc' = IF s_last_wake_timeout_info = fired THEN "clear" ELSE "free"
  /\ UNCHANGED <<version, timerVars, threadVars, fired, param, clientVars, nitzVars, sendVars>>

ClearLast ==
  /\ epc = "clear"
  /\ s_last_wake_timeout_info' = NULL
  /\ epc' = "free"
  /\ UNCHANGED <<version, wakeLock, s_wakelock_count, timer, userParam, seenVars, threadVars, fired,
                 param, clientVars, nitzVars, sendVars>>

FreeInfo ==
  /\ epc = "free"
  /\ timer' = [timer EXCEPT ![fired] = "free"]
  /\ userParam' = [userParam EXCEPT ![fired] = 0]
  /\ dangling' = dangling \cup {t \in Threads : seen[t] = fired}
  /\ fired' = NULL
  /\ param' = 0
  /\ epc' = "idle"
  /\ UNCHANGED <<version, wakeLock, s_wakelock_count, s_last_wake_timeout_info, seen, stray,
                 threadVars, clientVars, nitzVars, sendVars>>

-----------------------------------------------------------------------------
Handler(t) ==
  \/ GrabOnly(t)
  \/ GrabWithTimer(t)
  \/ GrabNoMemory(t)
  \/ Indicate(t)
  \/ Schedule(t)
  \/ ScheduleNoMemory(t)
  \/ TestLast(t)
  \/ CancelPrevious(t)
  \/ Publish(t)
  \/ Keep(t)
  \/ KeepNoMemory(t)
  \/ ErrorExit(t)
  \/ EndRelease(t)

EventLoop ==
  \/ \E s \in Slots : Fire(s)
  \/ wakeTimeoutCallback
  \/ CheckLast
  \/ ClearLast
  \/ FreeInfo

Client ==
  \/ ClientStart
  \/ ClientDie
  \/ Connect
  \/ responseAcknowledgement

Next ==
  \/ \E t \in Vendors, n \in 0 .. MaxUnsol : Unsol(t, n)
  \/ \E t \in Threads : Handler(t)
  \/ Resend
  \/ ResendFree
  \/ EventLoop
  \/ Client

Spec == Init /\ [][Next]_vars

(***************************************************************************)
(* Fairness.  Threads inside the library go on and timers fire; nothing is  *)
(* asked of the vendor and of the client.                                   *)
(***************************************************************************)
Fairness ==
  /\ \A t \in Vendors : WF_vars(Handler(t))
  /\ WF_vars(Handler(Binder) \/ Resend \/ ResendFree)
  /\ WF_vars(EventLoop)

FairSpec == Spec /\ Fairness

-----------------------------------------------------------------------------
(***************************************************************************)
(* Properties.                                                              *)
(***************************************************************************)

\* A timer that will release the wake lock.
WillRelease(s) ==
  \/ timer[s] = "pending" /\ userParam[s] = 0
  \/ epc = "callback" /\ fired = s /\ param = 0

\* "as we exit we'll either release it immediately or set a timer to release
\* it later": while the wake lock is held, some timer that nobody cancelled
\* will release it, or a thread is still on its way to start one or, having
\* failed to, to release it.
HeldHasTimer ==
  wakeLock => \/ \E s \in Slots : WillRelease(s)
              \/ ~Acks /\ \E t \in Threads : pc[t] \in {"indicate", "schedule", "error"}

\* The same until a thread has written through an address that was freed and
\* belongs to another timer: since version 13 it never does (RilUnsolProofs),
\* before, nothing keeps it from cancelling the only timer.
WakeLockHasTimer == stray \/ HeldHasTimer

\* The device may sleep again once the vendor is quiet, whether the client
\* acknowledges, dies or forgets to, with the same exception.
DeviceSleepsAgain == []<>(~wakeLock \/ stray)

\* No NITZ is given to the client twice, by the handler and from the copy or
\* by two connections.
NitzAtMostOnce == \A n \in DOMAIN delivered : delivered[n] <= 1

\* "keep a copy of the last NITZ response ... so we can deliver it when it is
\* connected": when all handlers are through and the client is connected, it
\* or a predecessor has got the last NITZ.
NitzNotLost ==
  /\ \A t \in Threads : pc[t] = "idle"
  /\ client # NULL /\ client = clients /\ alive
  /\ lastNitz > 0
  => delivered[lastNitz] > 0

(***************************************************************************)
(* The inductive invariants behind the theorems of RilUnsolProofs.          *)
(***************************************************************************)

\* A client that lives was started: setResponseFunctions() has an object to
\* store.
Started == alive => clients > 0

\* A NITZ that was sent is in one place at most, with one thread or in the
\* copy, and it is in none once a client has got it; the copy that was sent
\* again is about to be freed.
NitzInv ==
  /\ \A n \in DOMAIN delivered : /\ delivered[n] <= 1
                                 /\ n > lastNitz => delivered[n] = 0
  /\ \A t \in Threads : nitz[t] > 0 =>
       /\ nitz[t] <= lastNitz
       /\ delivered[nitz[t]] = 0
       /\ nitz[t] # s_lastNITZTimeData
       /\ \A r \in Threads : nitz[r] = nitz[t] => r = t
  /\ s_lastNITZTimeData > 0 =>
       /\ s_lastNITZTimeData <= lastNitz
       /\ pc[Binder] # "resent" => delivered[s_lastNITZTimeData] = 0

\* The timer that fires is not free, and s_last_wake_timeout_info never points
\* to a block that was freed.
InfoInv ==
  /\ epc # "idle" => fired \in Slots /\ timer[fired] = "firing"
  /\ s_last_wake_timeout_info # NULL =>
       /\ timer[s_last_wake_timeout_info] # "free"
       /\ epc = "free" => s_last_wake_timeout_info # fired

\* A thread that has started a timer and not published it yet has it to
\* itself, and so will release the wake lock unless a stray write cancels it.
OwnTimerInv ==
  \A t \in Threads :
    /\ pc[t] = "schedule" => ~Acks
    /\ pc[t] \in {"test", "cancel", "publish"} <=> p_info[t] # NULL
    /\ p_info[t] # NULL => /\ stray \/ WillRelease(p_info[t])
                           /\ timer[p_info[t]] # "free"
                           /\ Acks \/ timer[p_info[t]] = "pending"
                           /\ p_info[t] # s_last_wake_timeout_info
                           /\ \A r \in Threads : p_info[r] = p_info[t] => r = t

\* What a thread saw is a timer that is published and not freed, or was: the
\* block is nobody's unpublished timer unless it was freed since.
SeenInv ==
  /\ \A t \in Threads :
       /\ seen[t] # NULL <=> pc[t] \in {"cancel", "release", "acked"}
       /\ seen[t] # NULL /\ t \notin dangling =>
            timer[seen[t]] # "free" /\ \A r \in Threads : p_info[r] # seen[t]
  /\ \A t \in dangling : seen[t] # NULL

\* s_wakeLockCountMutex: one thread at a time since version 13, so that no
\* block is given to a timer between a test and its write; and who is about
\* to end a release by cancelling has released the wake lock.
MutexInv ==
  /\ ~Acks => s_wakelock_count = 0
  /\ Acks => /\ ~stray
             /\ \A t \in dangling : timer[seen[t]] = "free"
             /\ \A t, r \in Threads : pc[t] \in Holding /\ pc[r] \in Holding => t = r
  /\ \A t \in Threads : pc[t] \in {"release", "acked"} => Acks /\ ~wakeLock

TimerInv == InfoInv /\ OwnTimerInv /\ SeenInv /\ MutexInv /\ WakeLockHasTimer

\* A timer fires after the thread that started it has published it, or needs
\* no publishing.
Punctual == Acks \/ ~SlowThreads
=============================================================================
