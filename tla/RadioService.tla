---------------------------- MODULE RadioService ----------------------------
(***************************************************************************)
(* The HIDL face of the radio interface layer (ril/libril): requests of the *)
(* framework come in on one binder thread and are put on the list of        *)
(* pending requests (addRequestToList); the vendor's threads acknowledge    *)
(* and complete them (RIL_onRequestAck, RIL_onRequestComplete) and send     *)
(* indications (RIL_onUnsolicitedResponse) through the callback objects of  *)
(* the connected client.  radioServiceRwlock protects those objects; a call *)
(* that fails means that the client process is dead, and checkReturnStatus  *)
(* then replaces the read lock by the write lock to forget the client,      *)
(* unless a counter says that somebody else has replaced it meanwhile.      *)
(*                                                                          *)
(* Two services share the lock: the radio and the OEM hook.  One SIM slot.  *)
(***************************************************************************)
EXTENDS Integers, FiniteSets

CONSTANTS
  Vendors,      \* threads of the vendor's library
  Binder,       \* the one thread that serves the client's calls
  Tokens,       \* RequestInfo objects; each is used once
  OemTokens,    \* the ones that go through the OEM hook service
  MaxClients,   \* how many times the client process may start
  ErrorsToDead, \* the client may be dead when sendErrorResponse() calls it
  NULL

ASSUME ThreadAssumption == Binder \notin Vendors
ASSUME TokenAssumption == OemTokens \subseteq Tokens
ASSUME BoundAssumption == MaxClients \in Nat \ {0}
ASSUME SwitchAssumption == ErrorsToDead \in BOOLEAN
ASSUME NullAssumption == NULL \notin Nat /\ NULL \notin Vendors \cup {Binder} /\ NULL \notin Tokens

Threads == Vendors \cup {Binder}
Services == {"radio", "oemHook"}
Clients == 1 .. MaxClients
ServiceOf(k) == IF k \in OemTokens THEN "oemHook" ELSE "radio"

VARIABLES
  readHeld, writer,    \* radioServiceRwlock: read holds per thread, the writing thread
  callback,            \* per service: the client whose objects are set, or NULL
  registered,          \* per service: the last client that set its objects
  mCounter,            \* mCounterRadio, mCounterOemHook
  clients, alive,      \* how many clients have started, and whether the last one lives
  pc, job,             \* where each thread is and for what
  noted,               \* the counter value that checkReturnStatus noted
  pending,             \* s_pendingRequests
  used,                \* tokens that were handed out
  handed,              \* tokens passed to the vendor's onRequest()
  wasAckSent,          \* tokens whose wasAckSent flag is set
  answers,             \* per token: how many responses were sent for it
  aborted              \* an assert() of the library failed; nothing is modelled after that

lockVars    == <<readHeld, writer>>
serviceVars == <<callback, registered, mCounter>>
clientVars  == <<clients, alive>>
threadVars  == <<pc, job, noted>>
requestVars == <<pending, used, handed, wasAckSent, answers>>
vars == <<lockVars, serviceVars, clientVars, threadVars, requestVars, aborted>>

Kinds == {"none", "response", "ack", "indication", "nitz", "error", "set"}
Jobs == [kind : Kinds, svc : Services, token : Tokens \cup {NULL}, left : 0 .. 2]
NoJob == [kind |-> "none", svc |-> "radio", token |-> NULL, left |-> 0]

TypeOK ==
  /\ readHeld \in [Threads -> Nat]
  /\ writer \in Threads \cup {NULL}
  /\ callback \in [Services -> Clients \cup {NULL}]
  /\ registered \in [Services -> Clients \cup {0}]
  /\ mCounter \in [Services -> Nat]
  /\ clients \in 0 .. MaxClients
  /\ alive \in BOOLEAN
  /\ pc \in [Threads -> {"idle", "acquire", "call", "failed", "wantWrite", "reset", "wantRead",
                         "release", "set"}]
  /\ job \in [Threads -> Jobs]
  /\ noted \in [Threads -> Nat]
  /\ pending \subseteq Tokens
  /\ used \subseteq Tokens
  /\ handed \subseteq Tokens
  /\ wasAckSent \subseteq Tokens
  /\ answers \in [Tokens -> Nat]
  /\ aborted \in BOOLEAN

Init ==
  /\ readHeld = [t \in Threads |-> 0]
  /\ writer = NULL
  /\ callback = [s \in Services |-> NULL]
  /\ registered = [s \in Services |-> 0]
  /\ mCounter = [s \in Services |-> 0]
  /\ clients = 0
  /\ alive = FALSE
  /\ pc = [t \in Threads |-> "idle"]
  /\ job = [t \in Threads |-> NoJob]
  /\ noted = [t \in Threads |-> 0]
  /\ pending = {}
  /\ used = {}
  /\ handed = {}
  /\ wasAckSent = {}
  /\ answers = [k \in Tokens |-> 0]
  /\ aborted = FALSE

-----------------------------------------------------------------------------
(***************************************************************************)
(* The read-write lock of the C library.  Readers are counted, not named:   *)
(* an unlock by a thread that holds nothing takes away somebody's read      *)
(* hold, or fails if there is none or another thread writes; a failure is   *)
(* an assert() in every caller.                                             *)
(***************************************************************************)
ReadLock(t) ==
  /\ writer = NULL
  /\ readHeld' = [readHeld EXCEPT ![t] = @ + 1]
  /\ UNCHANGED writer

WriteLock(t) ==
  /\ writer = NULL
  /\ \A r \in Threads : readHeld[r] = 0
  /\ writer' = t
  /\ UNCHANGED readHeld

\* Whose hold an unlock by t takes away.
Released(t) == IF readHeld[t] > 0 THEN {t} ELSE {r \in Threads : readHeld[r] > 0}

Unlock(t) ==
  \/ /\ writer = t
     /\ writer' = NULL
     /\ UNCHANGED <<readHeld, aborted>>
  \/ /\ writer = NULL
     /\ \E r \in Released(t) : readHeld' = [readHeld EXCEPT ![r] = @ - 1]
     /\ UNCHANGED <<writer, aborted>>
  \/ /\ writer # t
     /\ writer = NULL => Released(t) = {}
     /\ aborted' = TRUE
     /\ UNCHANGED lockVars

Goto(t, l) == pc' = [pc EXCEPT ![t] = l]

-----------------------------------------------------------------------------
(***************************************************************************)
(* A call of the client's objects, under the lock (or, for sendErrorResponse,*)
(* under none), and checkReturnStatus().                                    *)
(***************************************************************************)
Acquire(t) ==
  /\ pc[t] = "acquire"
  /\ IF job[t].kind = "nitz" THEN WriteLock(t) ELSE ReadLock(t)
  /\ Goto(t, "call")
  /\ UNCHANGED <<serviceVars, clientVars, job, noted, requestVars, aborted>>

\* A response counts when it is sent to a client's object, dead or alive.
CountAnswer(t) ==
  answers' = IF job[t].kind \in {"response", "error"} /\ callback[job[t].svc] # NULL
             THEN [answers EXCEPT ![job[t].token] = @ + 1]
             ELSE answers

IsOk(c) == c = clients /\ alive

AfterCall(t) == IF job[t].kind = "error" THEN "idle" ELSE "release"

\* The function returns at once when no client is connected; a failed call
\* makes checkReturnStatus() note the counter.
Call(t) ==
  /\ pc[t] = "call"
  /\ LET c == callback[job[t].svc]
     IN  IF c = NULL \/ IsOk(c)
         THEN Goto(t, AfterCall(t)) /\ UNCHANGED noted
         ELSE Goto(t, "failed") /\ noted' = [noted EXCEPT ![t] = mCounter[job[t].svc]]
  /\ CountAnswer(t)
  /\ UNCHANGED <<lockVars, serviceVars, clientVars, job, pending, used, handed, wasAckSent, aborted>>

\* "Caller should already hold rdlock, release that first."
ReleaseForWrite(t) ==
  /\ pc[t] = "failed"
  /\ Unlock(t)
  /\ Goto(t, "wantWrite")
  /\ UNCHANGED <<serviceVars, clientVars, job, noted, requestVars>>

AcquireForReset(t) ==
  /\ pc[t] = "wantWrite"
  /\ WriteLock(t)
  /\ Goto(t, "reset")
  /\ UNCHANGED <<serviceVars, clientVars, job, noted, requestVars, aborted>>

\* Mutant: the client is never forgotten.
ResetNever(t) ==
  /\ pc[t] = "reset"
  /\ UNCHANGED serviceVars
  /\ Unlock(t)
  /\ Goto(t, "wantRead")
  /\ UNCHANGED <<clientVars, job, noted, requestVars>>

\* The client is forgotten if the counter is still what was noted.
Reset(t) ==
  /\ pc[t] = "reset"
  /\ IF mCounter[job[t].svc] = noted[t]
     THEN /\ callback' = [callback EXCEPT ![job[t].svc] = NULL]
          /\ mCounter' = [mCounter EXCEPT ![job[t].svc] = @ + 1]
     ELSE UNCHANGED <<callback, mCounter>>
  /\ noted' = [noted EXCEPT ![t] = 0]
  /\ Unlock(t)
  /\ Goto(t, "wantRead")
  /\ UNCHANGED <<registered, clientVars, job, requestVars>>

\* Mutant: the read lock is not taken again.
ReacquireNothing(t) ==
  /\ pc[t] = "wantRead"
  /\ Goto(t, AfterCall(t))
  /\ UNCHANGED <<lockVars, serviceVars, clientVars, job, noted, requestVars, aborted>>

\* The caller will unlock: "Reacquire rdlock".
ReacquireRead(t) ==
  /\ pc[t] = "wantRead"
  /\ ReadLock(t)
  /\ Goto(t, AfterCall(t))
  /\ UNCHANGED <<serviceVars, clientVars, job, noted, requestVars, aborted>>

\* Mutant: the number of indications that are left is not looked at.
ReleaseAndRepeat(t) ==
  /\ pc[t] = "release"
  /\ Unlock(t)
  /\ Goto(t, "acquire")
  /\ job' = [job EXCEPT ![t].left = @ - 1]
  /\ UNCHANGED <<serviceVars, clientVars, noted, requestVars>>

\* The caller of the response function unlocks; onNewCommandConnect() goes on
\* with its second indication.
Release(t) ==
  /\ pc[t] = "release"
  /\ Unlock(t)
  /\ Goto(t, IF job[t].left > 0 THEN "acquire" ELSE "idle")
  /\ job' = [job EXCEPT ![t] = IF job[t].left > 0 THEN [job[t] EXCEPT !.left = @ - 1] ELSE NoJob]
  /\ UNCHANGED <<serviceVars, clientVars, noted, requestVars>>

Start(t, l, k, s, tok) ==
  /\ pc[t] = "idle"
  /\ Goto(t, l)
  /\ job' = [job EXCEPT ![t] = [kind |-> k, svc |-> s, token |-> tok, left |-> 0]]
  /\ UNCHANGED noted

-----------------------------------------------------------------------------
(***************************************************************************)
(* The client's calls, on the binder thread.                                *)
(***************************************************************************)

\* The client process starts, again once it has died; the calls it made
\* before it died may still be waiting for the binder thread.
ClientStart ==
  /\ clients < MaxClients
  /\ ~alive
  /\ clients' = clients + 1
  /\ alive' = TRUE
  /\ UNCHANGED <<lockVars, serviceVars, threadVars, requestVars, aborted>>

ClientDie ==
  /\ alive
  /\ ErrorsToDead \/ pc[Binder] # "call" \/ job[Binder].kind # "error"
  /\ alive' = FALSE
  /\ UNCHANGED <<lockVars, serviceVars, clients, threadVars, requestVars, aborted>>

\* Mutant: the objects are replaced under the read lock.
SetUnderReadLock(s) ==
  /\ pc[Binder] = "idle"
  /\ clients > 0
  /\ registered[s] < clients
  /\ ReadLock(Binder)
  /\ Goto(Binder, "set")
  /\ job' = [job EXCEPT ![Binder] = [kind |-> "set", svc |-> s, token |-> NULL, left |-> 0]]
  /\ UNCHANGED <<serviceVars, clientVars, noted, requestVars, aborted>>

\* setResponseFunctions() of either service, which a client calls once.
SetResponseFunctions(s) ==
  /\ pc[Binder] = "idle"
  /\ clients > 0
  /\ registered[s] < clients
  /\ WriteLock(Binder)
  /\ Goto(Binder, "set")
  /\ job' = [job EXCEPT ![Binder] = [kind |-> "set", svc |-> s, token |-> NULL, left |-> 0]]
  /\ UNCHANGED <<serviceVars, clientVars, noted, requestVars, aborted>>

\* Mutant: the counter is not advanced.
SetBodyNoCount ==
  /\ pc[Binder] = "set"
  /\ callback' = [callback EXCEPT ![job[Binder].svc] = clients]
  /\ registered' = [registered EXCEPT ![job[Binder].svc] = clients]
  /\ UNCHANGED mCounter
  /\ Unlock(Binder)
  /\ IF job[Binder].svc = "radio"
     THEN /\ Goto(Binder, "acquire")
          /\ \E n \in {1, 2} :
               job' = [job EXCEPT ![Binder] = [job[Binder] EXCEPT !.kind = "indication", !.left = n]]
     ELSE /\ Goto(Binder, "idle")
          /\ job' = [job EXCEPT ![Binder] = NoJob]
  /\ UNCHANGED <<clientVars, noted, requestVars>>

\* The objects are replaced and the lock released; a radio client is then
\* told that it is connected, that the radio state may have changed and, if
\* a copy is kept (see RilUnsol), of the last NITZ time.
SetBody ==
  /\ pc[Binder] = "set"
  /\ callback' = [callback EXCEPT ![job[Binder].svc] = clients]
  /\ registered' = [registered EXCEPT ![job[Binder].svc] = clients]
  /\ mCounter' = [mCounter EXCEPT ![job[Binder].svc] = @ + 1]
  /\ Unlock(Binder)
  /\ IF job[Binder].svc = "radio"
     THEN /\ Goto(Binder, "acquire")
          /\ \E n \in {1, 2} :
               job' = [job EXCEPT ![Binder] = [job[Binder] EXCEPT !.kind = "indication", !.left = n]]
     ELSE /\ Goto(Binder, "idle")
          /\ job' = [job EXCEPT ![Binder] = NoJob]
  /\ UNCHANGED <<clientVars, noted, requestVars>>

\* A request that is passed to the vendor's onRequest().
Request(k) ==
  /\ pc[Binder] = "idle"
  /\ clients > 0
  /\ k \notin used
  /\ used' = used \cup {k}
  /\ pending' = pending \cup {k}
  /\ handed' = handed \cup {k}
  /\ UNCHANGED <<lockVars, serviceVars, clientVars, threadVars, wasAckSent, answers, aborted>>

\* A request that fails on the way (invalid arguments, no memory, a later
\* interface not supported): sendErrorResponse(), with no lock, and the
\* request stays on the list.
RequestError(k) ==
  /\ k \notin used
  /\ clients > 0
  /\ ErrorsToDead \/ callback[ServiceOf(k)] = NULL \/ IsOk(callback[ServiceOf(k)])
  /\ Start(Binder, "call", "error", ServiceOf(k), k)
  /\ used' = used \cup {k}
  /\ pending' = pending \cup {k}
  /\ UNCHANGED <<lockVars, serviceVars, clientVars, handed, wasAckSent, answers, aborted>>

\* A string whose length is not what it says: nothing is answered.
RequestTruncated(k) ==
  /\ pc[Binder] = "idle"
  /\ clients > 0
  /\ k \notin used
  /\ used' = used \cup {k}
  /\ pending' = pending \cup {k}
  /\ UNCHANGED <<lockVars, serviceVars, clientVars, threadVars, handed, wasAckSent, answers, aborted>>

-----------------------------------------------------------------------------
(***************************************************************************)
(* The vendor's calls.  onRequest() may complete a request on the binder    *)
(* thread itself.  The vendor may complete a token again, which is ignored, *)
(* and does not complete one while it acknowledges it.                      *)
(***************************************************************************)

\* Mutant: an entry is not taken off the list.
DequeueKeeping(k) == k \in pending /\ pending' = pending

\* checkAndDequeueRequestInfoIfAck(pRI, false): a token that is not on the
\* list is ignored by the caller.
Dequeue(k) == k \in pending /\ pending' = pending \ {k}

Acking(k) == \E t \in Threads : job[t].kind = "ack" /\ job[t].token = k

\* RIL_onRequestComplete()
OnRequestComplete(t, k) ==
  /\ k \in handed
  /\ ~Acking(k)
  /\ Dequeue(k)
  /\ Start(t, "acquire", "response", ServiceOf(k), k)
  /\ UNCHANGED <<lockVars, serviceVars, clientVars, used, handed, wasAckSent, answers, aborted>>

\* RIL_onRequestAck()
OnRequestAck(t, k) ==
  /\ k \in handed
  /\ k \in pending
  /\ Start(t, "acquire", "ack", "radio", k)
  /\ wasAckSent' = wasAckSent \cup {k}
  /\ UNCHANGED <<lockVars, serviceVars, clientVars, pending, used, handed, answers, aborted>>

\* RIL_onUnsolicitedResponse(); NITZ time takes the write lock.
OnUnsolicitedResponse(t, kind, s) ==
  /\ kind = "nitz" => s = "radio"
  /\ Start(t, "acquire", kind, s, NULL)
  /\ UNCHANGED <<lockVars, serviceVars, clientVars, requestVars, aborted>>

-----------------------------------------------------------------------------
Step(t) ==
  \/ Acquire(t)
  \/ Call(t)
  \/ ReleaseForWrite(t)
  \/ AcquireForReset(t)
  \/ Reset(t)
  \/ ReacquireRead(t)
  \/ Release(t)

BinderStep ==
  \/ \E s \in Services : SetResponseFunctions(s)
  \/ SetBody
  \/ \E k \in Tokens : Request(k)
  \/ \E k \in Tokens : RequestError(k)
  \/ \E k \in Tokens : RequestTruncated(k)

VendorStep ==
  \/ \E t \in Threads, k \in Tokens : OnRequestComplete(t, k)
  \/ \E t \in Vendors, k \in Tokens : OnRequestAck(t, k)
  \/ \E t \in Vendors, kind \in {"indication", "nitz"}, s \in Services :
       OnUnsolicitedResponse(t, kind, s)

Next ==
  /\ ~aborted
  /\ \/ \E t \in Threads : Step(t)
     \/ BinderStep
     \/ VendorStep
     \/ ClientStart
     \/ ClientDie

Spec == Init /\ [][Next]_vars

(***************************************************************************)
(* Fairness.  A thread inside the library goes on, and a lock that is free  *)
(* again and again is granted.                                              *)
(***************************************************************************)
Fairness ==
  /\ \A t \in Threads :
       /\ WF_vars(~aborted /\ (Call(t) \/ ReleaseForWrite(t) \/ Reset(t) \/ Release(t)))
       /\ SF_vars(~aborted /\ (Acquire(t) \/ AcquireForReset(t) \/ ReacquireRead(t)))
  /\ WF_vars(~aborted /\ SetBody)

FairSpec == Spec /\ Fairness

-----------------------------------------------------------------------------
(***************************************************************************)
(* Properties.                                                              *)
(***************************************************************************)

\* A thread that calls the objects of a service, or may be about to.
Reading(t, s) == job[t].svc = s /\ pc[t] \in {"call", "failed", "release"}

\* A thread that replaces them.
Writing(t, s) ==
  /\ job[t].svc = s
  /\ pc[t] = "set" \/ (pc[t] = "reset" /\ mCounter[s] = noted[t])

\* The callback objects of a service are never replaced under a thread that
\* is calling them, and by one thread at a time.
Exclusive ==
  \A s \in Services : \A t, r \in Threads :
    t # r /\ Writing(t, s) => ~Reading(r, s) /\ ~Writing(r, s)

\* Every pthread_rwlock_* assertion of the library holds.
AssertionsHold == ~aborted

\* A client is forgotten only if it is dead, whatever failed calls on its
\* predecessor are still being handled ("to avoid overwriting updates made
\* by another thread").
ForgetsOnlyTheDead ==
  [][\A s \in Services : callback[s] # NULL /\ callback'[s] = NULL => ~IsOk(callback[s])]_vars

\* No request is answered twice.
AnsweredAtMostOnce == \A k \in Tokens : answers[k] <= 1

\* The lock is held by nobody.
LockFree == writer = NULL /\ \A t \in Threads : readHeld[t] = 0

\* A dead client whose objects were called is forgotten by checkReturnStatus(),
\* whoever else is handling a failure or registering a client meanwhile; that
\* overlapping readers leave room for a writer again and again is assumed,
\* because the lock prefers readers.
DeadClientForgotten ==
  []<>LockFree =>
    \A t \in Threads, s \in Services, c \in Clients :
      (pc[t] = "failed" /\ job[t].svc = s /\ callback[s] = c) ~> (callback[s] # c)

(***************************************************************************)
(* The inductive invariants behind the theorems of RadioServiceProofs.      *)
(***************************************************************************)

\* Only the binder thread replaces the objects, once a client has started; a
\* response is for a token and is one call.
JobInv ==
  \A t \in Threads :
    /\ pc[t] = "set" => t = Binder /\ clients > 0
    /\ job[t].kind \in {"response", "error"} => job[t].token \in Tokens /\ job[t].left = 0

\* The objects are those of a client that has started.
ClientInv == \A s \in Services : callback[s] # NULL => callback[s] <= clients

\* While the counter is what a failed call noted, the objects are still those
\* of the dead client it failed on.
CounterInv ==
  \A t \in Threads : pc[t] \in {"failed", "wantWrite", "reset"} =>
    /\ noted[t] <= mCounter[job[t].svc]
    /\ mCounter[job[t].svc] = noted[t] =>
         callback[job[t].svc] # NULL /\ ~IsOk(callback[job[t].svc])

BaseInv == TypeOK /\ JobInv /\ ClientInv /\ CounterInv

\* Thread t has yet to send the response for token k.
Owes(t, k) ==
  /\ job[t].kind \in {"response", "error"}
  /\ job[t].token = k
  /\ pc[t] \in {"acquire", "call"}

\* A token is answered by the one thread that took it off the list, or by the
\* binder thread that never handed it to the vendor.
AnswerInv ==
  /\ pending \subseteq used /\ handed \subseteq used
  /\ \A k \in Tokens :
       /\ k \notin used \/ (k \in handed /\ k \in pending) =>
            answers[k] = 0 /\ \A t \in Threads : ~Owes(t, k)
       /\ \A t \in Threads : Owes(t, k) => /\ answers[k] = 0
                                           /\ \A r \in Threads : Owes(r, k) => r = t
       /\ answers[k] <= 1

\* Who holds radioServiceRwlock at which point, if no error response fails.
LockInv ==
  /\ writer # NULL => \A r \in Threads : readHeld[r] = 0
  /\ \A t \in Threads :
       /\ pc[t] \in {"idle", "acquire", "wantWrite", "wantRead"} => readHeld[t] = 0 /\ writer # t
       /\ pc[t] \in {"reset", "set"} => writer = t
       /\ pc[t] \in {"failed", "release"} => writer = t \/ readHeld[t] = 1
       /\ pc[t] = "call" => IF job[t].kind = "error" THEN readHeld[t] = 0 /\ writer # t
                                                     ELSE writer = t \/ readHeld[t] = 1
  /\ ~aborted

\* sendErrorResponse(), which takes no lock, calls a client that is alive or
\* none, and is over after that.
ErrorInv ==
  \A t \in Threads : job[t].kind = "error" =>
    /\ pc[t] \in {"idle", "call"}
    /\ pc[t] = "call" => LET c == callback[job[t].svc]
                         IN  t = Binder /\ (c = NULL \/ IsOk(c))
=============================================================================
