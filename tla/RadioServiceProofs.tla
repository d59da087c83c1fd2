------------------------- MODULE RadioServiceProofs -------------------------
(***************************************************************************)
(* Proofs about the connected client, radioServiceRwlock and the list of    *)
(* pending requests, for every number of vendor threads, tokens and client  *)
(* starts.                                                                  *)
(***************************************************************************)
EXTENDS RadioService, TLAPS

\* pthread_rwlock_rdlock() and pthread_rwlock_wrlock() keep the lock's type.
LEMMA LockType ==
  ASSUME TypeOK, NEW t \in Threads, ReadLock(t) \/ WriteLock(t)
  PROVE  readHeld' \in [Threads -> Nat] /\ writer' \in Threads \cup {NULL}
BY DEF TypeOK, ReadLock, WriteLock

\* pthread_rwlock_unlock() keeps the lock's type, whoever's hold it takes.
LEMMA UnlockType ==
  ASSUME TypeOK, NEW t \in Threads, Unlock(t)
  PROVE  /\ readHeld' \in [Threads -> Nat]
         /\ writer' \in Threads \cup {NULL}
         /\ aborted' \in BOOLEAN
  <1>1. CASE writer = t /\ writer' = NULL /\ UNCHANGED <<readHeld, aborted>>
    BY <1>1 DEF TypeOK
  <1>2. CASE /\ writer = NULL
             /\ \E r \in Released(t) : readHeld' = [readHeld EXCEPT ![r] = @ - 1]
             /\ UNCHANGED <<writer, aborted>>
    <2>1. PICK r \in Released(t) : readHeld' = [readHeld EXCEPT ![r] = @ - 1]
      BY <1>2
    <2>2. r \in Threads /\ readHeld[r] > 0
      BY DEF Released
    <2>3. QED
      BY <1>2, <2>1, <2>2 DEF TypeOK
  <1>3. CASE aborted' = TRUE /\ UNCHANGED lockVars
    BY <1>3 DEF TypeOK, lockVars
  <1>4. QED
    BY <1>1, <1>2, <1>3 DEF Unlock

-----------------------------------------------------------------------------
\* The lock is taken for a call.
LEMMA AcquireBase ==
  ASSUME BaseInv, NEW t \in Threads, Acquire(t)
  PROVE  BaseInv'
  <1> USE DEF BaseInv, Acquire, Goto, serviceVars, clientVars, requestVars
  <1>1. TypeOK'
    BY LockType DEF TypeOK
  <1>2. JobInv'
    BY DEF JobInv
  <1>3. ClientInv'
    BY DEF ClientInv
  <1>4. CounterInv'
    BY DEF CounterInv, IsOk
  <1>5. QED
    BY <1>1, <1>2, <1>3, <1>4

\* A call of the client's objects; one that fails notes the counter.
LEMMA CallBase ==
  ASSUME BaseInv, NEW t \in Threads, Call(t)
  PROVE  BaseInv'
  <1> USE DEF BaseInv, Call, Goto, lockVars, serviceVars, clientVars
  <1>1. TypeOK'
    <2>1. pc' \in [Threads -> {"idle", "acquire", "call", "failed", "wantWrite", "reset",
                               "wantRead", "release", "set"}]
      BY DEF TypeOK, AfterCall
    <2>2. noted' \in [Threads -> Nat]
      BY DEF TypeOK, Jobs
    <2>3. answers' \in [Tokens -> Nat]
      BY DEF TypeOK, CountAnswer, JobInv
    <2>4. QED
      BY <2>1, <2>2, <2>3 DEF TypeOK
  <1>2. JobInv'
    BY DEF TypeOK, JobInv, AfterCall
  <1>3. ClientInv'
    BY DEF ClientInv
  <1>4. CounterInv'
    BY DEF TypeOK, Jobs, CounterInv, IsOk, AfterCall
  <1>5. QED
    BY <1>1, <1>2, <1>3, <1>4

\* checkReturnStatus() gives the lock up.
LEMMA ReleaseForWriteBase ==
  ASSUME BaseInv, NEW t \in Threads, ReleaseForWrite(t)
  PROVE  BaseInv'
  <1> USE DEF BaseInv, ReleaseForWrite, Goto, serviceVars, clientVars, requestVars
  <1>1. TypeOK'
    BY UnlockType DEF TypeOK
  <1>2. JobInv'
    BY DEF JobInv
  <1>3. ClientInv'
    BY DEF ClientInv
  <1>4. CounterInv'
    BY DEF CounterInv, IsOk
  <1>5. QED
    BY <1>1, <1>2, <1>3, <1>4

\* checkReturnStatus() takes the write lock.
LEMMA AcquireForResetBase ==
  ASSUME BaseInv, NEW t \in Threads, AcquireForReset(t)
  PROVE  BaseInv'
  <1> USE DEF BaseInv, AcquireForReset, Goto, serviceVars, clientVars, requestVars
  <1>1. TypeOK'
    BY LockType DEF TypeOK
  <1>2. JobInv'
    BY DEF JobInv
  <1>3. ClientInv'
    BY DEF ClientInv
  <1>4. CounterInv'
    BY DEF CounterInv, IsOk
  <1>5. QED
    BY <1>1, <1>2, <1>3, <1>4

\* The client is forgotten, and the counter advanced, if it is what was noted.
LEMMA ResetBase ==
  ASSUME BaseInv, NEW t \in Threads, Reset(t)
  PROVE  BaseInv'
  <1> USE DEF BaseInv, Reset, Goto, clientVars, requestVars
  <1>1. TypeOK'
    BY UnlockType DEF TypeOK
  <1>2. JobInv'
    BY DEF JobInv
  <1>3. ClientInv'
    BY DEF TypeOK, ClientInv
  <1>4. CounterInv'
    <2> SUFFICES ASSUME NEW r \in Threads, pc'[r] \in {"failed", "wantWrite", "reset"}
                 PROVE  (/\ noted[r] <= mCounter[job[r].svc]
                         /\ mCounter[job[r].svc] = noted[r] =>
                              callback[job[r].svc] # NULL /\ ~IsOk(callback[job[r].svc]))'
      BY DEF CounterInv
    <2>1. r # t /\ pc[r] \in {"failed", "wantWrite", "reset"} /\ noted'[r] = noted[r]
      BY DEF TypeOK
    <2>2. /\ noted[r] <= mCounter[job[r].svc]
          /\ mCounter[job[r].svc] = noted[r] =>
               callback[job[r].svc] # NULL /\ ~IsOk(callback[job[r].svc])
      BY DEF CounterInv
    <2>3. /\ job[t].svc \in Services /\ job[r].svc \in Services /\ mCounter \in [Services -> Nat]
          /\ callback \in [Services -> Clients \cup {NULL}] /\ noted[r] \in Nat
      BY DEF TypeOK, Jobs
    <2>4. CASE mCounter[job[t].svc] = noted[t] /\ job[r].svc = job[t].svc
      <3>1. mCounter'[job[r].svc] = mCounter[job[r].svc] + 1
        BY <2>3, <2>4
      <3>2. QED
        BY <2>2, <2>3, <3>1
    <2>5. CASE mCounter[job[t].svc] # noted[t] \/ job[r].svc # job[t].svc
      <3>1. mCounter'[job[r].svc] = mCounter[job[r].svc] /\ callback'[job[r].svc] = callback[job[r].svc]
        BY <2>3, <2>5
      <3>2. QED
        BY <2>1, <2>2, <3>1 DEF IsOk
    <2>6. QED
      BY <2>4, <2>5
  <1>5. QED
    BY <1>1, <1>2, <1>3, <1>4

\* checkReturnStatus() takes the read lock again.
LEMMA ReacquireReadBase ==
  ASSUME BaseInv, NEW t \in Threads, ReacquireRead(t)
  PROVE  BaseInv'
  <1> USE DEF BaseInv, ReacquireRead, Goto, serviceVars, clientVars, requestVars
  <1>1. TypeOK'
    BY LockType DEF TypeOK, AfterCall
  <1>2. JobInv'
    BY DEF JobInv, AfterCall
  <1>3. ClientInv'
    BY DEF ClientInv
  <1>4. CounterInv'
    BY DEF CounterInv, IsOk, AfterCall
  <1>5. QED
    BY <1>1, <1>2, <1>3, <1>4

\* The caller of the response function unlocks.
LEMMA ReleaseBase ==
  ASSUME BaseInv, NEW t \in Threads, Release(t)
  PROVE  BaseInv'
  <1> USE DEF BaseInv, Release, Goto, serviceVars, clientVars, requestVars
  <1>1. TypeOK'
    <2>1. job' \in [Threads -> Jobs]
      <3>1. job[t] \in Jobs /\ NoJob \in Jobs
        BY DEF TypeOK, Jobs, NoJob, Kinds, Services
      <3>2. job[t].left > 0 => [job[t] EXCEPT !.left = @ - 1] \in Jobs
        BY <3>1 DEF Jobs
      <3>3. job \in [Threads -> Jobs]
        BY DEF TypeOK
      <3>4. CASE job[t].left > 0
        BY <3>2, <3>3, <3>4
      <3>5. CASE ~(job[t].left > 0)
        <4>1. job' = [job EXCEPT ![t] = NoJob]
          BY <3>5
        <4>2. QED
          BY <3>1, <3>3, <4>1
      <3>6. QED
        BY <3>4, <3>5
    <2>2. QED
      BY <2>1, UnlockType DEF TypeOK
  <1>2. JobInv'
    BY DEF JobInv, NoJob
  <1>3. ClientInv'
    BY DEF ClientInv
  <1>4. CounterInv'
    BY DEF CounterInv, IsOk
  <1>5. QED
    BY <1>1, <1>2, <1>3, <1>4

\* A client comes to register its objects.
LEMMA SetResponseFunctionsBase ==
  ASSUME BaseInv, NEW s \in Services, SetResponseFunctions(s)
  PROVE  BaseInv'
  <1> USE DEF BaseInv, SetResponseFunctions, Goto, serviceVars, clientVars, requestVars
  <1>1. TypeOK'
    BY LockType DEF TypeOK, Jobs, Kinds, Threads
  <1>2. JobInv'
    BY DEF JobInv
  <1>3. ClientInv'
    BY DEF ClientInv
  <1>4. CounterInv'
    BY DEF CounterInv, IsOk
  <1>5. QED
    BY <1>1, <1>2, <1>3, <1>4

\* The objects are replaced and the counter advanced.
LEMMA SetBodyBase ==
  ASSUME BaseInv, SetBody
  PROVE  BaseInv'
  <1> USE DEF BaseInv, SetBody, Goto, clientVars, requestVars
  <1>1. TypeOK'
    <2>1. clients \in Clients /\ Binder \in Threads /\ job[Binder].svc \in Services
      BY DEF TypeOK, JobInv, Clients, Threads, Jobs
    <2>2. job' \in [Threads -> Jobs]
      <3>1. job[Binder] \in Jobs /\ NoJob \in Jobs
        BY <2>1 DEF TypeOK, Jobs, NoJob, Kinds, Services
      <3>2. ASSUME NEW n \in {1, 2}
            PROVE  [job[Binder] EXCEPT !.kind = "indication", !.left = n] \in Jobs
        <4>1. PICK old \in Jobs : old = job[Binder]
          BY <3>1
        <4>2. n \in 0 .. 2 /\ "indication" \in Kinds
          BY DEF Kinds
        <4>3. [old EXCEPT !.kind = "indication", !.left = n] \in Jobs
          BY <4>2 DEF Jobs
        <4>4. QED
          BY <4>1, <4>3
      <3>3. PICK j \in Jobs : job' = [job EXCEPT ![Binder] = j]
        <4>1. CASE job[Binder].svc = "radio"
          <5>1. PICK n \in {1, 2} :
                  job' = [job EXCEPT ![Binder] = [job[Binder] EXCEPT !.kind = "indication",
                                                                     !.left = n]]
            BY <4>1
          <5>2. QED
            BY <3>2, <5>1
        <4>2. CASE job[Binder].svc # "radio"
          BY <3>1, <4>2
        <4>3. QED
          BY <4>1, <4>2
      <3>4. job \in [Threads -> Jobs]
        BY DEF TypeOK
      <3>5. QED
        BY <3>3, <3>4
    <2>3. QED
      BY <2>1, <2>2, UnlockType DEF TypeOK
  <1>2. JobInv'
    <2> SUFFICES ASSUME NEW r \in Threads
                 PROVE  (/\ pc[r] = "set" => r = Binder /\ clients > 0
                         /\ job[r].kind \in {"response", "error"} =>
                              job[r].token \in Tokens /\ job[r].left = 0)'
      BY DEF JobInv
    <2>1. CASE r = Binder
      <3>1. pc'[Binder] # "set"
        BY <2>1 DEF TypeOK
      <3>2. CASE job[Binder].svc = "radio"
        <4>1. PICK n \in {1, 2} :
                job' = [job EXCEPT ![Binder] = [job[Binder] EXCEPT !.kind = "indication",
                                                                   !.left = n]]
          BY <3>2
        <4>2. job[Binder] \in Jobs /\ job'[Binder] = [job[Binder] EXCEPT !.kind = "indication",
                                                                       !.left = n]
          BY <2>1, <4>1 DEF TypeOK
        <4>3. job'[Binder].kind = "indication"
          BY <4>2 DEF Jobs
        <4>4. QED
          BY <2>1, <3>1, <4>3
      <3>3. CASE job[Binder].svc # "radio"
        BY <2>1, <3>1, <3>3 DEF TypeOK, NoJob
      <3>4. QED
        BY <3>2, <3>3
    <2>2. CASE r # Binder
      BY <2>2 DEF TypeOK, JobInv
    <2>3. QED
      BY <2>1, <2>2
  <1>3. ClientInv'
    BY DEF TypeOK, ClientInv
  <1>4. CounterInv'
    BY DEF TypeOK, CounterInv, IsOk
  <1>5. QED
    BY <1>1, <1>2, <1>3, <1>4

\* A request goes to the vendor.
LEMMA RequestBase ==
  ASSUME BaseInv, NEW k \in Tokens, Request(k)
  PROVE  BaseInv'
  <1> USE DEF BaseInv, Request, lockVars, serviceVars, clientVars, threadVars
  <1>1. TypeOK'
    BY DEF TypeOK
  <1>2. JobInv'
    BY DEF JobInv
  <1>3. ClientInv'
    BY DEF ClientInv
  <1>4. CounterInv'
    BY DEF CounterInv, IsOk
  <1>5. QED
    BY <1>1, <1>2, <1>3, <1>4

\* A request is answered with an error before it gets to the vendor.
LEMMA RequestErrorBase ==
  ASSUME BaseInv, NEW k \in Tokens, RequestError(k)
  PROVE  BaseInv'
  <1> USE DEF BaseInv, RequestError, Goto, Start, lockVars, serviceVars, clientVars
  <1>1. TypeOK'
    BY DEF TypeOK, Jobs, Kinds, Threads, ServiceOf, Services
  <1>2. JobInv'
    BY DEF JobInv
  <1>3. ClientInv'
    BY DEF ClientInv
  <1>4. CounterInv'
    BY DEF CounterInv, IsOk
  <1>5. QED
    BY <1>1, <1>2, <1>3, <1>4

\* A request is dropped.
LEMMA RequestTruncatedBase ==
  ASSUME BaseInv, NEW k \in Tokens, RequestTruncated(k)
  PROVE  BaseInv'
  <1> USE DEF BaseInv, RequestTruncated, lockVars, serviceVars, clientVars, threadVars
  <1>1. TypeOK'
    BY DEF TypeOK
  <1>2. JobInv'
    BY DEF JobInv
  <1>3. ClientInv'
    BY DEF ClientInv
  <1>4. CounterInv'
    BY DEF CounterInv, IsOk
  <1>5. QED
    BY <1>1, <1>2, <1>3, <1>4

\* The vendor completes a request.
LEMMA OnRequestCompleteBase ==
  ASSUME BaseInv, NEW t \in Threads, NEW k \in Tokens, OnRequestComplete(t, k)
  PROVE  BaseInv'
  <1> USE DEF BaseInv, OnRequestComplete, Goto, Start, lockVars, serviceVars, clientVars
  <1>1. TypeOK'
    BY DEF TypeOK, Jobs, Kinds, ServiceOf, Services, Dequeue
  <1>2. JobInv'
    BY DEF JobInv
  <1>3. ClientInv'
    BY DEF ClientInv
  <1>4. CounterInv'
    BY DEF CounterInv, IsOk
  <1>5. QED
    BY <1>1, <1>2, <1>3, <1>4

\* The vendor acknowledges a request.
LEMMA OnRequestAckBase ==
  ASSUME BaseInv, NEW t \in Threads, NEW k \in Tokens, OnRequestAck(t, k)
  PROVE  BaseInv'
  <1> USE DEF BaseInv, OnRequestAck, Goto, Start, lockVars, serviceVars, clientVars
  <1>1. TypeOK'
    BY DEF TypeOK, Jobs, Kinds, Services
  <1>2. JobInv'
    BY DEF JobInv
  <1>3. ClientInv'
    BY DEF ClientInv
  <1>4. CounterInv'
    BY DEF CounterInv, IsOk
  <1>5. QED
    BY <1>1, <1>2, <1>3, <1>4

\* The vendor sends an indication.
LEMMA OnUnsolicitedResponseBase ==
  ASSUME BaseInv, NEW t \in Threads, NEW kind \in {"indication", "nitz"},
         NEW s \in Services, OnUnsolicitedResponse(t, kind, s)
  PROVE  BaseInv'
  <1> USE DEF BaseInv, OnUnsolicitedResponse, Goto, Start, lockVars, serviceVars,
              clientVars, requestVars
  <1>1. TypeOK'
    BY DEF TypeOK, Jobs, Kinds
  <1>2. JobInv'
    BY DEF JobInv
  <1>3. ClientInv'
    BY DEF ClientInv
  <1>4. CounterInv'
    BY DEF CounterInv, IsOk
  <1>5. QED
    BY <1>1, <1>2, <1>3, <1>4

\* A client starts: its number is larger than that of any object.
LEMMA ClientStartBase ==
  ASSUME BaseInv, ClientStart
  PROVE  BaseInv'
  <1> USE DEF BaseInv, ClientStart, lockVars, serviceVars, threadVars, requestVars
  <1>1. TypeOK'
    BY BoundAssumption DEF TypeOK
  <1>2. JobInv'
    BY DEF TypeOK, JobInv
  <1>3. ClientInv'
    BY DEF TypeOK, ClientInv, Clients
  <1>4. CounterInv'
    <2> SUFFICES ASSUME NEW r \in Threads, pc[r] \in {"failed", "wantWrite", "reset"}
                 PROVE  (/\ noted[r] <= mCounter[job[r].svc]
                         /\ mCounter[job[r].svc] = noted[r] =>
                              callback[job[r].svc] # NULL /\ ~IsOk(callback[job[r].svc]))'
      BY DEF CounterInv
    <2>1. job[r].svc \in Services /\ callback[job[r].svc] \in Clients \cup {NULL}
      BY DEF TypeOK, Jobs
    <2>2. callback[job[r].svc] # NULL => callback[job[r].svc] # clients + 1
      BY <2>1 DEF ClientInv, TypeOK
    <2>3. QED
      BY <2>2 DEF CounterInv, IsOk
  <1>5. QED
    BY <1>1, <1>2, <1>3, <1>4

\* The client dies.
LEMMA ClientDieBase ==
  ASSUME BaseInv, ClientDie
  PROVE  BaseInv'
  <1> USE DEF BaseInv, ClientDie, lockVars, serviceVars, threadVars, requestVars
  <1>1. TypeOK'
    BY DEF TypeOK
  <1>2. JobInv'
    BY DEF JobInv
  <1>3. ClientInv'
    BY DEF ClientInv
  <1>4. CounterInv'
    BY DEF CounterInv, IsOk
  <1>5. QED
    BY <1>1, <1>2, <1>3, <1>4

\* A stuttering step.
LEMMA StutterBase ==
  ASSUME BaseInv, UNCHANGED vars
  PROVE  BaseInv'
BY DEF BaseInv, vars, lockVars, serviceVars, clientVars, threadVars, requestVars, TypeOK, JobInv,
   ClientInv, CounterInv, IsOk

\* Nobody is connected and nothing is asked for at first.
LEMMA InitBase == Init => BaseInv
  <1> SUFFICES ASSUME Init PROVE BaseInv
    OBVIOUS
  <1>1. NoJob \in Jobs /\ NoJob.kind = "none"
    BY DEF NoJob, Jobs, Kinds, Services
  <1>2. TypeOK
    <2>1. /\ readHeld \in [Threads -> Nat] /\ writer \in Threads \cup {NULL}
          /\ callback \in [Services -> Clients \cup {NULL}]
          /\ registered \in [Services -> Clients \cup {0}] /\ mCounter \in [Services -> Nat]
      BY DEF Init
    <2>2. clients \in 0 .. MaxClients
      BY BoundAssumption DEF Init
    <2>3. alive \in BOOLEAN /\ aborted \in BOOLEAN
      BY DEF Init
    <2>4. /\ pc \in [Threads -> {"idle", "acquire", "call", "failed", "wantWrite", "reset",
                                 "wantRead", "release", "set"}]
          /\ job \in [Threads -> Jobs] /\ noted \in [Threads -> Nat]
      BY <1>1 DEF Init
    <2>5. /\ pending \subseteq Tokens /\ used \subseteq Tokens /\ handed \subseteq Tokens
          /\ wasAckSent \subseteq Tokens /\ answers \in [Tokens -> Nat]
      BY DEF Init
    <2>6. QED
      BY <2>1, <2>2, <2>3, <2>4, <2>5 DEF TypeOK
  <1>3. JobInv /\ ClientInv /\ CounterInv
    BY <1>1 DEF Init, JobInv, ClientInv, CounterInv
  <1>4. QED
    BY <1>2, <1>3 DEF BaseInv

\* The invariant of the connected client.
THEOREM BaseInductive == Spec => []BaseInv
  <1>1. Init => BaseInv
    BY InitBase
  <1>2. BaseInv /\ [Next]_vars => BaseInv'
    <2> SUFFICES ASSUME BaseInv, [Next]_vars PROVE BaseInv'
      OBVIOUS
    <2>1. CASE \E t \in Threads : Step(t)
      BY <2>1, AcquireBase, CallBase, ReleaseForWriteBase, AcquireForResetBase, ResetBase,
         ReacquireReadBase, ReleaseBase DEF Step
    <2>2. CASE BinderStep
      BY <2>2, SetResponseFunctionsBase, SetBodyBase, RequestBase, RequestErrorBase,
         RequestTruncatedBase DEF BinderStep
    <2>3. CASE VendorStep
      <3>1. Vendors \subseteq Threads
        BY DEF Threads
      <3>2. QED
        BY <2>3, <3>1, OnRequestCompleteBase, OnRequestAckBase, OnUnsolicitedResponseBase DEF
           VendorStep
    <2>4. CASE ClientStart \/ ClientDie
      BY <2>4, ClientStartBase, ClientDieBase
    <2>5. CASE UNCHANGED vars
      BY <2>5, StutterBase
    <2>6. QED
      BY <2>1, <2>2, <2>3, <2>4, <2>5 DEF Next
  <1>3. QED
    BY <1>1, <1>2, PTL DEF Spec

\* The state stays well typed, also when an error response goes to a dead
\* client and spoils the lock.
THEOREM TypeCorrect == Spec => []TypeOK
  <1>1. BaseInv => TypeOK
    BY DEF BaseInv
  <1>2. QED
    BY <1>1, BaseInductive, PTL

\* checkReturnStatus() forgets the client it failed on or none: the counter
\* keeps a late failure from taking a new client's objects away, however many
\* threads handle failures and however often the client restarts.
THEOREM NoLiveClientForgotten == Spec => ForgetsOnlyTheDead
  <1> DEFINE Forgets == \A s \in Services :
               callback[s] # NULL /\ callback'[s] = NULL => ~IsOk(callback[s])
  <1>1. BaseInv /\ [Next]_vars => [Forgets]_vars
    <2> SUFFICES ASSUME BaseInv, Next PROVE Forgets
      OBVIOUS
    <2> SUFFICES ASSUME NEW s \in Services, callback[s] # NULL, callback'[s] = NULL
                 PROVE  ~IsOk(callback[s])
      OBVIOUS
    <2>1. CASE \E t \in Threads : Reset(t)
      <3>1. PICK t \in Threads : Reset(t)
        BY <2>1
      <3>2. job[t].svc \in Services /\ callback \in [Services -> Clients \cup {NULL}]
        BY DEF BaseInv, TypeOK, Jobs
      <3>3. mCounter[job[t].svc] = noted[t] /\ job[t].svc = s
        BY <3>1, <3>2 DEF Reset
      <3>4. QED
        BY <3>1, <3>3 DEF BaseInv, CounterInv, Reset
    <2>2. CASE SetBody
      <3>1. clients # NULL
        BY NullAssumption DEF BaseInv, TypeOK
      <3>2. callback'[s] \in {callback[s], clients}
        BY <2>2 DEF SetBody
      <3>3. QED
        BY <3>1, <3>2
    <2>3. QED
      BY <2>1, <2>2 DEF Next, Step, BinderStep, VendorStep, Acquire, Call, ReleaseForWrite,
         AcquireForReset, ReacquireRead, Release, SetResponseFunctions, Request, RequestError,
         RequestTruncated, OnRequestComplete, OnRequestAck, OnUnsolicitedResponse, ClientStart,
         ClientDie, serviceVars
  <1>2. QED
    BY <1>1, BaseInductive, PTL DEF Spec, ForgetsOnlyTheDead

-----------------------------------------------------------------------------
\* A step that answers nothing and lets no thread owe another response.
LEMMA OwesFewer ==
  ASSUME AnswerInv, UNCHANGED <<pending, used, handed, answers>>,
         \A t \in Threads, k \in Tokens : Owes(t, k)' => Owes(t, k)
  PROVE  AnswerInv'
BY DEF AnswerInv

\* The thread still owes what it owed.
LEMMA AcquireAnswer ==
  ASSUME BaseInv, AnswerInv, NEW t \in Threads, Acquire(t)
  PROVE  AnswerInv'
  <1>1. \A r \in Threads, i \in Tokens : Owes(r, i)' => Owes(r, i)
    BY DEF Acquire, Goto, Owes
  <1>2. QED
    BY <1>1, OwesFewer DEF Acquire, requestVars

\* It has sent its response.
LEMMA ReleaseForWriteAnswer ==
  ASSUME BaseInv, AnswerInv, NEW t \in Threads, ReleaseForWrite(t)
  PROVE  AnswerInv'
  <1>1. \A r \in Threads, i \in Tokens : Owes(r, i)' => Owes(r, i)
    BY DEF ReleaseForWrite, Goto, Owes
  <1>2. QED
    BY <1>1, OwesFewer DEF ReleaseForWrite, requestVars

\* It has sent its response.
LEMMA AcquireForResetAnswer ==
  ASSUME BaseInv, AnswerInv, NEW t \in Threads, AcquireForReset(t)
  PROVE  AnswerInv'
  <1>1. \A r \in Threads, i \in Tokens : Owes(r, i)' => Owes(r, i)
    BY DEF AcquireForReset, Goto, Owes
  <1>2. QED
    BY <1>1, OwesFewer DEF AcquireForReset, requestVars

\* It has sent its response.
LEMMA ResetAnswer ==
  ASSUME BaseInv, AnswerInv, NEW t \in Threads, Reset(t)
  PROVE  AnswerInv'
  <1>1. \A r \in Threads, i \in Tokens : Owes(r, i)' => Owes(r, i)
    BY DEF Reset, Goto, Owes
  <1>2. QED
    BY <1>1, OwesFewer DEF Reset, requestVars

\* It has sent its response.
LEMMA ReacquireReadAnswer ==
  ASSUME BaseInv, AnswerInv, NEW t \in Threads, ReacquireRead(t)
  PROVE  AnswerInv'
  <1>1. \A r \in Threads, i \in Tokens : Owes(r, i)' => Owes(r, i)
    BY DEF ReacquireRead, Goto, AfterCall, Owes
  <1>2. QED
    BY <1>1, OwesFewer DEF ReacquireRead, requestVars

\* A response is one call; only indications are repeated.
LEMMA ReleaseAnswer ==
  ASSUME BaseInv, AnswerInv, NEW t \in Threads, Release(t)
  PROVE  AnswerInv'
  <1>1. \A r \in Threads, i \in Tokens : Owes(r, i)' => Owes(r, i)
    BY DEF Release, Goto, BaseInv, JobInv, Owes
  <1>2. QED
    BY <1>1, OwesFewer DEF Release, requestVars

\* Registering is no response.
LEMMA SetResponseFunctionsAnswer ==
  ASSUME BaseInv, AnswerInv, NEW s \in Services, SetResponseFunctions(s)
  PROVE  AnswerInv'
  <1>1. \A r \in Threads, i \in Tokens : Owes(r, i)' => Owes(r, i)
    BY DEF SetResponseFunctions, Goto, Owes
  <1>2. QED
    BY <1>1, OwesFewer DEF SetResponseFunctions, requestVars

\* An acknowledgement is no response.
LEMMA OnRequestAckAnswer ==
  ASSUME BaseInv, AnswerInv, NEW t \in Threads, NEW k \in Tokens, OnRequestAck(t, k)
  PROVE  AnswerInv'
  <1>1. \A r \in Threads, i \in Tokens : Owes(r, i)' => Owes(r, i)
    BY DEF OnRequestAck, Goto, Start, BaseInv, TypeOK, Owes
  <1>2. QED
    BY <1>1, OwesFewer DEF OnRequestAck

\* An indication is no response.
LEMMA OnUnsolicitedResponseAnswer ==
  ASSUME BaseInv, AnswerInv, NEW t \in Threads, NEW kind \in {"indication", "nitz"},
         NEW s \in Services, OnUnsolicitedResponse(t, kind, s)
  PROVE  AnswerInv'
  <1>1. \A r \in Threads, i \in Tokens : Owes(r, i)' => Owes(r, i)
    BY DEF OnUnsolicitedResponse, Goto, Start, BaseInv, TypeOK, Owes
  <1>2. QED
    BY <1>1, OwesFewer DEF OnUnsolicitedResponse, requestVars

\* The client sends no response.
LEMMA ClientStartAnswer ==
  ASSUME BaseInv, AnswerInv, ClientStart
  PROVE  AnswerInv'
  <1>1. \A r \in Threads, i \in Tokens : Owes(r, i)' => Owes(r, i)
    BY DEF ClientStart, Owes, threadVars
  <1>2. QED
    BY <1>1, OwesFewer DEF ClientStart, requestVars

\* The client sends no response.
LEMMA ClientDieAnswer ==
  ASSUME BaseInv, AnswerInv, ClientDie
  PROVE  AnswerInv'
  <1>1. \A r \in Threads, i \in Tokens : Owes(r, i)' => Owes(r, i)
    BY DEF ClientDie, Owes, threadVars
  <1>2. QED
    BY <1>1, OwesFewer DEF ClientDie, requestVars

\* A client that has registered is told so with indications.
LEMMA SetBodyAnswer ==
  ASSUME BaseInv, AnswerInv, SetBody
  PROVE  AnswerInv'
  <1>1. ASSUME NEW r \in Threads, NEW i \in Tokens, Owes(r, i)'
        PROVE  Owes(r, i)
    <2>1. Binder \in Threads /\ job \in [Threads -> Jobs] /\ pc[Binder] = "set"
      BY DEF BaseInv, TypeOK, Threads, SetBody
    <2>2. CASE r = Binder
      <3>1. CASE job[Binder].svc = "radio"
        <4>1. PICK n \in {1, 2} :
                job' = [job EXCEPT ![Binder] = [job[Binder] EXCEPT !.kind = "indication",
                                                                   !.left = n]]
          BY <3>1 DEF SetBody
        <4>2. job'[Binder].kind = "indication"
          BY <2>1, <4>1
        <4>3. QED
          BY <1>1, <2>2, <4>2 DEF Owes
      <3>2. CASE job[Binder].svc # "radio"
        <4>1. pc'[Binder] = "idle"
          BY <2>1, <3>2 DEF SetBody, Goto, BaseInv, TypeOK
        <4>2. QED
          BY <1>1, <2>2, <4>1 DEF Owes
      <3>3. QED
        BY <3>1, <3>2
    <2>3. CASE r # Binder
      BY <1>1, <2>3 DEF SetBody, Goto, Owes, BaseInv, TypeOK
    <2>4. QED
      BY <2>2, <2>3
  <1>2. QED
    BY <1>1, OwesFewer DEF SetBody, requestVars

\* A response is sent by the thread that owes it, which then owes it no more.
LEMMA CallAnswer ==
  ASSUME BaseInv, AnswerInv, NEW t \in Threads, Call(t)
  PROVE  AnswerInv'
  <1>1. UNCHANGED <<pending, used, handed, job>> /\ pc[t] = "call"
    BY DEF Call
  <1>2. \A r \in Threads : pc'[r] = IF r = t THEN pc'[t] ELSE pc[r]
    BY DEF Call, Goto, BaseInv, TypeOK
  <1>3. pc'[t] \notin {"acquire", "call"}
    BY DEF Call, Goto, AfterCall, BaseInv, TypeOK
  <1>4. /\ \A r \in Threads, i \in Tokens : Owes(r, i)' => Owes(r, i) /\ r # t
    BY <1>1, <1>2, <1>3 DEF Owes
  <1>5. CASE answers' = answers
    BY <1>1, <1>4, <1>5, OwesFewer
  <1>6. CASE answers' # answers
    <2>1. PICK k \in Tokens : k = job[t].token /\ job[t].kind \in {"response", "error"}
      BY <1>6 DEF Call, CountAnswer, BaseInv, JobInv
    <2>2. Owes(t, k)
      BY <1>1, <2>1 DEF Owes
    <2>3. answers' = [answers EXCEPT ![k] = @ + 1] /\ answers \in [Tokens -> Nat]
      BY <1>6, <2>1 DEF Call, CountAnswer, BaseInv, TypeOK
    <2>4. answers[k] = 0 /\ \A r \in Threads : Owes(r, k) => r = t
      BY <2>2 DEF AnswerInv
    <2>5. answers'[k] = 1 /\ \A i \in Tokens : i # k => answers'[i] = answers[i]
      BY <2>3, <2>4
    <2>6. k \in used /\ ~(k \in handed /\ k \in pending)
      BY <2>2 DEF AnswerInv
    <2>7. ASSUME NEW i \in Tokens
          PROVE  (/\ i \notin used \/ (i \in handed /\ i \in pending) =>
                       answers[i] = 0 /\ \A r \in Threads : ~Owes(r, i)
                  /\ \A r \in Threads : Owes(r, i) => /\ answers[i] = 0
                                                      /\ \A q \in Threads : Owes(q, i) => q = r
                  /\ answers[i] <= 1)'
      <3>1. CASE i = k
        BY <1>1, <1>4, <2>4, <2>5, <2>6, <3>1
      <3>2. CASE i # k
        BY <1>1, <1>4, <2>5, <3>2 DEF AnswerInv
      <3>3. QED
        BY <3>1, <3>2
    <2>8. QED
      BY <1>1, <2>7 DEF AnswerInv
  <1>7. QED
    BY <1>5, <1>6

\* A token is handed to the vendor once.
LEMMA RequestAnswer ==
  ASSUME BaseInv, AnswerInv, NEW k \in Tokens, Request(k) \/ RequestTruncated(k)
  PROVE  AnswerInv'
  <1>1. /\ k \notin used /\ used' = used \cup {k} /\ pending' = pending \cup {k}
        /\ handed \subseteq handed' /\ handed' \subseteq handed \cup {k}
        /\ UNCHANGED <<answers, job, pc>>
    BY DEF Request, RequestTruncated, threadVars
  <1>2. \A r \in Threads, i \in Tokens : Owes(r, i)' <=> Owes(r, i)
    BY <1>1 DEF Owes
  <1>3. QED
    BY <1>1, <1>2 DEF AnswerInv

\* The binder thread answers a token that is new, and that the vendor never
\* gets.
LEMMA RequestErrorAnswer ==
  ASSUME BaseInv, AnswerInv, NEW k \in Tokens, RequestError(k)
  PROVE  AnswerInv'
  <1>1. /\ k \notin used /\ used' = used \cup {k} /\ pending' = pending \cup {k}
        /\ UNCHANGED <<answers, handed>> /\ Binder \in Threads
    BY DEF RequestError, Threads
  <1>2. \A r \in Threads, i \in Tokens : Owes(r, i)' <=> IF r = Binder THEN i = k ELSE Owes(r, i)
    BY DEF RequestError, Start, Goto, BaseInv, TypeOK, Owes
  <1>3. QED
    BY <1>1, <1>2 DEF AnswerInv

\* Only one completion finds the token on the list.
LEMMA OnRequestCompleteAnswer ==
  ASSUME BaseInv, AnswerInv, NEW t \in Threads, NEW k \in Tokens, OnRequestComplete(t, k)
  PROVE  AnswerInv'
  <1>1. /\ k \in handed /\ k \in pending /\ pending' = pending \ {k}
        /\ UNCHANGED <<answers, handed, used>>
    BY DEF OnRequestComplete, Dequeue
  <1>2. \A r \in Threads, i \in Tokens : Owes(r, i)' <=> IF r = t THEN i = k ELSE Owes(r, i)
    BY DEF OnRequestComplete, Start, Goto, BaseInv, TypeOK, Owes
  <1>3. QED
    BY <1>1, <1>2 DEF AnswerInv

\* A stuttering step.
LEMMA StutterAnswer ==
  ASSUME BaseInv, AnswerInv, UNCHANGED vars
  PROVE  AnswerInv'
BY DEF vars, threadVars, requestVars, AnswerInv, Owes

\* No request is answered twice, however often the vendor completes it and on
\* whichever threads: completions race for the entry on the list, and an error
\* response goes only to a request the vendor never had.
THEOREM NeverAnsweredTwice == Spec => []AnsweredAtMostOnce
  <1>1. Init => AnswerInv
    BY DEF Init, AnswerInv, Owes
  <1>2. BaseInv /\ AnswerInv /\ [Next]_vars => AnswerInv'
    <2> SUFFICES ASSUME BaseInv, AnswerInv, [Next]_vars PROVE AnswerInv'
      OBVIOUS
    <2>1. CASE \E t \in Threads : Step(t)
      BY <2>1, AcquireAnswer, CallAnswer, ReleaseForWriteAnswer, AcquireForResetAnswer,
         ResetAnswer, ReacquireReadAnswer, ReleaseAnswer DEF Step
    <2>2. CASE BinderStep
      BY <2>2, SetResponseFunctionsAnswer, SetBodyAnswer, RequestAnswer, RequestErrorAnswer DEF
         BinderStep
    <2>3. CASE VendorStep
      <3>1. Vendors \subseteq Threads
        BY DEF Threads
      <3>2. QED
        BY <2>3, <3>1, OnRequestCompleteAnswer, OnRequestAckAnswer, OnUnsolicitedResponseAnswer
           DEF VendorStep
    <2>4. CASE ClientStart \/ ClientDie
      BY <2>4, ClientStartAnswer, ClientDieAnswer
    <2>5. CASE UNCHANGED vars
      BY <2>5, StutterAnswer
    <2>6. QED
      BY <2>1, <2>2, <2>3, <2>4, <2>5 DEF Next
  <1>3. AnswerInv => AnsweredAtMostOnce
    BY DEF AnswerInv, AnsweredAtMostOnce
  <1>4. QED
    BY <1>1, <1>2, <1>3, BaseInductive, PTL DEF Spec

-----------------------------------------------------------------------------
(***************************************************************************)
(* The lock, if no error response goes to a dead client.                    *)
(***************************************************************************)
LockedInv == BaseInv /\ LockInv /\ ErrorInv

\* A thread that holds the lock gives its own hold up, and the assertion holds.
LEMMA UnlockOwn ==
  ASSUME TypeOK, LockInv, NEW t \in Threads, writer = t \/ readHeld[t] = 1, Unlock(t)
  PROVE  /\ readHeld' = [readHeld EXCEPT ![t] = 0]
         /\ writer' = NULL
         /\ ~aborted'
  <1>1. t # NULL /\ readHeld \in [Threads -> Nat]
    BY NullAssumption DEF TypeOK, Threads
  <1>2. CASE writer = t
    <2>1. readHeld[t] = 0
      BY <1>1, <1>2 DEF LockInv
    <2>2. readHeld = [readHeld EXCEPT ![t] = 0]
      BY <1>1, <2>1
    <2>3. QED
      BY <1>1, <2>2 DEF Unlock, LockInv
  <1>3. CASE writer # t
    <2>1. readHeld[t] = 1 /\ writer = NULL
      BY <1>3 DEF LockInv
    <2>2. Released(t) = {t}
      BY <2>1 DEF Released
    <2>3. QED
      BY <1>3, <2>2 DEF Unlock, LockInv
  <1>4. QED
    BY <1>2, <1>3

\* A NITZ takes the write lock, everything else the read lock.
LEMMA AcquireLocked ==
  ASSUME LockedInv, ~ErrorsToDead, NEW t \in Threads, Acquire(t)
  PROVE  LockInv' /\ ErrorInv'
  <1> USE DEF LockedInv, BaseInv, Acquire, Goto, serviceVars, clientVars, requestVars
  <1>1. LockInv'
    BY NullAssumption DEF LockInv, ErrorInv, TypeOK, ReadLock, WriteLock, Threads
  <1>2. ErrorInv'
    BY DEF ErrorInv, IsOk
  <1>3. QED
    BY <1>1, <1>2

\* An error response does not fail, so checkReturnStatus() finds the lock held.
LEMMA CallLocked ==
  ASSUME LockedInv, ~ErrorsToDead, NEW t \in Threads, Call(t)
  PROVE  LockInv' /\ ErrorInv'
  <1> USE DEF LockedInv, BaseInv, Call, Goto, lockVars, serviceVars, clientVars
  <1>1. LockInv'
    BY DEF LockInv, ErrorInv, TypeOK, AfterCall
  <1>2. ErrorInv'
    BY DEF ErrorInv, TypeOK, AfterCall, IsOk
  <1>3. QED
    BY <1>1, <1>2

\* The thread gives up what it holds.
LEMMA ReleaseForWriteLocked ==
  ASSUME LockedInv, ~ErrorsToDead, NEW t \in Threads, ReleaseForWrite(t)
  PROVE  LockInv' /\ ErrorInv'
  <1> USE DEF LockedInv, BaseInv, ReleaseForWrite, Goto, serviceVars, clientVars, requestVars
  <1>1. /\ readHeld' = [readHeld EXCEPT ![t] = 0] /\ writer' = NULL /\ ~aborted'
        /\ \A r \in Threads : r # t => writer # r
    BY UnlockOwn, NullAssumption DEF LockInv, Threads
  <1>2. LockInv'
    BY <1>1, NullAssumption DEF LockInv, TypeOK, Threads
  <1>3. ErrorInv'
    BY DEF ErrorInv, IsOk
  <1>4. QED
    BY <1>2, <1>3

\* The write lock is granted when nobody holds it.
LEMMA AcquireForResetLocked ==
  ASSUME LockedInv, ~ErrorsToDead, NEW t \in Threads, AcquireForReset(t)
  PROVE  LockInv' /\ ErrorInv'
  <1> USE DEF LockedInv, BaseInv, AcquireForReset, Goto, serviceVars, clientVars, requestVars
  <1>1. LockInv'
    BY NullAssumption DEF LockInv, TypeOK, WriteLock, Threads
  <1>2. ErrorInv'
    BY DEF ErrorInv, IsOk
  <1>3. QED
    BY <1>1, <1>2

\* The write lock is given up; an error response under way finds no client.
LEMMA ResetLocked ==
  ASSUME LockedInv, ~ErrorsToDead, NEW t \in Threads, Reset(t)
  PROVE  LockInv' /\ ErrorInv'
  <1> USE DEF LockedInv, BaseInv, Reset, Goto, clientVars, requestVars
  <1>1. /\ readHeld' = [readHeld EXCEPT ![t] = 0] /\ writer' = NULL /\ ~aborted'
        /\ \A r \in Threads : r # t => writer # r
    BY UnlockOwn DEF LockInv
  <1>2. LockInv'
    BY <1>1, NullAssumption DEF LockInv, TypeOK, Threads
  <1>3. ErrorInv'
    <2> SUFFICES ASSUME NEW r \in Threads, job[r].kind = "error"
                 PROVE  (/\ pc[r] \in {"idle", "call"}
                         /\ pc[r] = "call" => LET c == callback[job[r].svc]
                                              IN  r = Binder /\ (c = NULL \/ IsOk(c)))'
      BY DEF ErrorInv
    <2>1. job[r].svc \in Services /\ callback'[job[r].svc] \in {NULL, callback[job[r].svc]}
      BY DEF TypeOK, Jobs
    <2>2. QED
      BY <2>1 DEF ErrorInv, IsOk
  <1>4. QED
    BY <1>2, <1>3

\* The caller will find the read lock held.
LEMMA ReacquireReadLocked ==
  ASSUME LockedInv, ~ErrorsToDead, NEW t \in Threads, ReacquireRead(t)
  PROVE  LockInv' /\ ErrorInv'
  <1> USE DEF LockedInv, BaseInv, ReacquireRead, Goto, serviceVars, clientVars, requestVars
  <1>1. LockInv'
    BY DEF LockInv, ErrorInv, TypeOK, AfterCall, ReadLock
  <1>2. ErrorInv'
    BY DEF ErrorInv, IsOk
  <1>3. QED
    BY <1>1, <1>2

\* The caller gives up what checkReturnStatus() left it.
LEMMA ReleaseLocked ==
  ASSUME LockedInv, ~ErrorsToDead, NEW t \in Threads, Release(t)
  PROVE  LockInv' /\ ErrorInv'
  <1> USE DEF LockedInv, BaseInv, Release, Goto, serviceVars, clientVars, requestVars
  <1>1. /\ readHeld' = [readHeld EXCEPT ![t] = 0] /\ writer' = NULL /\ ~aborted'
        /\ \A r \in Threads : r # t => writer # r
    BY UnlockOwn, NullAssumption DEF LockInv, Threads
  <1>2. LockInv'
    BY <1>1, NullAssumption DEF LockInv, TypeOK, Threads
  <1>3. ErrorInv'
    BY DEF ErrorInv, IsOk, NoJob
  <1>4. QED
    BY <1>2, <1>3

\* Registering takes the write lock.
LEMMA SetResponseFunctionsLocked ==
  ASSUME LockedInv, ~ErrorsToDead, NEW s \in Services, SetResponseFunctions(s)
  PROVE  LockInv' /\ ErrorInv'
  <1> USE DEF LockedInv, BaseInv, SetResponseFunctions, Goto, serviceVars, clientVars, requestVars
  <1>1. LockInv'
    BY NullAssumption DEF LockInv, TypeOK, WriteLock, Threads
  <1>2. ErrorInv'
    BY DEF ErrorInv, TypeOK
  <1>3. QED
    BY <1>1, <1>2

\* The binder thread, which alone sends error responses, is registering.
LEMMA SetBodyLocked ==
  ASSUME LockedInv, ~ErrorsToDead, SetBody
  PROVE  LockInv' /\ ErrorInv'
  <1> USE DEF LockedInv, BaseInv, SetBody, Goto, clientVars, requestVars
  <1>1. /\ readHeld' = [readHeld EXCEPT ![Binder] = 0] /\ writer' = NULL /\ ~aborted'
        /\ \A r \in Threads : r # Binder => writer # r
    BY UnlockOwn DEF LockInv, Threads
  <1>2. LockInv'
    BY <1>1, NullAssumption DEF LockInv, TypeOK, Threads
  <1>3. ErrorInv'
    <2>1. Binder \in Threads /\ job \in [Threads -> Jobs]
      BY DEF TypeOK, Threads
    <2>2. job'[Binder].kind # "error"
      <3>1. CASE job[Binder].svc = "radio"
        BY <2>1, <3>1 DEF Jobs
      <3>2. CASE job[Binder].svc # "radio"
        BY <2>1, <3>2 DEF NoJob
      <3>3. QED
        BY <3>1, <3>2
    <2>3. \A r \in Threads : r # Binder => pc'[r] = pc[r] /\ job'[r] = job[r]
      BY DEF TypeOK
    <2>4. QED
      BY <2>2, <2>3 DEF ErrorInv
  <1>4. QED
    BY <1>2, <1>3

\* A request goes to the vendor, with no lock.
LEMMA RequestLocked ==
  ASSUME LockedInv, ~ErrorsToDead, NEW k \in Tokens, Request(k)
  PROVE  LockInv' /\ ErrorInv'
  <1> USE DEF LockedInv, BaseInv, Request, lockVars, serviceVars, clientVars, threadVars
  <1>1. LockInv'
    BY DEF LockInv
  <1>2. ErrorInv'
    BY DEF ErrorInv
  <1>3. QED
    BY <1>1, <1>2

\* An error response is sent to no client or to a live one, with no lock.
LEMMA RequestErrorLocked ==
  ASSUME LockedInv, ~ErrorsToDead, NEW k \in Tokens, RequestError(k)
  PROVE  LockInv' /\ ErrorInv'
  <1> USE DEF LockedInv, BaseInv, RequestError, Goto, Start, lockVars, serviceVars, clientVars
  <1>1. LockInv'
    BY DEF LockInv, TypeOK
  <1>2. ErrorInv'
    BY DEF ErrorInv, TypeOK, IsOk
  <1>3. QED
    BY <1>1, <1>2

\* A request is dropped, with no lock.
LEMMA RequestTruncatedLocked ==
  ASSUME LockedInv, ~ErrorsToDead, NEW k \in Tokens, RequestTruncated(k)
  PROVE  LockInv' /\ ErrorInv'
  <1> USE DEF LockedInv, BaseInv, RequestTruncated, lockVars, serviceVars, clientVars, threadVars
  <1>1. LockInv'
    BY DEF LockInv
  <1>2. ErrorInv'
    BY DEF ErrorInv
  <1>3. QED
    BY <1>1, <1>2

\* A completion begins, with no lock.
LEMMA OnRequestCompleteLocked ==
  ASSUME LockedInv, ~ErrorsToDead, NEW t \in Threads, NEW k \in Tokens, OnRequestComplete(t, k)
  PROVE  LockInv' /\ ErrorInv'
  <1> USE DEF LockedInv, BaseInv, OnRequestComplete, Goto, Start, lockVars, serviceVars, clientVars
  <1>1. LockInv'
    BY DEF LockInv
  <1>2. ErrorInv'
    BY DEF ErrorInv, TypeOK, IsOk
  <1>3. QED
    BY <1>1, <1>2

\* An acknowledgement begins, with no lock.
LEMMA OnRequestAckLocked ==
  ASSUME LockedInv, ~ErrorsToDead, NEW t \in Threads, NEW k \in Tokens, OnRequestAck(t, k)
  PROVE  LockInv' /\ ErrorInv'
  <1> USE DEF LockedInv, BaseInv, OnRequestAck, Goto, Start, lockVars, serviceVars, clientVars
  <1>1. LockInv'
    BY DEF LockInv
  <1>2. ErrorInv'
    BY DEF ErrorInv, TypeOK, IsOk
  <1>3. QED
    BY <1>1, <1>2

\* An indication begins, with no lock.
LEMMA OnUnsolicitedResponseLocked ==
  ASSUME LockedInv, ~ErrorsToDead, NEW t \in Threads, NEW kind \in {"indication", "nitz"},
         NEW s \in Services, OnUnsolicitedResponse(t, kind, s)
  PROVE  LockInv' /\ ErrorInv'
  <1> USE DEF LockedInv, BaseInv, OnUnsolicitedResponse, Goto, Start, lockVars, serviceVars,
              clientVars, requestVars
  <1>1. LockInv'
    BY DEF LockInv
  <1>2. ErrorInv'
    BY DEF ErrorInv, TypeOK, IsOk
  <1>3. QED
    BY <1>1, <1>2

\* No error response is under way to a live client.
LEMMA ClientStartLocked ==
  ASSUME LockedInv, ~ErrorsToDead, ClientStart
  PROVE  LockInv' /\ ErrorInv'
  <1> USE DEF LockedInv, BaseInv, ClientStart, lockVars, serviceVars, threadVars, requestVars
  <1>1. LockInv'
    BY DEF LockInv
  <1>2. ErrorInv'
    BY DEF ErrorInv, IsOk
  <1>3. QED
    BY <1>1, <1>2

\* The client does not die under an error response.
LEMMA ClientDieLocked ==
  ASSUME LockedInv, ~ErrorsToDead, ClientDie
  PROVE  LockInv' /\ ErrorInv'
  <1> USE DEF LockedInv, BaseInv, ClientDie, lockVars, serviceVars, threadVars, requestVars
  <1>1. LockInv'
    BY DEF LockInv
  <1>2. ErrorInv'
    BY DEF ErrorInv
  <1>3. QED
    BY <1>1, <1>2

\* A stuttering step.
LEMMA StutterLocked ==
  ASSUME LockedInv, UNCHANGED vars
  PROVE  LockInv' /\ ErrorInv'
BY DEF LockedInv, vars, lockVars, serviceVars, clientVars, threadVars, LockInv, ErrorInv, IsOk

\* The invariant of the lock.
THEOREM LockInductive ==
  ASSUME ~ErrorsToDead
  PROVE  Spec => []LockedInv
  <1>1. Init => LockedInv
    <2>1. Init => LockInv /\ ErrorInv
      BY NullAssumption DEF Init, LockInv, ErrorInv, Threads
    <2>2. QED
      BY <2>1, InitBase DEF LockedInv
  <1>2. LockedInv /\ BaseInv' /\ [Next]_vars => LockedInv'
    <2> SUFFICES ASSUME LockedInv, BaseInv', [Next]_vars PROVE LockInv' /\ ErrorInv'
      BY DEF LockedInv
    <2>1. CASE \E t \in Threads : Step(t)
      BY <2>1, AcquireLocked, CallLocked, ReleaseForWriteLocked, AcquireForResetLocked,
         ResetLocked, ReacquireReadLocked, ReleaseLocked DEF Step
    <2>2. CASE BinderStep
      BY <2>2, SetResponseFunctionsLocked, SetBodyLocked, RequestLocked, RequestErrorLocked,
         RequestTruncatedLocked DEF BinderStep
    <2>3. CASE VendorStep
      <3>1. Vendors \subseteq Threads
        BY DEF Threads
      <3>2. QED
        BY <2>3, <3>1, OnRequestCompleteLocked, OnRequestAckLocked, OnUnsolicitedResponseLocked
           DEF VendorStep
    <2>4. CASE ClientStart \/ ClientDie
      BY <2>4, ClientStartLocked, ClientDieLocked
    <2>5. CASE UNCHANGED vars
      BY <2>5, StutterLocked
    <2>6. QED
      BY <2>1, <2>2, <2>3, <2>4, <2>5 DEF Next
  <1>3. QED
    BY <1>1, <1>2, BaseInductive, PTL DEF Spec

\* Every pthread_rwlock_* assertion of the library holds, whichever calls fail
\* and whoever registers meanwhile, if no error response goes to a dead client.
THEOREM NoAssertFails ==
  ASSUME ~ErrorsToDead
  PROVE  Spec => []AssertionsHold
  <1>1. LockedInv => AssertionsHold
    BY DEF LockedInv, LockInv, AssertionsHold
  <1>2. QED
    BY <1>1, LockInductive, PTL

\* The callback objects of a service are replaced by one thread at a time and
\* never under a thread that calls them, under the same condition; an error
\* response, which takes no lock, is safe because the counter lets nobody
\* forget the live client that it calls.
THEOREM ObjectsGuarded ==
  ASSUME ~ErrorsToDead
  PROVE  Spec => []Exclusive
  <1>1. LockedInv => Exclusive
    <2> SUFFICES ASSUME LockedInv, NEW s \in Services, NEW t \in Threads, NEW r \in Threads,
                        t # r, Writing(t, s)
                 PROVE  ~Reading(r, s) /\ ~Writing(r, s)
      BY DEF Exclusive
    <2>1. writer = t /\ t # NULL
      BY NullAssumption DEF Writing, LockedInv, LockInv, Threads
    <2>2. ~Writing(r, s)
      BY DEF Writing, LockedInv, LockInv
    <2>3. ASSUME Reading(r, s)
          PROVE  FALSE
      <3>1. pc[r] = "call" /\ job[r].kind = "error"
        BY <2>1, <2>3 DEF Reading, LockedInv, LockInv
      <3>2. r = Binder /\ (callback[s] = NULL \/ IsOk(callback[s]))
        BY <2>3, <3>1 DEF Reading, LockedInv, ErrorInv
      <3>3. pc[t] = "reset" /\ mCounter[s] = noted[t] /\ job[t].svc = s
        BY <3>2 DEF Writing, LockedInv, BaseInv, JobInv
      <3>4. QED
        BY <3>2, <3>3 DEF LockedInv, BaseInv, CounterInv
    <2>4. QED
      BY <2>2, <2>3
  <1>2. QED
    BY <1>1, LockInductive, PTL
=============================================================================
