-------------------------- MODULE SapServiceProofs --------------------------
(***************************************************************************)
(* Proofs about the requests of the SIM access profile, for any number of   *)
(* requests, of vendor threads and of client starts.                        *)
(***************************************************************************)
EXTENDS SapService, SequenceTheorems, NaturalsInduction, WellFoundedInduction, TLAPS

\* A set of natural numbers that is not empty has a least element.
LEMMA LeastElement ==
  ASSUME NEW T \in SUBSET Nat, T # {}
  PROVE  \E x \in T : \A y \in T : x <= y
  <1>1. PICK x \in T : \A y \in T : ~(<<y, x>> \in OpToRel(<, Nat))
    BY NatLessThanWellFounded, WFMin
  <1>2. \A y \in T : x <= y
    <2> SUFFICES ASSUME NEW y \in T PROVE x <= y
      OBVIOUS
    <2>1. ~(y < x)
      BY <1>1 DEF OpToRel
    <2>2. QED
      BY <2>1
  <1>3. QED
    BY <1>2

\* An element is put in front of a sequence.
LEMMA ConsProperties ==
  ASSUME NEW S, NEW s \in Seq(S), NEW x \in S
  PROVE  /\ <<x>> \o s \in Seq(S)
         /\ DOMAIN (<<x>> \o s) = 1 .. Len(s) + 1
         /\ (<<x>> \o s)[1] = x
         /\ \A i \in DOMAIN s : (<<x>> \o s)[i + 1] = s[i]
OBVIOUS

\* An element is taken out of a sequence.
LEMMA RemoveAtProperties ==
  ASSUME NEW S, NEW s \in Seq(S), NEW k \in DOMAIN s
  PROVE  /\ RemoveAt(s, k) \in Seq(S)
         /\ DOMAIN RemoveAt(s, k) = 1 .. Len(s) - 1
         /\ \A i \in 1 .. Len(s) - 1 : RemoveAt(s, k)[i] = IF i < k THEN s[i] ELSE s[i + 1]
  <1> DEFINE before == SubSeq(s, 1, k - 1)
             after == SubSeq(s, k + 1, Len(s))
  <1>1. k \in 1 .. Len(s) /\ Len(s) \in Nat
    BY LenProperties
  <1>2. /\ before \in Seq(S) /\ Len(before) = k - 1
        /\ \A i \in 1 .. k - 1 : before[i] = s[i]
    OBVIOUS
  <1>3. /\ after \in Seq(S) /\ Len(after) = Len(s) - k
        /\ \A i \in 1 .. Len(s) - k : after[i] = s[k + i]
    OBVIOUS
  <1> HIDE DEF before, after
  <1>4. RemoveAt(s, k) = before \o after
    BY DEF RemoveAt, before, after
  <1>5. /\ before \o after \in Seq(S) /\ Len(before \o after) = Len(before) + Len(after)
        /\ \A i \in 1 .. Len(before) + Len(after) :
             (before \o after)[i] = IF i <= Len(before) THEN before[i] ELSE after[i - Len(before)]
    BY <1>2, <1>3, ConcatProperties
  <1>6. DOMAIN (before \o after) = 1 .. Len(s) - 1
    BY <1>1, <1>2, <1>3, <1>5, LenProperties, SMTT(30)
  <1>7. ASSUME NEW i \in 1 .. Len(s) - 1
        PROVE  (before \o after)[i] = IF i < k THEN s[i] ELSE s[i + 1]
    <2>1. CASE i < k
      <3>1. i \in 1 .. Len(before) + Len(after) /\ i <= Len(before) /\ i \in 1 .. k - 1
        BY <1>2, <2>1
      <3>2. QED
        BY <1>2, <3>1
    <2>2. CASE ~(i < k)
      <3>1. i \in 1 .. Len(before) + Len(after) /\ ~(i <= Len(before))
        BY <1>2, <1>3, <2>2
      <3>2. (before \o after)[i] = after[i - (k - 1)]
        BY <1>2, <3>1
      <3>3. i - (k - 1) \in 1 .. Len(s) - k /\ k + (i - (k - 1)) = i + 1
        BY <2>2
      <3>4. QED
        BY <1>3, <3>2, <3>3
    <2>3. QED
      BY <2>1, <2>2
  <1>8. QED
    BY <1>4, <1>5, <1>6, <1>7

\* A call keeps nothing but the command of an APDU.
LEMMA KeptIsCommand ==
  ASSUME NEW id, NEW at
  PROVE  Kept(id, at) \in SUBSET {"command"} /\ KeptWhenSent(id) \in SUBSET {"command"}
  <1>1. Kept(id, at) \subseteq {"command"}
    BY DEF Kept, Freed
  <1>2. KeptWhenSent(id) \subseteq {"command"}
    BY DEF KeptWhenSent, Allocated
  <1>3. QED
    BY <1>1, <1>2

-----------------------------------------------------------------------------
(* What each step does to the threads *)

\* a thread comes to the state x, and no other thread moves
Moves(t, x) ==
  /\ x \in ThreadStates
  /\ thread' \in [Threads -> ThreadStates]
  /\ thread'[t] = x
  /\ \A s \in Threads : s # t => thread'[s] = thread[s]

\* A thread is given a new state.
LEMMA Assigned ==
  ASSUME TypeOK, NEW t \in Threads, NEW x \in ThreadStates,
         thread' = [thread EXCEPT ![t] = x]
  PROVE  Moves(t, x)
BY DEF TypeOK, Moves

\* An idle thread is in a state of a thread.
LEMMA IdleState == Idle \in ThreadStates
  <1>1. <<"none", "none">> \in Tellings
    BY DEF Tellings
  <1>2. QED
    BY <1>1 DEF Idle, ThreadStates

\* The states a thread is put in are states of a thread.
LEMMA StatesOfThreads ==
  ASSUME NEW pc \in {"idle", "check", "fail", "call", "told", "reset", "dequeue"},
         NEW r \in Requests \cup {NULL}, NEW id \in MsgIds \cup {"STATUS", "ERROR_RESP", "none"},
         NEW code \in SimCodes \cup {"none"}, NEW kept \in SUBSET {"command"}
  PROVE  /\ [Idle EXCEPT !.kept = kept] \in ThreadStates
         /\ [Idle EXCEPT !.pc = pc, !.r = r] \in ThreadStates
         /\ [Idle EXCEPT !.pc = pc, !.id = id, !.code = code] \in ThreadStates
         /\ [Idle EXCEPT !.pc = pc, !.r = r, !.id = id, !.code = code] \in ThreadStates
         /\ [Idle EXCEPT !.pc = pc, !.r = r, !.id = id, !.kept = kept] \in ThreadStates
  <1>1. <<"none", "none">> \in Tellings
    BY DEF Tellings
  <1>2. QED
    BY <1>1 DEF Idle, ThreadStates

\* A request call that fails goes on to answer its request.
LEMMA RequestFailsMoves ==
  ASSUME TypeOK, NEW r \in Requests, NEW id \in MsgIds, NEW at, RequestFails(r, id, at)
  PROVE  \E x : /\ Moves(Binder, x)
                /\ x.pc = "fail" /\ x.r = r /\ x.id = id
  <1> DEFINE x == [Idle EXCEPT !.pc = "fail", !.r = r, !.id = id, !.kept = Kept(id, at)]
  <1>1. x \in ThreadStates
    BY StatesOfThreads, KeptIsCommand
  <1>2. x.pc = "fail" /\ x.r = r /\ x.id = id
    BY DEF Idle
  <1>3. thread' = [thread EXCEPT ![Binder] = x]
    BY DEF RequestFails
  <1> HIDE DEF x
  <1>4. QED
    BY <1>1, <1>2, <1>3, Assigned DEF Threads

\* A request call that was dispatched, or could not be, returns.
LEMMA DispatchMoves ==
  ASSUME TypeOK, NEW r \in Requests, NEW id \in MsgIds,
         DispatchFails(r, id) \/ dispatchRequest(r, id)
  PROVE  \E x : /\ Moves(Binder, x)
                /\ x.pc = "idle" /\ x.r = NULL
  <1>1. PICK kept \in SUBSET {"command"} : thread' = [thread EXCEPT ![Binder] = [Idle EXCEPT !.kept = kept]]
    BY KeptIsCommand DEF DispatchFails, dispatchRequest
  <1> DEFINE x == [Idle EXCEPT !.kept = kept]
  <1>2. x \in ThreadStates
    BY StatesOfThreads
  <1>3. x.pc = "idle" /\ x.r = NULL
    BY DEF Idle
  <1>4. thread' = [thread EXCEPT ![Binder] = x]
    BY <1>1
  <1> HIDE DEF x
  <1>5. QED
    BY <1>2, <1>3, <1>4, Assigned DEF Threads

\* A completion that finds its request alive goes on with it.
LEMMA CompleteMoves ==
  ASSUME TypeOK, OwnerInv, NEW v \in Vendors, NEW r \in held, NEW code \in SimCodes \cup {"none"},
         onRequestComplete(v, r, code), req[r].node # "freed"
  PROVE  \E x : /\ Moves(v, x)
                /\ x.r = r
                /\ x.pc = "dequeue" \/ (x.pc = "check" /\ x.id = req[r].id)
  <1> USE DEF Threads
  <1>1. r \in Requests /\ req[r].id \in MsgIds
    BY DEF TypeOK, OwnerInv, HeldInv
  <1>2. CASE thread' = [thread EXCEPT ![v] = [Idle EXCEPT !.pc = "dequeue", !.r = r]]
    <2> DEFINE x == [Idle EXCEPT !.pc = "dequeue", !.r = r]
    <2>1. x \in ThreadStates
      BY <1>1, StatesOfThreads
    <2>2. x.pc = "dequeue" /\ x.r = r
      BY DEF Idle
    <2>3. thread' = [thread EXCEPT ![v] = x]
      BY <1>2
    <2> HIDE DEF x
    <2>4. QED
      BY <2>1, <2>2, <2>3, Assigned
  <1>3. CASE thread' = [thread EXCEPT ![v] = [Idle EXCEPT !.pc = "check", !.r = r,
                                                !.id = req[r].id, !.code = code]]
    <2> DEFINE x == [Idle EXCEPT !.pc = "check", !.r = r, !.id = req[r].id, !.code = code]
    <2>1. x \in ThreadStates
      BY <1>1, StatesOfThreads
    <2>2. x.pc = "check" /\ x.r = r /\ x.id = req[r].id
      BY DEF Idle
    <2>3. thread' = [thread EXCEPT ![v] = x]
      BY <1>3
    <2> HIDE DEF x
    <2>4. QED
      BY <2>1, <2>2, <2>3, Assigned
  <1>4. QED
    BY <1>2, <1>3 DEF onRequestComplete

\* An indication has no request.
LEMMA IndicationMoves ==
  ASSUME TypeOK, NEW v \in Vendors, NEW id \in {"DISCONNECT", "STATUS", "ERROR_RESP"},
         NEW code \in {"none", "SUCCESS"}, onUnsolicitedResponse(v, id, code)
  PROVE  \E x : /\ Moves(v, x)
                /\ x.pc = "check" /\ x.r = NULL
  <1> DEFINE x == [Idle EXCEPT !.pc = "check", !.id = id, !.code = code]
  <1>1. x \in ThreadStates
    BY StatesOfThreads, ZenonT(30) DEF MsgIds, SimCodes
  <1>2. x.pc = "check" /\ x.r = NULL
    BY DEF Idle
  <1>3. thread' = [thread EXCEPT ![v] = x]
    BY DEF onUnsolicitedResponse
  <1> HIDE DEF x
  <1>4. QED
    BY <1>1, <1>2, <1>3, Assigned DEF Threads

\* The test of the callback leads to the call of it only if it is not null.
LEMMA CheckMoves ==
  ASSUME TypeOK, NEW v \in Vendors, CheckCallback(v)
  PROVE  \E x : /\ Moves(v, x)
                /\ x.r = thread[v].r
                /\ \/ x.pc = "dequeue"
                   \/ /\ callback # NULL
                      /\ x.pc \in {"fail", "call"} /\ x.id = thread[v].id
                      /\ x.pc = "call" => x.code \in SimCodes
  <1> USE DEF Threads
  <1>1. thread[v] \in ThreadStates
    BY DEF TypeOK
  <1>2. CASE thread' = [thread EXCEPT ![v] = ToDequeue(v)]
    <2> DEFINE x == ToDequeue(v)
    <2>1. x \in ThreadStates
      <3>1. thread[v].r \in Requests \cup {NULL}
        BY <1>1 DEF ThreadStates
      <3>2. QED
        BY <3>1, StatesOfThreads DEF ToDequeue
    <2>2. x.pc = "dequeue" /\ x.r = thread[v].r
      BY DEF ToDequeue
    <2>3. thread' = [thread EXCEPT ![v] = x]
      BY <1>2
    <2> HIDE DEF x
    <2>4. QED
      BY <2>1, <2>2, <2>3, Assigned
  <1>3. CASE callback # NULL /\ Goto(v, IF thread[v].code = "none" THEN "fail" ELSE "call")
    <2> DEFINE x == [thread[v] EXCEPT !.pc = IF thread[v].code = "none" THEN "fail" ELSE "call"]
    <2>1. x \in ThreadStates
      BY <1>1 DEF ThreadStates
    <2>2. /\ x.pc = IF thread[v].code = "none" THEN "fail" ELSE "call"
          /\ x.r = thread[v].r /\ x.id = thread[v].id /\ x.code = thread[v].code
      OBVIOUS
    <2>3. thread' = [thread EXCEPT ![v] = x]
      BY <1>3 DEF Goto
    <2>4. x.pc = "call" => x.code \in SimCodes
      BY <1>1 DEF ThreadStates
    <2> HIDE DEF x
    <2>5. QED
      BY <1>3, <2>1, <2>2, <2>3, <2>4, Assigned
  <1>4. QED
    BY <1>2, <1>3 DEF CheckCallback

\* The answer of a request: told, dropped with an error, or a fault.
LEMMA DeliverMoves ==
  ASSUME TypeOK, OwnerInv, NEW t \in Threads, Deliver(t)
  PROVE  \/ fault' = "null callback" /\ callback = NULL /\ UNCHANGED <<answered, thread>>
         \/ \E x :
              /\ Moves(t, x)
              /\ x.r = thread[t].r
              /\ UNCHANGED fault
              /\ \/ /\ x.pc = "reset" /\ UNCHANGED answered
                    /\ ~(callback = client.gen /\ client.alive) /\ callback # NULL
                 \/ x.pc = "told" /\ Silent(t) /\ UNCHANGED answered
                 \/ /\ x.pc = "told" /\ x.told = Told(t)
                    /\ x.id = thread[t].id /\ x.code = thread[t].code
                    /\ \E rs \in Answers(t) :
                         answered' = [r \in Requests |->
                                        IF r \in rs /\ answered[r] < 2 THEN answered[r] + 1
                                                                       ELSE answered[r]]
  <1>1. thread[t] \in ThreadStates /\ thread \in [Threads -> ThreadStates]
    BY DEF TypeOK
  <1>2. CASE Silent(t) /\ Goto(t, "told") /\ UNCHANGED <<answered, fault>>
    <2> DEFINE x == [thread[t] EXCEPT !.pc = "told"]
    <2>1. x \in ThreadStates
      BY <1>1 DEF ThreadStates
    <2>2. x.pc = "told" /\ x.r = thread[t].r
      OBVIOUS
    <2>3. thread' = [thread EXCEPT ![t] = x]
      BY <1>2 DEF Goto
    <2> HIDE DEF x
    <2>4. QED
      BY <1>2, <2>1, <2>2, <2>3, Assigned
  <1>3. CASE /\ ~Silent(t)
             /\ \E rs \in Answers(t) :
                  answered' = [r \in Requests |->
                                 IF r \in rs /\ answered[r] < 2 THEN answered[r] + 1
                                                                ELSE answered[r]]
             /\ thread' = [thread EXCEPT ![t] = [thread[t] EXCEPT !.pc = "told", !.told = Told(t)]]
             /\ UNCHANGED fault
    <2> DEFINE x == [thread[t] EXCEPT !.pc = "told", !.told = Told(t)]
    <2>1. Told(t) \in Tellings
      <3>1. CASE thread[t].r = NULL
        BY <3>1 DEF Told, Tellings
      <3>2. CASE thread[t].r # NULL
        <4>1. thread[t].id \in MsgIds /\ thread[t].code \in SimCodes \cup {"none"}
          BY <1>1, <3>2 DEF OwnerInv, WorkInv, Deliver, At, ThreadStates
        <4>2. QED
          BY <4>1 DEF Told, Tellings
      <3>3. QED
        BY <3>1, <3>2
    <2>2. x \in ThreadStates
      BY <1>1, <2>1 DEF ThreadStates
    <2>3. /\ x.pc = "told" /\ x.r = thread[t].r /\ x.told = Told(t)
          /\ x.id = thread[t].id /\ x.code = thread[t].code
      OBVIOUS
    <2>4. thread' = [thread EXCEPT ![t] = x]
      BY <1>3
    <2> HIDE DEF x
    <2>5. QED
      BY <1>3, <2>2, <2>3, <2>4, Assigned
  <1>4. CASE /\ thread' = [thread EXCEPT ![t] = [Idle EXCEPT !.pc = "reset", !.r = thread[t].r]]
             /\ UNCHANGED <<answered, fault>>
             /\ callback # NULL
             /\ ~(callback = client.gen /\ client.alive)
    <2> DEFINE x == [Idle EXCEPT !.pc = "reset", !.r = thread[t].r]
    <2>1. x \in ThreadStates
      <3>1. thread[t].r \in Requests \cup {NULL}
        BY <1>1 DEF ThreadStates
      <3>2. QED
        BY <3>1, StatesOfThreads
    <2>2. x.pc = "reset" /\ x.r = thread[t].r
      BY DEF Idle
    <2>3. thread' = [thread EXCEPT ![t] = x]
      BY <1>4
    <2> HIDE DEF x
    <2>4. QED
      BY <1>4, <2>1, <2>2, <2>3, Assigned
  <1>5. QED
    BY <1>2, <1>3, <1>4 DEF Deliver

\* The end of a call: the binder thread returns, a vendor's goes on to the queue.
LEMMA FinishedMoves ==
  ASSUME TypeOK, NEW t \in Threads, Finished(t)
  PROVE  \E x : /\ Moves(t, x)
                /\ \/ t = Binder /\ x.r = NULL /\ x.pc = "idle"
                   \/ t # Binder /\ x.r = thread[t].r /\ x.pc = "dequeue"
  <1>1. CASE t = Binder
    <2>1. Idle \in ThreadStates
      BY IdleState
    <2>2. Idle.r = NULL /\ Idle.pc = "idle"
      BY DEF Idle
    <2>3. thread' = [thread EXCEPT ![t] = Idle]
      BY <1>1 DEF Finished
    <2>4. QED
      BY <1>1, <2>1, <2>2, <2>3, Assigned
  <1>2. CASE t # Binder
    <2> DEFINE x == ToDequeue(t)
    <2>1. x \in ThreadStates
      <3>1. thread[t].r \in Requests \cup {NULL}
        BY DEF TypeOK, ThreadStates
      <3>2. QED
        BY <3>1, StatesOfThreads DEF ToDequeue
    <2>2. x.pc = "dequeue" /\ x.r = thread[t].r
      BY DEF ToDequeue
    <2>3. thread' = [thread EXCEPT ![t] = x]
      BY <1>2 DEF Finished
    <2> HIDE DEF x
    <2>4. QED
      BY <1>2, <2>1, <2>2, <2>3, Assigned
  <1>3. QED
    BY <1>1, <1>2

\* After the search of the queue the thread is free.
LEMMA DequeueMoves ==
  ASSUME TypeOK, NEW v \in Vendors, checkAndDequeue(v)
  PROVE  Moves(v, Idle) /\ Idle.r = NULL /\ Idle.pc = "idle"
  <1>1. Idle \in ThreadStates
    BY IdleState
  <1>2. Idle.r = NULL /\ Idle.pc = "idle"
    BY DEF Idle
  <1>3. thread' = [thread EXCEPT ![v] = Idle]
    BY DEF checkAndDequeue
  <1>4. QED
    BY <1>1, <1>2, <1>3, Assigned DEF Threads

-----------------------------------------------------------------------------
(* What each step does to the requests *)

\* The first match is a match.
LEMMA MatchFound ==
  ASSUME TypeOK, NEW r \in Requests, Found(r)
  PROVE  /\ Match(r) \in DOMAIN queue
         /\ Same(queue[Match(r)], r)
         /\ \A j \in 1 .. Match(r) - 1 : ~Same(queue[j], r)
  <1> DEFINE S == {i \in DOMAIN queue : Same(queue[i], r)}
  <1>1. DOMAIN queue = 1 .. Len(queue) /\ Len(queue) \in Nat
    OBVIOUS
  <1>2. S # {} /\ S \subseteq Nat
    BY <1>1 DEF Found
  <1>3. PICK i \in S : \A j \in S : i <= j
    BY <1>2, LeastElement
  <1>4. i \in DOMAIN queue /\ Same(queue[i], r) /\ \A j \in 1 .. i - 1 : ~Same(queue[j], r)
    BY <1>1, <1>3
  <1>5. QED
    BY <1>4 DEF Match

\* No request is unused again, and the search of the queue forgets only its own.
LEMMA DequeueRequests ==
  ASSUME TypeOK, OwnerInv, NEW v \in Vendors, checkAndDequeue(v)
  PROVE  /\ req' \in [Requests -> RequestStates]
         /\ queue' \in Seq(Requests)
         /\ \A r \in Requests :
              /\ req[r] # Unused => req'[r] # Unused
              /\ req'[r].id = req[r].id \/ (r = thread[v].r /\ req'[r].id = "none")
              /\ req'[r].twin = req[r].twin
  <1> DEFINE x == thread[v].r
  <1>1. x \in Requests \cup {NULL} /\ req \in [Requests -> RequestStates] /\ queue \in Seq(Requests)
    BY DEF TypeOK, ThreadStates, Threads
  <1>2. CASE UNCHANGED <<req, queue>>
    BY <1>1, <1>2
  <1>3. CASE x # NULL /\ Found(x) /\ req' = Freeing(x, queue[Match(x)])
             /\ queue' = RemoveAt(queue, Match(x))
    <2>1. x \in Requests
      BY <1>1, <1>3
    <2>2. Match(x) \in DOMAIN queue
      BY <1>3, <2>1, MatchFound
    <2>3. PICK s \in Requests : s = queue[Match(x)]
      BY <1>1, <2>2
    <2>4. queue' \in Seq(Requests)
      BY <1>1, <1>3, <2>2, RemoveAtProperties
    <2>5. CASE x = s
      <3> DEFINE y == [Done EXCEPT !.twin = req[x].twin]
      <3>1. req' = [req EXCEPT ![x] = y]
        BY <1>3, <2>3, <2>5 DEF Freeing
      <3>2. req[x].twin \in BOOLEAN
        BY <1>1, <2>1 DEF RequestStates
      <3>3. y \in RequestStates
        BY <3>2 DEF Done, Unused, RequestStates, Objects
      <3>4. y.id = "none" /\ y.twin = req[x].twin /\ y.node = "freed"
        BY DEF Done, Unused
      <3>5. y # Unused
        BY <3>4 DEF Unused
      <3> HIDE DEF y
      <3>6. QED
        BY <1>1, <2>4, <3>1, <3>3, <3>4, <3>5
    <2>6. CASE x # s
      <3> DEFINE y == [req[s] EXCEPT !.node = "freed"]
                 z == [req[x] EXCEPT !.header = "freed"]
      <3>1. req' = [req EXCEPT ![s] = y, ![x] = z]
        BY <1>3, <2>3, <2>6 DEF Freeing
      <3>2. y \in RequestStates /\ z \in RequestStates
        <4>1. req[s] \in RequestStates /\ req[x] \in RequestStates
          BY <1>1, <2>1
        <4>2. y \in RequestStates
          BY <4>1 DEF RequestStates, Objects
        <4>3. z \in RequestStates
          BY <4>1 DEF RequestStates, Objects
        <4>4. QED
          BY <4>2, <4>3
      <3>3. /\ y.id = req[s].id /\ y.twin = req[s].twin /\ y.node = "freed"
            /\ z.id = req[x].id /\ z.twin = req[x].twin /\ z.header = "freed"
        OBVIOUS
      <3>4. y # Unused /\ z # Unused
        BY DEF Unused
      <3> HIDE DEF y, z
      <3>5. QED
        BY <1>1, <2>4, <3>1, <3>2, <3>3, <3>4
    <2>7. QED
      BY <2>5, <2>6
  <1>4. CASE x # NULL /\ req' = [req EXCEPT ![x].header = "freed"] /\ UNCHANGED queue
    <2> DEFINE z == [req[x] EXCEPT !.header = "freed"]
    <2>1. x \in Requests /\ req' = [req EXCEPT ![x] = z]
      BY <1>1, <1>4
    <2>2. z \in RequestStates
      BY <1>1, <2>1 DEF RequestStates, Objects
    <2>3. z # Unused
      BY DEF Unused
    <2> HIDE DEF z
    <2>4. QED
      BY <1>1, <1>4, <2>1, <2>2, <2>3
  <1>5. QED
    BY <1>2, <1>3, <1>4 DEF checkAndDequeue

\* A request that is sent, or could not be, is not unused.
LEMMA CallRequests ==
  ASSUME TypeOK, NEW r \in Requests, NEW id \in MsgIds,
         \/ \E at : RequestFails(r, id, at)
         \/ DispatchFails(r, id)
         \/ dispatchRequest(r, id)
  PROVE  /\ req[r] = Unused
         /\ req' \in [Requests -> RequestStates]
         /\ req'[r] # Unused
         /\ \A s \in Requests : s # r => req'[s] = req[s]
  <1>1. req \in [Requests -> RequestStates] /\ client.next \in Nat /\ client.gen \in Nat
    BY DEF TypeOK
  <1>2. req[r] = Unused
    BY DEF RequestFails, DispatchFails, dispatchRequest, Calls
  <1>3. CASE req' = [req EXCEPT ![r] = Done]
    <2>1. Done \in RequestStates
      BY DEF Done, Unused, RequestStates, Objects
    <2>2. Done # Unused
      BY DEF Done, Unused
    <2>3. QED
      BY <1>1, <1>2, <1>3, <2>1, <2>2
  <1>4. CASE NewRequest(r, id)
    <2> DEFINE double == \E s \in Range(queue) : req[s].id = id /\ req[s].token = client.next
               y == [id |-> id, token |-> client.next, gen |-> client.gen, node |-> "live",
                     header |-> "live", twin |-> double]
    <2>1. req' = [req EXCEPT ![r] = y]
      BY <1>4 DEF NewRequest
    <2>2. double \in BOOLEAN
      OBVIOUS
    <2> HIDE DEF double
    <2>3. y \in RequestStates
      BY <1>1, <2>2 DEF RequestStates, Objects
    <2>4. y # Unused
      BY DEF Unused
    <2> HIDE DEF y
    <2>5. QED
      BY <1>1, <1>2, <2>1, <2>3, <2>4
  <1>5. QED
    BY <1>3, <1>4 DEF RequestFails, DispatchFails, dispatchRequest

-----------------------------------------------------------------------------
(* The invariants are kept *)

\* The null pointer is not the address of a request.
LEMMA NullIsNoRequest == NULL \notin Requests
  <1>1. Requests \subseteq Nat
    BY DEF Requests
  <1>2. QED
    BY <1>1, SapAssumption

\* A call takes a token of its client, and leaves it otherwise alone.
LEMMA CallClient ==
  ASSUME TypeOK, NEW r, NEW id, Calls(r, id)
  PROVE  /\ client' \in [gen : Nat, alive : BOOLEAN, set : BOOLEAN, next : Nat]
         /\ client'.gen = client.gen /\ client'.alive = client.alive /\ client'.set = client.set
  <1>1. client' = [client EXCEPT !.next = client.next + 1]
    BY DEF Calls
  <1>2. client \in [gen : Nat, alive : BOOLEAN, set : BOOLEAN, next : Nat]
    BY DEF TypeOK
  <1>3. QED
    BY <1>1, <1>2

\* The types are kept.
LEMMA TypeStep ==
  ASSUME TypeOK, OwnerInv, Step
  PROVE  TypeOK'
  <1>1. CASE ClientStart
    <2>1. client' \in [gen : Nat, alive : BOOLEAN, set : BOOLEAN, next : Nat]
      <3>1. client.gen \in Nat
        BY DEF TypeOK
      <3>2. client.gen + 1 \in Nat
        BY <3>1
      <3>3. QED
        BY <1>1, <3>2 DEF ClientStart
    <2>2. QED
      BY <1>1, <2>1 DEF TypeOK, ClientStart
  <1>2. CASE ClientDie
    BY <1>2 DEF TypeOK, ClientDie
  <1>3. CASE setCallback
    BY <1>3 DEF TypeOK, setCallback
  <1>4. ASSUME NEW r \in Requests, NEW id \in MsgIds, NEW at, RequestFails(r, id, at)
        PROVE  TypeOK'
    BY <1>4, RequestFailsMoves, CallRequests, CallClient DEF Moves, TypeOK, RequestFails
  <1>5. ASSUME NEW r \in Requests, NEW id \in MsgIds, DispatchFails(r, id)
        PROVE  TypeOK'
    BY <1>5, DispatchMoves, CallRequests, CallClient DEF Moves, TypeOK, DispatchFails
  <1>6. ASSUME NEW r \in Requests, NEW id \in MsgIds, dispatchRequest(r, id)
        PROVE  TypeOK'
    <2>1. queue' \in Seq(Requests)
      BY <1>6, ConsProperties DEF TypeOK, dispatchRequest
    <2>2. held' \in SUBSET Requests
      BY <1>6 DEF TypeOK, dispatchRequest
    <2>3. QED
      BY <1>6, <2>1, <2>2, DispatchMoves, CallRequests, CallClient DEF Moves, TypeOK, dispatchRequest
  <1>7. ASSUME NEW t \in Threads, Deliver(t)
        PROVE  TypeOK'
    <2>1. thread' \in [Threads -> ThreadStates]
      BY <1>7, DeliverMoves DEF Moves, TypeOK
    <2>2. answered' \in [Requests -> Nat]
      <3>1. CASE UNCHANGED answered
        BY <3>1 DEF TypeOK
      <3>2. CASE \E rs \in Answers(t) :
                   answered' = [r \in Requests |->
                                  IF r \in rs /\ answered[r] < 2 THEN answered[r] + 1
                                                                 ELSE answered[r]]
        <4>1. answered \in [Requests -> Nat]
          BY DEF TypeOK
        <4>2. QED
          BY <3>2, <4>1
      <3>3. QED
        BY <1>7, <3>1, <3>2, DeliverMoves
    <2>3. QED
      BY <1>7, <2>1, <2>2 DEF TypeOK, Deliver
  <1>8. ASSUME NEW t \in Threads, Return(t)
        PROVE  TypeOK'
    BY <1>8, FinishedMoves DEF Moves, TypeOK, Return
  <1>9. ASSUME NEW t \in Threads, Reset(t)
        PROVE  TypeOK'
    BY <1>9, FinishedMoves DEF Moves, TypeOK, Reset
  <1>10. ASSUME NEW v \in Vendors, CheckCallback(v)
         PROVE  TypeOK'
    BY <1>10, CheckMoves DEF Moves, TypeOK, CheckCallback
  <1>11. ASSUME NEW v \in Vendors, checkAndDequeue(v)
         PROVE  TypeOK'
    BY <1>11, DequeueMoves, DequeueRequests DEF Moves, TypeOK, checkAndDequeue
  <1>12. ASSUME NEW v \in Vendors, NEW r \in held, NEW code \in SimCodes \cup {"none"},
                onRequestComplete(v, r, code)
         PROVE  TypeOK'
    BY <1>12, CompleteMoves DEF Moves, TypeOK, onRequestComplete
  <1>13. ASSUME NEW v \in Vendors, NEW id \in {"DISCONNECT", "STATUS", "ERROR_RESP"},
                NEW code \in {"none", "SUCCESS"}, onUnsolicitedResponse(v, id, code)
         PROVE  TypeOK'
    BY <1>13, IndicationMoves DEF Moves, TypeOK, onUnsolicitedResponse
  <1>14. QED
    BY <1>1, <1>2, <1>3, <1>4, <1>5, <1>6, <1>7, <1>8, <1>9, <1>10, <1>11, <1>12, <1>13
       DEF Step, ClientStep, Proceed, Completes, Indicates

\* Until a client dies its object stays.
LEMMA CallbackStep ==
  ASSUME TypeOK, OwnerInv, CallbackInv, fault = "none", Step
  PROVE  CallbackInv'
  <1> USE DEF CallbackInv, FirstClient
  <1>1. CASE ClientStart
    <2>1. client'.gen = client.gen + 1 /\ client.gen \in Nat /\ ~client'.set
      BY <1>1 DEF TypeOK, ClientStart
    <2>2. FirstClient' => client.gen = 0
      BY <2>1
    <2>3. QED
      BY <1>1, <2>2 DEF ClientStart
  <1>2. CASE ClientDie
    BY <1>2 DEF ClientDie
  <1>3. CASE setCallback
    BY <1>3, SapAssumption DEF setCallback
  <1>4. ASSUME NEW r \in Requests, NEW id \in MsgIds, NEW at, RequestFails(r, id, at)
        PROVE  CallbackInv'
    <2>1. PICK x : Moves(Binder, x) /\ x.pc = "fail"
      BY <1>4, RequestFailsMoves
    <2>2. client.set /\ UNCHANGED <<callback, fault>>
      BY <1>4 DEF RequestFails, Calls
    <2>3. QED
      BY <1>4, <2>1, <2>2, CallClient DEF RequestFails, Moves
  <1>5. ASSUME NEW r \in Requests, NEW id \in MsgIds, DispatchFails(r, id)
        PROVE  CallbackInv'
    <2>1. PICK x : Moves(Binder, x) /\ x.pc = "idle"
      BY <1>5, DispatchMoves
    <2>2. QED
      BY <1>5, <2>1, CallClient DEF DispatchFails, Moves
  <1>6. ASSUME NEW r \in Requests, NEW id \in MsgIds, dispatchRequest(r, id)
        PROVE  CallbackInv'
    <2>1. PICK x : Moves(Binder, x) /\ x.pc = "idle"
      BY <1>6, DispatchMoves
    <2>2. QED
      BY <1>6, <2>1, CallClient DEF dispatchRequest, Moves
  <1>7. ASSUME NEW t \in Threads, Deliver(t)
        PROVE  CallbackInv'
    <2>1. FirstClient => callback = client.gen /\ callback # NULL /\ client.alive
      BY <1>7 DEF Deliver, At
    <2>2. CASE FirstClient
      <3>1. PICK x : Moves(t, x) /\ x.pc = "told" /\ UNCHANGED fault
        BY <1>7, <2>1, <2>2, DeliverMoves
      <3>2. QED
        BY <1>7, <3>1 DEF Deliver, Moves
    <2>3. CASE ~FirstClient
      BY <1>7, <2>3 DEF Deliver
    <2>4. QED
      BY <2>2, <2>3
  <1>8. ASSUME NEW t \in Threads, Return(t)
        PROVE  CallbackInv'
    <2>1. PICK x : Moves(t, x) /\ x.pc \in {"idle", "dequeue"}
      BY <1>8, FinishedMoves DEF Return
    <2>2. QED
      BY <1>8, <2>1 DEF Return, Moves
  <1>9. ASSUME NEW t \in Threads, Reset(t)
        PROVE  CallbackInv'
    BY <1>9 DEF Reset, At
  <1>10. ASSUME NEW v \in Vendors, CheckCallback(v)
         PROVE  CallbackInv'
    <2>1. PICK x : Moves(v, x) /\ (x.pc = "dequeue" \/ (callback # NULL /\ x.pc \in {"fail", "call"}))
      BY <1>10, CheckMoves
    <2>2. QED
      BY <1>10, <2>1 DEF CheckCallback, Moves
  <1>11. ASSUME NEW v \in Vendors, checkAndDequeue(v)
         PROVE  CallbackInv'
    <2>1. Moves(v, Idle) /\ Idle.pc = "idle"
      BY <1>11, DequeueMoves
    <2>2. QED
      BY <1>11, <2>1 DEF checkAndDequeue, Moves
  <1>12. ASSUME NEW v \in Vendors, NEW r \in held, NEW code \in SimCodes \cup {"none"},
                onRequestComplete(v, r, code)
         PROVE  CallbackInv'
    <2>1. CASE req[r].node = "freed"
      BY <1>12, <2>1 DEF onRequestComplete
    <2>2. CASE req[r].node # "freed"
      <3>1. PICK x : Moves(v, x) /\ x.pc \in {"dequeue", "check"}
        BY <1>12, <2>2, CompleteMoves
      <3>2. QED
        BY <1>12, <3>1 DEF onRequestComplete, Moves
    <2>3. QED
      BY <2>1, <2>2
  <1>13. ASSUME NEW v \in Vendors, NEW id \in {"DISCONNECT", "STATUS", "ERROR_RESP"},
                NEW code \in {"none", "SUCCESS"}, onUnsolicitedResponse(v, id, code)
         PROVE  CallbackInv'
    <2>1. PICK x : Moves(v, x) /\ x.pc = "check"
      BY <1>13, IndicationMoves
    <2>2. QED
      BY <1>13, <2>1 DEF onUnsolicitedResponse, Moves
  <1>14. QED
    BY <1>1, <1>2, <1>3, <1>4, <1>5, <1>6, <1>7, <1>8, <1>9, <1>10, <1>11, <1>12, <1>13
       DEF Step, ClientStep, Proceed, Completes, Indicates

\* A request is with the vendor or with one thread.
LEMMA OwnerStep ==
  ASSUME TypeOK, OwnerInv, Step
  PROVE  OwnerInv'
  <1> USE DEF OwnerInv
  <1>1. CASE ClientStart
    BY <1>1 DEF UnusedInv, HeldInv, WorkInv, BinderInv, ClientStart
  <1>2. CASE ClientDie
    BY <1>2 DEF UnusedInv, HeldInv, WorkInv, BinderInv, ClientDie
  <1>3. CASE setCallback
    BY <1>3 DEF UnusedInv, HeldInv, WorkInv, BinderInv, setCallback
  <1>4. ASSUME NEW r \in Requests, NEW id \in MsgIds, NEW at, RequestFails(r, id, at)
        PROVE  OwnerInv'
    <2>1. PICK x : Moves(Binder, x) /\ x.pc = "fail" /\ x.r = r /\ x.id = id
      BY <1>4, RequestFailsMoves
    <2>2. /\ req[r] = Unused /\ req'[r] # Unused
          /\ \A s \in Requests : s # r => req'[s] = req[s]
      BY <1>4, CallRequests
    <2>3. r \notin held /\ \A t \in Threads : thread[t].r # r
      BY <2>2, NullIsNoRequest DEF UnusedInv, WorkInv
    <2>4. UNCHANGED <<held, answered>>
      BY <1>4 DEF RequestFails
    <2>5. ASSUME NEW t \in Threads, thread[t].r # NULL
          PROVE  thread[t].r \in Requests /\ req'[thread[t].r] # Unused /\ thread[t].r \notin held'
      <3>1. thread[t].r \in Requests
        BY <2>5 DEF TypeOK, ThreadStates
      <3>2. QED
        BY <2>2, <2>4, <2>5, <3>1 DEF WorkInv
    <2>6. UnusedInv'
      BY <2>2, <2>4 DEF UnusedInv
    <2>7. HeldInv'
      BY <2>2, <2>3, <2>4 DEF HeldInv, TypeOK
    <2>8. WorkInv'
      BY <2>1, <2>2, <2>3, <2>4, <2>5 DEF WorkInv, Moves
    <2>9. BinderInv'
      BY <2>1 DEF BinderInv, Moves
    <2>10. QED
      BY <2>6, <2>7, <2>8, <2>9
  <1>5. ASSUME NEW r \in Requests, NEW id \in MsgIds, DispatchFails(r, id)
        PROVE  OwnerInv'
    <2>1. PICK x : Moves(Binder, x) /\ x.pc = "idle" /\ x.r = NULL
      BY <1>5, DispatchMoves
    <2>2. /\ req[r] = Unused /\ req'[r] # Unused
          /\ \A s \in Requests : s # r => req'[s] = req[s]
      BY <1>5, CallRequests
    <2>3. r \notin held /\ \A t \in Threads : thread[t].r # r
      BY <2>2, NullIsNoRequest DEF UnusedInv, WorkInv
    <2>4. UNCHANGED <<held, answered>>
      BY <1>5 DEF DispatchFails
    <2>5. ASSUME NEW t \in Threads, thread[t].r # NULL
          PROVE  thread[t].r \in Requests /\ req'[thread[t].r] # Unused /\ thread[t].r \notin held'
      <3>1. thread[t].r \in Requests
        BY <2>5 DEF TypeOK, ThreadStates
      <3>2. QED
        BY <2>2, <2>4, <2>5, <3>1 DEF WorkInv
    <2>6. UnusedInv'
      BY <2>2, <2>4 DEF UnusedInv
    <2>7. HeldInv'
      BY <2>2, <2>3, <2>4 DEF HeldInv, TypeOK
    <2>8. WorkInv'
      BY <2>1, <2>5 DEF WorkInv, Moves
    <2>9. BinderInv'
      BY <2>1 DEF BinderInv, Moves
    <2>10. QED
      BY <2>6, <2>7, <2>8, <2>9
  <1>6. ASSUME NEW r \in Requests, NEW id \in MsgIds, dispatchRequest(r, id)
        PROVE  OwnerInv'
    <2>1. PICK x : Moves(Binder, x) /\ x.pc = "idle" /\ x.r = NULL
      BY <1>6, DispatchMoves
    <2>2. /\ req[r] = Unused /\ req'[r] # Unused
          /\ \A s \in Requests : s # r => req'[s] = req[s]
      BY <1>6, CallRequests
    <2>3. UNCHANGED answered /\ held' \subseteq held \cup {r} /\ req'[r].id \in MsgIds
      BY <1>6 DEF dispatchRequest, NewRequest, TypeOK
    <2>4. ASSUME NEW t \in Threads, thread[t].r # NULL
          PROVE  thread[t].r \in Requests /\ req'[thread[t].r] # Unused /\ thread[t].r \notin held'
      <3>1. thread[t].r \in Requests
        BY <2>4 DEF TypeOK, ThreadStates
      <3>2. QED
        BY <2>2, <2>3, <2>4, <3>1 DEF WorkInv
    <2>5. UnusedInv'
      BY <2>2, <2>3 DEF UnusedInv
    <2>6. HeldInv'
      BY <2>2, <2>3 DEF HeldInv, TypeOK
    <2>7. WorkInv'
      BY <2>1, <2>4 DEF WorkInv, Moves
    <2>8. BinderInv'
      BY <2>1 DEF BinderInv, Moves
    <2>9. QED
      BY <2>5, <2>6, <2>7, <2>8
  <1>7. ASSUME NEW t \in Threads, Deliver(t)
        PROVE  OwnerInv'
    <2>1. UNCHANGED <<req, held>> /\ thread[t].pc \in {"fail", "call"}
      BY <1>7 DEF Deliver, At
    <2>2. CASE UNCHANGED <<answered, thread>>
      BY <2>1, <2>2 DEF UnusedInv, HeldInv, WorkInv, BinderInv
    <2>3. CASE ~UNCHANGED <<answered, thread>>
      <3>1. PICK x : Moves(t, x) /\ x.r = thread[t].r /\ x.pc \in {"reset", "told"}
        BY <1>7, <2>3, DeliverMoves
      <3>2. \A r \in Requests : req[r] = Unused => answered'[r] = 0
        <4>1. CASE UNCHANGED answered
          BY <4>1 DEF UnusedInv
        <4>2. CASE \E rs \in Answers(t) :
                     answered' = [r \in Requests |->
                                    IF r \in rs /\ answered[r] < 2 THEN answered[r] + 1
                                                                   ELSE answered[r]]
          <5>1. \A rs \in Answers(t) : \A r \in rs : req[r] # Unused
            BY DEF Answers, WorkInv, Unused
          <5>2. QED
            BY <4>2, <5>1 DEF UnusedInv
        <4>3. QED
          BY <1>7, <4>1, <4>2, DeliverMoves
      <3>3. UnusedInv'
        BY <2>1, <3>2 DEF UnusedInv
      <3>4. HeldInv'
        BY <2>1 DEF HeldInv
      <3>5. WorkInv'
        BY <2>1, <3>1 DEF WorkInv, Moves
      <3>6. BinderInv'
        BY <3>1 DEF BinderInv, Moves, Threads
      <3>7. QED
        BY <3>3, <3>4, <3>5, <3>6
    <2>4. QED
      BY <2>2, <2>3
  <1>8. ASSUME NEW t \in Threads, Return(t)
        PROVE  OwnerInv'
    <2>1. PICK x : /\ Moves(t, x)
                   /\ \/ t = Binder /\ x.r = NULL /\ x.pc = "idle"
                      \/ t # Binder /\ x.r = thread[t].r /\ x.pc = "dequeue"
      BY <1>8, FinishedMoves DEF Return
    <2>2. UNCHANGED <<req, held, answered>>
      BY <1>8 DEF Return
    <2>3. QED
      BY <2>1, <2>2 DEF UnusedInv, HeldInv, WorkInv, BinderInv, Moves, Threads
  <1>9. ASSUME NEW t \in Threads, Reset(t)
        PROVE  OwnerInv'
    <2>1. PICK x : /\ Moves(t, x)
                   /\ \/ t = Binder /\ x.r = NULL /\ x.pc = "idle"
                      \/ t # Binder /\ x.r = thread[t].r /\ x.pc = "dequeue"
      BY <1>9, FinishedMoves DEF Reset
    <2>2. UNCHANGED <<req, held, answered>>
      BY <1>9 DEF Reset
    <2>3. QED
      BY <2>1, <2>2 DEF UnusedInv, HeldInv, WorkInv, BinderInv, Moves, Threads
  <1>10. ASSUME NEW v \in Vendors, CheckCallback(v)
         PROVE  OwnerInv'
    <2>1. PICK x : /\ Moves(v, x) /\ x.r = thread[v].r
                   /\ x.pc = "dequeue" \/ (x.pc \in {"fail", "call"} /\ x.id = thread[v].id)
      BY <1>10, CheckMoves
    <2>2. UNCHANGED <<req, held, answered>> /\ thread[v].pc = "check"
      BY <1>10 DEF CheckCallback, At
    <2>3. QED
      BY <2>1, <2>2 DEF UnusedInv, HeldInv, WorkInv, BinderInv, Moves, Threads
  <1>11. ASSUME NEW v \in Vendors, checkAndDequeue(v)
         PROVE  OwnerInv'
    <2>1. Moves(v, Idle) /\ Idle.r = NULL
      BY <1>11, DequeueMoves
    <2>2. \A r \in Requests :
            /\ req[r] # Unused => req'[r] # Unused
            /\ req'[r].id = req[r].id \/ r = thread[v].r
      BY <1>11, DequeueRequests
    <2>3. UNCHANGED <<held, answered>>
      BY <1>11 DEF checkAndDequeue
    <2>4. UnusedInv'
      BY <2>2, <2>3 DEF UnusedInv
    <2>5. HeldInv'
      <3>1. held \subseteq Requests /\ NULL \notin Requests
        BY NullIsNoRequest DEF TypeOK
      <3>2. \A r \in held : r # thread[v].r
        BY <3>1 DEF WorkInv, Threads
      <3>3. QED
        BY <2>2, <2>3, <3>1, <3>2 DEF HeldInv
    <2>6. WorkInv'
      <3>1. ASSUME NEW t \in Threads, thread[t].r # NULL
            PROVE  req'[thread[t].r] # Unused
        <4>1. thread[t].r \in Requests
          BY <3>1 DEF TypeOK, ThreadStates
        <4>2. QED
          BY <2>2, <3>1, <4>1 DEF WorkInv
      <3>2. QED
        BY <2>1, <2>3, <3>1 DEF WorkInv, Moves
    <2>7. BinderInv'
      BY <2>1, ThreadAssumption DEF BinderInv, Moves, Threads
    <2>8. QED
      BY <2>4, <2>5, <2>6, <2>7
  <1>12. ASSUME NEW v \in Vendors, NEW r \in held, NEW code \in SimCodes \cup {"none"},
                onRequestComplete(v, r, code)
         PROVE  OwnerInv'
    <2>1. UNCHANGED <<req, answered>> /\ held' = held \ {r} /\ r \in Requests
      BY <1>12 DEF onRequestComplete, TypeOK
    <2>2. CASE req[r].node = "freed"
      BY <1>12, <2>2 DEF onRequestComplete, UnusedInv, HeldInv, WorkInv, BinderInv
    <2>3. CASE req[r].node # "freed"
      <3>1. PICK x : /\ Moves(v, x) /\ x.r = r
                     /\ x.pc = "dequeue" \/ (x.pc = "check" /\ x.id = req[r].id)
        BY <1>12, <2>3, CompleteMoves
      <3>2. QED
        BY <2>1, <3>1, ThreadAssumption DEF UnusedInv, HeldInv, WorkInv, BinderInv, Moves, Threads
    <2>4. QED
      BY <2>2, <2>3
  <1>13. ASSUME NEW v \in Vendors, NEW id \in {"DISCONNECT", "STATUS", "ERROR_RESP"},
                NEW code \in {"none", "SUCCESS"}, onUnsolicitedResponse(v, id, code)
         PROVE  OwnerInv'
    <2>1. PICK x : Moves(v, x) /\ x.r = NULL
      BY <1>13, IndicationMoves
    <2>2. UNCHANGED <<req, held, answered>>
      BY <1>13 DEF onUnsolicitedResponse
    <2>3. QED
      BY <2>1, <2>2, ThreadAssumption DEF UnusedInv, HeldInv, WorkInv, BinderInv, Moves, Threads
  <1>14. QED
    BY <1>1, <1>2, <1>3, <1>4, <1>5, <1>6, <1>7, <1>8, <1>9, <1>10, <1>11, <1>12, <1>13
       DEF Step, ClientStep, Proceed, Completes, Indicates

\* A request that was answered is not answered again.
LEMMA AnswerStep ==
  ASSUME TypeOK, OwnerInv, AnswerInv, Step
  PROVE  AnswerInv'
  <1>1. CASE ClientStart
    BY <1>1 DEF AnswerInv, ClientStart
  <1>2. CASE ClientDie
    BY <1>2 DEF AnswerInv, ClientDie
  <1>3. CASE setCallback
    BY <1>3 DEF AnswerInv, setCallback
  <1>4. ASSUME NEW r \in Requests, NEW id \in MsgIds, NEW at, RequestFails(r, id, at)
        PROVE  AnswerInv'
    <2>1. PICK x : Moves(Binder, x) /\ x.r = r
      BY <1>4, RequestFailsMoves
    <2>2. req'[r].id = "none" /\ \A s \in Requests : s # r => req'[s] = req[s]
      BY <1>4, CallRequests DEF RequestFails, Done, Unused
    <2>3. UNCHANGED <<held, answered>>
      BY <1>4 DEF RequestFails
    <2>4. QED
      BY <2>1, <2>2, <2>3 DEF AnswerInv, Moves, MsgIds
  <1>5. ASSUME NEW r \in Requests, NEW id \in MsgIds, DispatchFails(r, id)
        PROVE  AnswerInv'
    <2>1. PICK x : Moves(Binder, x) /\ x.pc = "idle"
      BY <1>5, DispatchMoves
    <2>2. req'[r].id = "none" /\ \A s \in Requests : s # r => req'[s] = req[s]
      BY <1>5, CallRequests DEF DispatchFails, Done, Unused
    <2>3. UNCHANGED <<held, answered>>
      BY <1>5 DEF DispatchFails
    <2>4. QED
      BY <2>1, <2>2, <2>3 DEF AnswerInv, Moves, MsgIds
  <1>6. ASSUME NEW r \in Requests, NEW id \in MsgIds, dispatchRequest(r, id)
        PROVE  AnswerInv'
    <2>1. PICK x : Moves(Binder, x) /\ x.pc = "idle"
      BY <1>6, DispatchMoves
    <2>2. answered[r] = 0 /\ \A s \in Requests : s # r => req'[s] = req[s]
      BY <1>6, CallRequests DEF OwnerInv, UnusedInv
    <2>3. UNCHANGED answered /\ held' \subseteq held \cup {r}
      BY <1>6 DEF dispatchRequest
    <2>4. QED
      BY <2>1, <2>2, <2>3 DEF AnswerInv, Moves
  <1>7. ASSUME NEW t \in Threads, Deliver(t)
        PROVE  AnswerInv'
    <2>1. UNCHANGED <<req, held>> /\ thread[t].pc \in {"fail", "call"}
      BY <1>7 DEF Deliver, At
    <2>2. CASE UNCHANGED <<answered, thread>>
      BY <2>1, <2>2 DEF AnswerInv
    <2>3. CASE ~UNCHANGED <<answered, thread>>
      <3>1. PICK x : Moves(t, x) /\ x.r = thread[t].r /\ x.pc \in {"reset", "told"}
        BY <1>7, <2>3, DeliverMoves
      <3>2. ASSUME NEW r \in Requests, r # thread[t].r, req[r].id # "DISCONNECT"
            PROVE  answered'[r] = answered[r]
        <4>1. \A rs \in Answers(t) : r \notin rs
          BY <3>2 DEF Answers
        <4>2. QED
          BY <1>7, <4>1, DeliverMoves
      <3>3. ASSUME NEW r \in Requests, r = thread[t].r, req[r].id \in MsgIds \ {"DISCONNECT"}
            PROVE  /\ answered[r] = 0 /\ answered'[r] \in {0, 1} /\ r \notin held
                   /\ \A s \in Threads : s # t => thread[s].r # r
        <4>1. answered[r] = 0
          BY <2>1, <3>3 DEF AnswerInv
        <4>2. r # NULL
          BY NullIsNoRequest
        <4>3. r \notin held /\ \A s \in Threads : s # t => thread[s].r # r
          BY <3>3, <4>2 DEF OwnerInv, WorkInv
        <4>4. answered'[r] \in {0, 1}
          <5>1. CASE UNCHANGED answered
            BY <4>1, <5>1
          <5>2. CASE \E rs \in Answers(t) :
                       answered' = [q \in Requests |->
                                      IF q \in rs /\ answered[q] < 2 THEN answered[q] + 1
                                                                     ELSE answered[q]]
            BY <4>1, <5>2
          <5>3. QED
            BY <1>7, <5>1, <5>2, DeliverMoves
        <4>5. QED
          BY <4>1, <4>3, <4>4
      <3>4. QED
        BY <2>1, <3>1, <3>2, <3>3 DEF AnswerInv, Moves
    <2>4. QED
      BY <2>2, <2>3
  <1>8. ASSUME NEW t \in Threads, Return(t)
        PROVE  AnswerInv'
    <2>1. PICK x : /\ Moves(t, x)
                   /\ x.pc \in {"idle", "dequeue"}
      BY <1>8, FinishedMoves DEF Return
    <2>2. UNCHANGED <<req, held, answered>>
      BY <1>8 DEF Return
    <2>3. QED
      BY <2>1, <2>2 DEF AnswerInv, Moves
  <1>9. ASSUME NEW t \in Threads, Reset(t)
        PROVE  AnswerInv'
    <2>1. PICK x : /\ Moves(t, x)
                   /\ x.pc \in {"idle", "dequeue"}
      BY <1>9, FinishedMoves DEF Reset
    <2>2. UNCHANGED <<req, held, answered>>
      BY <1>9 DEF Reset
    <2>3. QED
      BY <2>1, <2>2 DEF AnswerInv, Moves
  <1>10. ASSUME NEW v \in Vendors, CheckCallback(v)
         PROVE  AnswerInv'
    <2>1. PICK x : Moves(v, x) /\ x.r = thread[v].r
      BY <1>10, CheckMoves
    <2>2. UNCHANGED <<req, held, answered>> /\ thread[v].pc = "check"
      BY <1>10 DEF CheckCallback, At
    <2>3. QED
      BY <2>1, <2>2 DEF AnswerInv, Moves
  <1>11. ASSUME NEW v \in Vendors, checkAndDequeue(v)
         PROVE  AnswerInv'
    <2>1. Moves(v, Idle) /\ Idle.pc = "idle"
      BY <1>11, DequeueMoves
    <2>2. \A r \in Requests : req'[r].id = req[r].id \/ req'[r].id = "none"
      BY <1>11, DequeueRequests
    <2>3. UNCHANGED <<held, answered>>
      BY <1>11 DEF checkAndDequeue
    <2>4. QED
      BY <2>1, <2>2, <2>3 DEF AnswerInv, Moves, MsgIds
  <1>12. ASSUME NEW v \in Vendors, NEW r \in held, NEW code \in SimCodes \cup {"none"},
                onRequestComplete(v, r, code)
         PROVE  AnswerInv'
    <2>1. UNCHANGED <<req, answered>> /\ held' = held \ {r}
      BY <1>12 DEF onRequestComplete
    <2>2. CASE req[r].node = "freed"
      BY <1>12, <2>2 DEF onRequestComplete, AnswerInv
    <2>3. CASE req[r].node # "freed"
      <3>1. PICK x : Moves(v, x) /\ x.r = r
        BY <1>12, <2>3, CompleteMoves
      <3>2. QED
        BY <2>1, <3>1 DEF AnswerInv, Moves
    <2>4. QED
      BY <2>2, <2>3
  <1>13. ASSUME NEW v \in Vendors, NEW id \in {"DISCONNECT", "STATUS", "ERROR_RESP"},
                NEW code \in {"none", "SUCCESS"}, onUnsolicitedResponse(v, id, code)
         PROVE  AnswerInv'
    <2>1. PICK x : Moves(v, x) /\ x.r = NULL
      BY <1>13, IndicationMoves
    <2>2. UNCHANGED <<req, held, answered>> /\ NULL \notin Requests
      BY <1>13, NullIsNoRequest DEF onUnsolicitedResponse
    <2>3. QED
      BY <2>1, <2>2 DEF AnswerInv, Moves
  <1>14. QED
    BY <1>1, <1>2, <1>3, <1>4, <1>5, <1>6, <1>7, <1>8, <1>9, <1>10, <1>11, <1>12, <1>13
       DEF Step, ClientStep, Proceed, Completes, Indicates

\* What is told is what the message and the card say.
LEMMA ToldStep ==
  ASSUME TypeOK, OwnerInv, ToldInv, Step
  PROVE  ToldInv'
  <1>1. CASE ClientStart
    BY <1>1 DEF ToldInv, ClientStart
  <1>2. CASE ClientDie
    BY <1>2 DEF ToldInv, ClientDie
  <1>3. CASE setCallback
    BY <1>3 DEF ToldInv, setCallback
  <1>4. ASSUME NEW r \in Requests, NEW id \in MsgIds, NEW at, RequestFails(r, id, at)
        PROVE  ToldInv'
    <2>1. PICK x : Moves(Binder, x) /\ x.pc = "fail"
      BY <1>4, RequestFailsMoves
    <2>2. QED
      BY <2>1 DEF ToldInv, Moves
  <1>5. ASSUME NEW r \in Requests, NEW id \in MsgIds, DispatchFails(r, id)
        PROVE  ToldInv'
    <2>1. PICK x : Moves(Binder, x) /\ x.pc = "idle"
      BY <1>5, DispatchMoves
    <2>2. QED
      BY <2>1 DEF ToldInv, Moves
  <1>6. ASSUME NEW r \in Requests, NEW id \in MsgIds, dispatchRequest(r, id)
        PROVE  ToldInv'
    <2>1. PICK x : Moves(Binder, x) /\ x.pc = "idle"
      BY <1>6, DispatchMoves
    <2>2. QED
      BY <2>1 DEF ToldInv, Moves
  <1>7. ASSUME NEW t \in Threads, Deliver(t)
        PROVE  ToldInv'
    <2>1. thread[t].r # NULL => thread[t].id \in MsgIds /\ ~Silent(t)
      BY <1>7 DEF Deliver, At, OwnerInv, WorkInv, Silent
    <2>2. thread[t].r # NULL =>
            Told(t) \in {Failures[thread[t].id],
                         <<Responses[thread[t].id], Result(thread[t].id, thread[t].code)>>}
      BY DEF Told
    <2>3. CASE UNCHANGED thread
      BY <2>3 DEF ToldInv
    <2>4. CASE ~UNCHANGED thread
      <3>1. PICK x : /\ Moves(t, x) /\ x.r = thread[t].r
                     /\ \/ x.pc = "reset"
                        \/ x.pc = "told" /\ Silent(t)
                        \/ /\ x.pc = "told" /\ x.told = Told(t)
                           /\ x.id = thread[t].id /\ x.code = thread[t].code
        BY <1>7, <2>4, DeliverMoves
      <3>2. QED
        BY <2>1, <2>2, <3>1 DEF ToldInv, Moves
    <2>5. QED
      BY <2>3, <2>4
  <1>8. ASSUME NEW t \in Threads, Return(t)
        PROVE  ToldInv'
    <2>1. PICK x : Moves(t, x) /\ x.pc \in {"idle", "dequeue"}
      BY <1>8, FinishedMoves DEF Return
    <2>2. QED
      BY <2>1 DEF ToldInv, Moves
  <1>9. ASSUME NEW t \in Threads, Reset(t)
        PROVE  ToldInv'
    <2>1. PICK x : Moves(t, x) /\ x.pc \in {"idle", "dequeue"}
      BY <1>9, FinishedMoves DEF Reset
    <2>2. QED
      BY <2>1 DEF ToldInv, Moves
  <1>10. ASSUME NEW v \in Vendors, CheckCallback(v)
         PROVE  ToldInv'
    <2>1. PICK x : /\ Moves(v, x) /\ x.pc \in {"dequeue", "fail", "call"}
                   /\ x.pc = "call" => x.code \in SimCodes
      BY <1>10, CheckMoves
    <2>2. QED
      BY <2>1 DEF ToldInv, Moves
  <1>11. ASSUME NEW v \in Vendors, checkAndDequeue(v)
         PROVE  ToldInv'
    <2>1. Moves(v, Idle) /\ Idle.pc = "idle"
      BY <1>11, DequeueMoves
    <2>2. QED
      BY <2>1 DEF ToldInv, Moves
  <1>12. ASSUME NEW v \in Vendors, NEW r \in held, NEW code \in SimCodes \cup {"none"},
                onRequestComplete(v, r, code)
         PROVE  ToldInv'
    <2>1. CASE req[r].node = "freed"
      BY <1>12, <2>1 DEF onRequestComplete, ToldInv
    <2>2. CASE req[r].node # "freed"
      <3>1. PICK x : Moves(v, x) /\ x.pc \in {"dequeue", "check"}
        BY <1>12, <2>2, CompleteMoves
      <3>2. QED
        BY <3>1 DEF ToldInv, Moves
    <2>3. QED
      BY <2>1, <2>2
  <1>13. ASSUME NEW v \in Vendors, NEW id \in {"DISCONNECT", "STATUS", "ERROR_RESP"},
                NEW code \in {"none", "SUCCESS"}, onUnsolicitedResponse(v, id, code)
         PROVE  ToldInv'
    <2>1. PICK x : Moves(v, x) /\ x.pc = "check"
      BY <1>13, IndicationMoves
    <2>2. QED
      BY <2>1 DEF ToldInv, Moves
  <1>14. QED
    BY <1>1, <1>2, <1>3, <1>4, <1>5, <1>6, <1>7, <1>8, <1>9, <1>10, <1>11, <1>12, <1>13
       DEF Step, ClientStep, Proceed, Completes, Indicates

\* The queue holds requests.
LEMMA QueueRange ==
  ASSUME TypeOK
  PROVE  /\ queue \in Seq(Requests) /\ Len(queue) \in Nat /\ DOMAIN queue = 1 .. Len(queue)
         /\ Range(queue) \subseteq Requests
  <1>1. queue \in Seq(Requests)
    BY DEF TypeOK
  <1>2. QED
    BY <1>1 DEF Range

\* The queue and the requests in it are left alone.
LEMMA QueueFrame ==
  ASSUME TypeOK, QueueInv, UNCHANGED <<queue, held, setup>>,
         fault' \in {fault, "null callback"},
         \A v \in Vendors : thread'[v].r = thread[v].r,
         NoTwins' => NoTwins,
         NoTwins => \A s \in Range(queue) : req'[s] = req[s]
  PROVE  QueueInv'
  <1> SUFFICES ASSUME NoTwins'
               PROVE  (Intact /\ Distinct /\ Alive /\ Queued /\ Wanted)'
    BY DEF QueueInv
  <1>1. Intact /\ Distinct /\ Alive /\ Queued /\ Wanted
    BY DEF QueueInv
  <1>2. InWork' = InWork
    BY DEF InWork
  <1>3. Intact'
    BY <1>1 DEF Intact
  <1>4. Distinct'
    <2>1. \A i \in DOMAIN queue : req'[queue[i]] = req[queue[i]]
      BY DEF Range
    <2>2. ASSUME NEW i \in DOMAIN queue', NEW j \in DOMAIN queue', Same(queue[i], queue[j])'
          PROVE  i = j
      <3>1. i \in DOMAIN queue /\ j \in DOMAIN queue /\ Same(queue[i], queue[j])
        BY <2>1, <2>2 DEF Same
      <3>2. QED
        BY <1>1, <3>1 DEF Distinct
    <2>3. QED
      BY <2>2 DEF Distinct
  <1>5. Alive'
    BY <1>1 DEF Alive
  <1>6. Queued' /\ Wanted'
    BY <1>1, <1>2 DEF Queued, Wanted
  <1>7. QED
    BY <1>3, <1>4, <1>5, <1>6

\* A call that fails touches a request that is not in the queue.
LEMMA FailedQueue ==
  ASSUME TypeOK, QueueInv, NEW r \in Requests, NEW id \in MsgIds,
         (\E at : RequestFails(r, id, at)) \/ DispatchFails(r, id)
  PROVE  QueueInv'
  <1>1. /\ req[r] = Unused /\ req' = [req EXCEPT ![r] = Done]
        /\ UNCHANGED <<queue, held, setup, fault>>
    BY DEF RequestFails, DispatchFails, Calls
  <1>2. Unused.node = "none" /\ ~Unused.twin
    BY DEF Unused
  <1>3. NoTwins' => NoTwins
    BY <1>1, <1>2 DEF NoTwins
  <1>4. NoTwins => \A s \in Range(queue) : req'[s] = req[s]
    BY <1>1, <1>2 DEF QueueInv, Alive
  <1>5. \A v \in Vendors : thread'[v].r = thread[v].r
    <2>1. PICK x : Moves(Binder, x)
      BY RequestFailsMoves, DispatchMoves
    <2>2. QED
      BY <2>1, ThreadAssumption DEF Moves, Threads
  <1>6. QED
    BY <1>1, <1>3, <1>4, <1>5, QueueFrame

\* A request is put in front of the queue.
LEMMA DispatchedQueue ==
  ASSUME TypeOK, OwnerInv, QueueInv, NEW r \in Requests, NEW id \in MsgIds, dispatchRequest(r, id)
  PROVE  QueueInv'
  <1> DEFINE double == \E s \in Range(queue) : req[s].id = id /\ req[s].token = client.next
             y == [id |-> id, token |-> client.next, gen |-> client.gen, node |-> "live",
                   header |-> "live", twin |-> double]
  <1>1. /\ req[r] = Unused /\ req' = [req EXCEPT ![r] = y] /\ queue' = <<r>> \o queue
        /\ UNCHANGED <<setup, fault>> /\ setup # "no socket"
    BY DEF dispatchRequest, NewRequest, Calls
  <1>2. Unused.node = "none" /\ ~Unused.twin
    BY DEF Unused
  <1>3. req'[r] = y /\ \A s \in Requests : s # r => req'[s] = req[s]
    BY <1>1 DEF TypeOK
  <1>4. y.id = id /\ y.token = client.next /\ y.node = "live" /\ y.header = "live" /\ y.twin = double
    OBVIOUS
  <1> HIDE DEF y
  <1> SUFFICES ASSUME NoTwins'
               PROVE  (Intact /\ Distinct /\ Alive /\ Queued /\ Wanted)'
    BY DEF QueueInv
  <1>5. NoTwins /\ ~double
    BY <1>1, <1>2, <1>3, <1>4 DEF NoTwins
  <1>6. Intact /\ Distinct /\ Alive /\ Queued /\ Wanted
    BY <1>5 DEF QueueInv
  <1>7. queue \in Seq(Requests) /\ Range(queue) \subseteq Requests
    BY QueueRange
  <1>8. r \notin Range(queue) /\ \A s \in Range(queue) : req'[s] = req[s]
    BY <1>1, <1>2, <1>3, <1>6, <1>7 DEF Alive
  <1>9. /\ DOMAIN queue = 1 .. Len(queue) /\ Len(queue) \in Nat
        /\ DOMAIN queue' = 1 .. Len(queue) + 1 /\ queue'[1] = r
        /\ \A i \in DOMAIN queue' : i # 1 => i - 1 \in DOMAIN queue /\ queue'[i] = queue[i - 1]
    <2>1. /\ DOMAIN queue' = 1 .. Len(queue) + 1 /\ queue'[1] = r
          /\ \A i \in DOMAIN queue : queue'[i + 1] = queue[i]
      <3>1. /\ DOMAIN (<<r>> \o queue) = 1 .. Len(queue) + 1
            /\ (<<r>> \o queue)[1] = r
            /\ \A i \in DOMAIN queue : (<<r>> \o queue)[i + 1] = queue[i]
        BY <1>7
      <3>2. QED
        BY <1>1, <3>1, Zenon
    <2>2. QED
      BY <2>1
  <1>10. Range(queue') = Range(queue) \cup {r}
    <2>1. ASSUME NEW i \in DOMAIN queue
          PROVE  i + 1 \in DOMAIN queue' /\ queue'[i + 1] = queue[i]
      BY <1>9
    <2>2. QED
      BY <1>9, <2>1 DEF Range
  <1>11. InWork' = InWork
    <2>1. PICK x : Moves(Binder, x)
      BY DispatchMoves
    <2>2. \A v \in Vendors : thread'[v] = thread[v]
      BY <2>1, ThreadAssumption DEF Moves, Threads
    <2>3. QED
      BY <2>2 DEF InWork
  <1>12. Intact'
    BY <1>1, <1>6 DEF Intact
  <1>13. Distinct'
    <2>1. \A s \in Range(queue) : ~(req[s].id = id /\ req[s].token = client.next)
      BY <1>5
    <2> HIDE DEF double
    <2>2. ASSUME NEW i \in DOMAIN queue', NEW j \in DOMAIN queue', Same(queue[i], queue[j])'
          PROVE  i = j
      <3>1. req'[queue'[i]].id = req'[queue'[j]].id /\ req'[queue'[i]].token = req'[queue'[j]].token
        BY <2>2 DEF Same
      <3>2. CASE i = 1 /\ j # 1
        <4>1. queue'[j] \in Range(queue)
          BY <1>9, <3>2 DEF Range
        <4>2. QED
          BY <1>3, <1>4, <1>8, <1>9, <2>1, <3>1, <3>2, <4>1
      <3>3. CASE i # 1 /\ j = 1
        <4>1. queue'[i] \in Range(queue)
          BY <1>9, <3>3 DEF Range
        <4>2. QED
          BY <1>3, <1>4, <1>8, <1>9, <2>1, <3>1, <3>3, <4>1
      <3>4. CASE i # 1 /\ j # 1
        <4>1. /\ i - 1 \in DOMAIN queue /\ queue'[i] = queue[i - 1] /\ queue[i - 1] \in Range(queue)
              /\ j - 1 \in DOMAIN queue /\ queue'[j] = queue[j - 1] /\ queue[j - 1] \in Range(queue)
          BY <1>9, <3>4 DEF Range
        <4>2. Same(queue[i - 1], queue[j - 1])
          BY <1>8, <3>1, <4>1 DEF Same
        <4>3. i - 1 = j - 1
          BY <1>6, <4>1, <4>2 DEF Distinct
        <4>4. QED
          BY <1>9, <4>3
      <3>5. QED
        BY <3>2, <3>3, <3>4
    <2>3. QED
      BY <2>2 DEF Distinct
  <1>14. Alive'
    BY <1>3, <1>4, <1>6, <1>8, <1>10 DEF Alive
  <1>15. Queued'
    BY <1>6, <1>10, <1>11 DEF Queued, dispatchRequest
  <1>16. Wanted'
    <2>1. setup = "ready" => held' = held \cup {r}
      BY DEF dispatchRequest
    <2>2. setup # "ready" => held' = held /\ setup = "no functions"
      BY DEF dispatchRequest, TypeOK
    <2>3. QED
      BY <1>1, <1>6, <1>10, <1>11, <2>1, <2>2 DEF Wanted
  <1>17. QED
    BY <1>12, <1>13, <1>14, <1>15, <1>16

\* A completion takes a request from the vendor and works on it.
LEMMA CompletedQueue ==
  ASSUME TypeOK, OwnerInv, QueueInv, NEW v \in Vendors, NEW r \in held,
         NEW code \in SimCodes \cup {"none"}, onRequestComplete(v, r, code)
  PROVE  QueueInv'
  <1>1. UNCHANGED <<setup, req, queue>> /\ held' = held \ {r} /\ thread[v].pc = "idle"
    BY DEF onRequestComplete, At
  <1> SUFFICES ASSUME NoTwins
               PROVE  (Intact /\ Distinct /\ Alive /\ Queued /\ Wanted)'
    BY <1>1 DEF QueueInv, NoTwins
  <1>2. Intact /\ Distinct /\ Alive /\ Queued /\ Wanted
    BY DEF QueueInv
  <1>3. req[r].node # "freed"
    BY <1>2 DEF Queued, Alive
  <1>4. UNCHANGED fault
    BY <1>3 DEF onRequestComplete
  <1>5. PICK x : Moves(v, x) /\ x.r = r
    BY <1>3, CompleteMoves
  <1>6. InWork' = InWork \cup {r}
    <2>1. thread[v].r = NULL
      BY <1>1 DEF OwnerInv, WorkInv, Threads
    <2>2. r # NULL
      BY NullIsNoRequest DEF TypeOK
    <2>3. thread'[v].r = r /\ \A w \in Vendors : w # v => thread'[w].r = thread[w].r
      BY <1>5 DEF Moves, Threads
    <2>4. QED
      BY <2>1, <2>2, <2>3 DEF InWork
  <1>7. Intact'
    BY <1>2, <1>4 DEF Intact
  <1>8. Distinct' /\ Alive'
    BY <1>1, <1>2 DEF Distinct, Alive, Same
  <1>9. Queued' /\ Wanted'
    BY <1>1, <1>2, <1>6 DEF Queued, Wanted
  <1>10. QED
    BY <1>7, <1>8, <1>9

\* A completion ends: without twins the search finds the request itself, and
\* takes it out of the queue.
LEMMA DequeuedQueue ==
  ASSUME TypeOK, OwnerInv, QueueInv, NEW v \in Vendors, checkAndDequeue(v)
  PROVE  QueueInv'
  <1>1. UNCHANGED <<setup, held>>
    BY DEF checkAndDequeue
  <1>2. /\ thread'[v].r = NULL
        /\ \A w \in Vendors : w # v => thread'[w].r = thread[w].r
    BY DequeueMoves DEF Moves, Threads
  <1>3. NoTwins' => NoTwins
    BY DequeueRequests DEF NoTwins
  <1>4. CASE thread[v].r = NULL
    <2>1. UNCHANGED <<req, queue, fault>>
      BY <1>4 DEF checkAndDequeue
    <2>2. \A w \in Vendors : thread'[w].r = thread[w].r
      BY <1>2, <1>4
    <2>3. QED
      BY <1>1, <1>3, <2>1, <2>2, QueueFrame
  <1>5. CASE thread[v].r # NULL
    <2> SUFFICES ASSUME NoTwins
                 PROVE  (Intact /\ Distinct /\ Alive /\ Queued /\ Wanted)'
      BY <1>3 DEF QueueInv
    <2>1. Intact /\ Distinct /\ Alive /\ Queued /\ Wanted
      BY DEF QueueInv
    <2>2. PICK r \in Requests : r = thread[v].r
      BY <1>5 DEF TypeOK, ThreadStates, Threads
    <2>3. PICK k \in DOMAIN queue : queue[k] = r
      <3>1. r \in InWork
        BY <1>5, <2>2 DEF InWork
      <3>2. QED
        BY <2>1, <3>1 DEF Queued, Range
    <2>4. \A i \in DOMAIN queue : Same(queue[i], r) <=> i = k
      BY <2>1, <2>3 DEF Distinct, Same
    <2>5. Found(r) /\ Match(r) = k
      <3>1. Found(r)
        BY <2>4 DEF Found
      <3>2. QED
        BY <2>4, <3>1, MatchFound
    <2>6. ~ReadsFreed(r)
      <3>1. \A i \in DOMAIN queue : req[queue[i]].header # "freed"
        BY <2>1 DEF Alive, Range
      <3>2. QED
        BY <3>1 DEF ReadsFreed
    <2>7. req' = Freeing(r, r) /\ queue' = RemoveAt(queue, k) /\ UNCHANGED fault
      BY <1>5, <2>2, <2>3, <2>5, <2>6 DEF checkAndDequeue
    <2>8. \A s \in Requests : s # r => req'[s] = req[s]
      BY <2>7 DEF Freeing
    <2>9. /\ Len(queue) \in Nat /\ DOMAIN queue = 1 .. Len(queue)
          /\ Range(queue) \subseteq Requests
      BY QueueRange
    <2>10. /\ DOMAIN queue' = 1 .. Len(queue) - 1
           /\ \A i \in 1 .. Len(queue) - 1 : queue'[i] = IF i < k THEN queue[i] ELSE queue[i + 1]
      <3>1. /\ DOMAIN RemoveAt(queue, k) = 1 .. Len(queue) - 1
            /\ \A i \in 1 .. Len(queue) - 1 :
                 RemoveAt(queue, k)[i] = IF i < k THEN queue[i] ELSE queue[i + 1]
        BY QueueRange, RemoveAtProperties
      <3>2. QED
        BY <2>7, <3>1, Zenon
    <2> DEFINE old(i) == IF i < k THEN i ELSE i + 1
    <2>11. ASSUME NEW i \in DOMAIN queue'
           PROVE  old(i) \in DOMAIN queue /\ old(i) # k /\ queue'[i] = queue[old(i)]
      BY <2>10
    <2>12. ASSUME NEW i \in DOMAIN queue', NEW j \in DOMAIN queue', old(i) = old(j)
           PROVE  i = j
      BY <2>10, <2>12
    <2>13. ASSUME NEW m \in DOMAIN queue, m # k
           PROVE  \E i \in DOMAIN queue' : old(i) = m
      <3>1. CASE m < k
        BY <2>10, <3>1
      <3>2. CASE m > k
        <4>1. m - 1 \in DOMAIN queue' /\ old(m - 1) = m
          BY <2>10, <3>2
        <4>2. QED
          BY <4>1
      <3>3. QED
        BY <2>9, <2>13, <3>1, <3>2
    <2> HIDE DEF old
    <2>14. \A i \in DOMAIN queue : queue[i] = r => i = k
      BY <2>4 DEF Same
    <2>15. Range(queue') = Range(queue) \ {r}
      <3>1. Range(queue') \subseteq Range(queue) \ {r}
        BY <2>11, <2>14 DEF Range
      <3>2. Range(queue) \ {r} \subseteq Range(queue')
        BY <2>3, <2>11, <2>13 DEF Range
      <3>3. QED
        BY <3>1, <3>2
    <2>16. InWork' = InWork \ {r}
      <3>1. \A w \in Vendors : w # v => thread[w].r # r
        BY <1>5, <2>2 DEF OwnerInv, WorkInv, Threads
      <3>2. QED
        BY <1>2, <2>2, <3>1 DEF InWork
    <2>17. r \notin held
      BY <1>5, <2>2 DEF OwnerInv, WorkInv, Threads
    <2>18. Intact'
      BY <2>1, <2>7 DEF Intact
    <2>19. Distinct'
      <3>1. ASSUME NEW i \in DOMAIN queue', NEW j \in DOMAIN queue', Same(queue[i], queue[j])'
            PROVE  i = j
        <4>1. /\ old(i) \in DOMAIN queue /\ queue'[i] = queue[old(i)]
              /\ old(j) \in DOMAIN queue /\ queue'[j] = queue[old(j)]
              /\ queue[old(i)] # r /\ queue[old(j)] # r
          BY <2>11, <2>14
        <4>2. queue[old(i)] \in Requests /\ queue[old(j)] \in Requests
          BY <2>9, <4>1 DEF Range
        <4>3. Same(queue[old(i)], queue[old(j)])
          BY <2>8, <3>1, <4>1, <4>2 DEF Same
        <4>4. old(i) = old(j)
          BY <2>1, <4>1, <4>3 DEF Distinct
        <4>5. QED
          BY <2>12, <4>4
      <3>2. QED
        BY <3>1 DEF Distinct
    <2>20. Alive'
      BY <2>1, <2>8, <2>9, <2>15 DEF Alive
    <2>21. Queued' /\ Wanted'
      BY <1>1, <2>1, <2>15, <2>16, <2>17 DEF Queued, Wanted
    <2>22. QED
      BY <2>18, <2>19, <2>20, <2>21
  <1>6. QED
    BY <1>4, <1>5

\* Without twins a request is in the queue until it is completed.
LEMMA QueueStep ==
  ASSUME TypeOK, OwnerInv, QueueInv, fault = "none", Step
  PROVE  QueueInv'
  <1>1. CASE ClientStart
    BY <1>1, QueueFrame DEF ClientStart, NoTwins
  <1>2. CASE ClientDie
    BY <1>2, QueueFrame DEF ClientDie, NoTwins
  <1>3. CASE setCallback
    BY <1>3, QueueFrame DEF setCallback, NoTwins
  <1>4. ASSUME NEW r \in Requests, NEW id \in MsgIds, NEW at, RequestFails(r, id, at)
        PROVE  QueueInv'
    BY <1>4, FailedQueue
  <1>5. ASSUME NEW r \in Requests, NEW id \in MsgIds, DispatchFails(r, id)
        PROVE  QueueInv'
    BY <1>5, FailedQueue
  <1>6. ASSUME NEW r \in Requests, NEW id \in MsgIds, dispatchRequest(r, id)
        PROVE  QueueInv'
    BY <1>6, DispatchedQueue
  <1>7. ASSUME NEW t \in Threads, Deliver(t)
        PROVE  QueueInv'
    <2>1. UNCHANGED <<setup, req, queue, held>>
      BY <1>7 DEF Deliver
    <2>2. UNCHANGED thread \/ \E x : Moves(t, x) /\ x.r = thread[t].r
      BY <1>7, DeliverMoves
    <2>3. \A v \in Vendors : thread'[v].r = thread[v].r
      BY <2>2 DEF Moves, Threads
    <2>4. fault' \in {fault, "null callback"}
      BY <1>7 DEF Deliver
    <2>5. QED
      BY <2>1, <2>3, <2>4, QueueFrame DEF NoTwins
  <1>8. ASSUME NEW t \in Threads, Return(t)
        PROVE  QueueInv'
    <2>1. PICK x : Moves(t, x) /\ (t = Binder \/ x.r = thread[t].r)
      BY <1>8, FinishedMoves DEF Return
    <2>2. \A v \in Vendors : thread'[v].r = thread[v].r
      BY <2>1, ThreadAssumption DEF Moves, Threads
    <2>3. QED
      BY <1>8, <2>2, QueueFrame DEF Return, NoTwins
  <1>9. ASSUME NEW t \in Threads, Reset(t)
        PROVE  QueueInv'
    <2>1. PICK x : Moves(t, x) /\ (t = Binder \/ x.r = thread[t].r)
      BY <1>9, FinishedMoves DEF Reset
    <2>2. \A v \in Vendors : thread'[v].r = thread[v].r
      BY <2>1, ThreadAssumption DEF Moves, Threads
    <2>3. QED
      BY <1>9, <2>2, QueueFrame DEF Reset, NoTwins
  <1>10. ASSUME NEW v \in Vendors, CheckCallback(v)
         PROVE  QueueInv'
    <2>1. PICK x : Moves(v, x) /\ x.r = thread[v].r
      BY <1>10, CheckMoves
    <2>2. \A w \in Vendors : thread'[w].r = thread[w].r
      BY <2>1 DEF Moves, Threads
    <2>3. QED
      BY <1>10, <2>2, QueueFrame DEF CheckCallback, NoTwins
  <1>11. ASSUME NEW v \in Vendors, checkAndDequeue(v)
         PROVE  QueueInv'
    BY <1>11, DequeuedQueue
  <1>12. ASSUME NEW v \in Vendors, NEW r \in held, NEW code \in SimCodes \cup {"none"},
                onRequestComplete(v, r, code)
         PROVE  QueueInv'
    BY <1>12, CompletedQueue
  <1>13. ASSUME NEW v \in Vendors, NEW id \in {"DISCONNECT", "STATUS", "ERROR_RESP"},
                NEW code \in {"none", "SUCCESS"}, onUnsolicitedResponse(v, id, code)
         PROVE  QueueInv'
    <2>1. PICK x : Moves(v, x) /\ x.r = NULL
      BY <1>13, IndicationMoves
    <2>2. thread[v].r = NULL
      BY <1>13 DEF onUnsolicitedResponse, At, OwnerInv, WorkInv, Threads
    <2>3. \A w \in Vendors : thread'[w].r = thread[w].r
      BY <2>1, <2>2 DEF Moves, Threads
    <2>4. QED
      BY <1>13, <2>3, QueueFrame DEF onUnsolicitedResponse, NoTwins
  <1>14. QED
    BY <1>1, <1>2, <1>3, <1>4, <1>5, <1>6, <1>7, <1>8, <1>9, <1>10, <1>11, <1>12, <1>13
       DEF Step, ClientStep, Proceed, Completes, Indicates

-----------------------------------------------------------------------------
(* The theorems *)

\* Nothing is in a queue that is empty.
LEMMA EmptyQueue ==
  ASSUME queue = << >>
  PROVE  Range(queue) = {} /\ DOMAIN queue = {}
  BY DEF Range

\* Inv holds in every state: the types, the callback object until a client
\* dies, the one owner of each request, its answer, and the queue.
THEOREM Inductive == Spec => []Inv
  <1>1. Init => Inv
    <2> SUFFICES ASSUME Init
                 PROVE  Inv
      OBVIOUS
    <2> USE DEF Init
    <2>1. TypeOK
      <3>1. Unused \in RequestStates
        BY DEF Unused, RequestStates, Objects
      <3>2. queue \in Seq(Requests)
        BY EmptySeq
      <3>3. QED
        BY <3>1, <3>2, IdleState DEF TypeOK
    <2>2. CallbackInv
      BY DEF CallbackInv, Idle
    <2>3. OwnerInv
      BY DEF OwnerInv, UnusedInv, HeldInv, WorkInv, BinderInv, Idle, Threads
    <2>4. AnswerInv
      BY DEF AnswerInv
    <2>5. ToldInv
      BY DEF ToldInv, Idle
    <2>6. QueueInv
      <3>1. InWork = {}
        BY DEF InWork, Idle, Threads
      <3>2. Range(queue) = {} /\ DOMAIN queue = {}
        BY EmptyQueue
      <3>3. QED
        BY <3>1, <3>2 DEF QueueInv, Intact, Distinct, Alive, Queued, Wanted
    <2>7. QED
      BY <2>1, <2>2, <2>3, <2>4, <2>5, <2>6 DEF Inv
  <1>2. Inv /\ [Next]_vars => Inv'
    <2> SUFFICES ASSUME Inv, [Next]_vars
                 PROVE  Inv'
      OBVIOUS
    <2>1. CASE Next
      BY <2>1, TypeStep, CallbackStep, OwnerStep, AnswerStep, ToldStep, QueueStep DEF Inv, Next
    <2>2. CASE UNCHANGED vars
      <3> USE <2>2 DEF vars
      <3>1. TypeOK'
        BY DEF Inv, TypeOK
      <3>2. CallbackInv'
        BY DEF Inv, CallbackInv, FirstClient
      <3>3. OwnerInv'
        BY DEF Inv, OwnerInv, UnusedInv, HeldInv, WorkInv, BinderInv
      <3>4. AnswerInv' /\ ToldInv'
        BY DEF Inv, AnswerInv, ToldInv
      <3>5. QueueInv'
        BY QueueFrame DEF Inv, NoTwins
      <3>6. QED
        BY <3>1, <3>2, <3>3, <3>4, <3>5 DEF Inv
    <2>3. QED
      BY <2>1, <2>2
  <1>3. QED
    BY <1>1, <1>2, PTL DEF Spec

\* As long as no two requests with the same id and token wait at once, what the
\* vendor has or a thread works on is in the queue, and nothing is freed twice
\* or used after it was freed; a call keeps nothing but the command of an APDU.
THEOREM MemoryAlwaysOwned == Spec => []OwnsItsMemory
  <1>1. Inv => OwnsItsMemory
    <2> SUFFICES ASSUME Inv
                 PROVE  OwnsItsMemory
      OBVIOUS
    <2>1. thread[Binder].kept \subseteq {"command"}
      BY DEF Inv, TypeOK, ThreadStates, Threads
    <2>2. QED
      BY <2>1 DEF Inv, QueueInv, OwnsItsMemory, Intact, Alive, Queued, Wanted
  <1>2. QED
    BY <1>1, Inductive, PTL

\* The callback object is null at a call only after a client has died.
THEOREM AlwaysNullAfterDeath == Spec => []NullOnlyAfterDeath
  <1>1. Inv => NullOnlyAfterDeath
    <2> SUFFICES ASSUME Inv, ~(client.gen > 1), client.alive
                 PROVE  fault # "null callback"
      BY DEF NullOnlyAfterDeath
    <2>1. client.gen \in Nat
      BY DEF Inv, TypeOK
    <2>2. client.gen = 0 \/ client.gen = 1
      BY <2>1
    <2>3. QED
      BY <2>2 DEF Inv, CallbackInv, FirstClient
  <1>2. QED
    BY <1>1, Inductive, PTL

\* The two tables name the same callbacks, a failure never says success, and a
\* response says success only if the card did.
LEMMA TablesAgree ==
  ASSUME NEW id \in MsgIds, NEW code \in SimCodes \cup {"none"}
  PROVE  /\ Failures[id][1] = Responses[id]
         /\ Failures[id][2] # "SUCCESS"
         /\ Result(id, code) = "SUCCESS" => code = "SUCCESS"
  <1>1. Failures[id][1] = Responses[id] /\ Failures[id][2] # "SUCCESS"
    BY DEF MsgIds, Failures, Responses
  <1>2. Result(id, code) = "SUCCESS" => code = "SUCCESS"
    BY DEF Result, KnownCodes, ResultNames
  <1>3. QED
    BY <1>1, <1>2

\* Every request but a disconnection is answered at most once, through the
\* callback of its message, and with success only if the card succeeded.
THEOREM AlwaysAnsweredFaithfully == Spec => []AnswersFaithful
  <1>1. Inv => AnswersFaithful
    <2> SUFFICES ASSUME Inv
                 PROVE  AnswersFaithful
      OBVIOUS
    <2>1. \A r \in Requests : req[r].id \in MsgIds \ {"DISCONNECT"} => answered[r] <= 1
      BY DEF Inv, AnswerInv
    <2>2. ASSUME NEW t \in Threads, At(t, "told"), thread[t].r # NULL
          PROVE  LET id == thread[t].id IN
                   /\ thread[t].told[1] = Responses[id] /\ thread[t].told[1] = Failures[id][1]
                   /\ thread[t].told[2] = "SUCCESS" => thread[t].code = "SUCCESS"
      <3>1. /\ thread[t].id \in MsgIds
            /\ \/ thread[t].told = Failures[thread[t].id]
               \/ thread[t].told = <<Responses[thread[t].id], Result(thread[t].id, thread[t].code)>>
        BY <2>2 DEF Inv, ToldInv, At
      <3>2. thread[t].code \in SimCodes \cup {"none"}
        BY DEF Inv, TypeOK, ThreadStates
      <3>3. QED
        BY <3>1, <3>2, TablesAgree
    <2>3. QED
      BY <2>1, <2>2 DEF AnswersFaithful
  <1>2. QED
    BY <1>1, Inductive, PTL
=============================================================================
