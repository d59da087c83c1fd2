----------------------------- MODULE SapService -----------------------------
(***************************************************************************)
(* The SIM access profile (ril/libril/sap_service.cpp, RilSapSocket.cpp    *)
(* and rilSocketQueue.h) of one SIM slot.  A client sets a callback object *)
(* and sends requests on the binder thread; each becomes a node of the     *)
(* queue of pending requests and goes to the vendor's UIM functions.  The  *)
(* vendor completes requests and sends indications on threads of its own.  *)
(* sapCallback has no lock: every read and every write of it is a step.    *)
(*                                                                         *)
(* A request is the address of its queue node.  A client numbers its       *)
(* requests from 1, so the tokens of a client that starts again repeat     *)
(* those of the one before.  Addresses are not used again.                 *)
(*                                                                         *)
(* External: the vendor completes what it was given, once, when it likes;  *)
(* the protobuf library may refuse to encode and to decode.                *)
(***************************************************************************)
EXTENDS Naturals, Sequences, SequencesExt, FiniteSets

CONSTANTS
  MaxRequests,  \* requests sent
  BusyIds,      \* bound: what a client sends while other requests wait
  Vendors,      \* the vendor's threads
  MaxClients,   \* starts of the client process
  NULL

Requests == 1 .. MaxRequests

ASSUME SapAssumption == MaxClients \in Nat /\ MaxRequests \in Nat /\ NULL \notin Nat

VARIABLES
  setup,      \* "ready", or what is missing: "no socket", "no functions"
  callback,   \* sapCallback: the client whose object it is, or NULL
  client,     \* the last client that started, [gen, alive, set, next: token]
  req,        \* the requests: their messages, and what became of both objects
  queue,      \* pendingResponseQueue, front first
  held,       \* requests the vendor has not completed yet
  answered,   \* how often each request was answered, up to 2
  lost,       \* requests given up without an answer
  thread,     \* the binder thread and the vendor's
  fault       \* the first undefined behaviour

vars == <<setup, callback, client, req, queue, held, answered, lost, thread, fault>>

Binder == "binder"
Threads == {Binder} \cup Vendors

ASSUME ThreadAssumption == Binder \notin Vendors

MsgIds == {"CONNECT", "DISCONNECT", "APDU", "TRANSFER_ATR", "POWER", "RESET_SIM",
           "TRANSFER_CARD_READER_STATUS", "SET_TRANSFER_PROTOCOL"}

\* the responses of the card, and one it should not give
SimCodes == {"SUCCESS", "GENERIC_FAILURE", "SIM_NOT_READY", "SIM_ALREADY_POWERED_OFF",
             "SIM_ALREADY_POWERED_ON", "SIM_ABSENT", "SIM_DATA_NOT_AVAILABLE", "OTHER"}

Unused == [id |-> "none", token |-> 0, gen |-> 0, node |-> "none", header |-> "none",
           twin |-> FALSE]
Done == [Unused EXCEPT !.node = "freed", !.header = "freed"]
Idle == [pc |-> "idle", r |-> NULL, id |-> "none", code |-> "none", kept |-> {},
         told |-> <<"none", "none">>]

Init ==
  /\ setup \in {"ready", "no socket", "no functions"}
  /\ callback = NULL
  /\ client = [gen |-> 0, alive |-> FALSE, set |-> FALSE, next |-> 1]
  /\ req = [r \in Requests |-> Unused]
  /\ queue = << >> /\ held = {} /\ lost = {}
  /\ answered = [r \in Requests |-> 0]
  /\ thread = [t \in Threads |-> Idle]
  /\ fault = "none"

-----------------------------------------------------------------------------
(* Tables *)

\* the callback of each message in sendFailedResponse(), and the result it gives
Failures ==
  [CONNECT |-> <<"connectResponse", "CONNECT_FAILURE">>,
   DISCONNECT |-> <<"disconnectResponse", "none">>,
   APDU |-> <<"apduResponse", "GENERIC_FAILURE">>,
   TRANSFER_ATR |-> <<"transferAtrResponse", "GENERIC_FAILURE">>,
   POWER |-> <<"powerResponse", "GENERIC_FAILURE">>,
   RESET_SIM |-> <<"resetSimResponse", "GENERIC_FAILURE">>,
   TRANSFER_CARD_READER_STATUS |-> <<"transferCardReaderStatusResponse", "GENERIC_FAILURE">>,
   SET_TRANSFER_PROTOCOL |-> <<"transferProtocolResponse", "NOT_SUPPORTED">>]

\* a bug: a case copied from the one above it
ResponsesCopied ==
  [m \in MsgIds |-> IF m = "RESET_SIM" THEN "powerResponse" ELSE Failures[m][1]]

\* the callback of each message in processResponse()
Responses ==
  [CONNECT |-> "connectResponse", DISCONNECT |-> "disconnectResponse", APDU |-> "apduResponse",
   TRANSFER_ATR |-> "transferAtrResponse", POWER |-> "powerResponse",
   RESET_SIM |-> "resetSimResponse",
   TRANSFER_CARD_READER_STATUS |-> "transferCardReaderStatusResponse",
   SET_TRANSFER_PROTOCOL |-> "transferProtocolResponse"]

\* convertApduResponseProtoToHal() and its likes: the codes each message knows; the
\* others are a general failure
ResultNames ==
  [SUCCESS |-> "SUCCESS", SIM_NOT_READY |-> "CARD_NOT_ACCESSSIBLE",
   SIM_ALREADY_POWERED_OFF |-> "CARD_ALREADY_POWERED_OFF",
   SIM_ALREADY_POWERED_ON |-> "CARD_ALREADY_POWERED_ON", SIM_ABSENT |-> "CARD_REMOVED",
   SIM_DATA_NOT_AVAILABLE |-> "DATA_NOT_AVAILABLE"]

KnownCodes ==
  [APDU |-> {"SUCCESS", "SIM_NOT_READY", "SIM_ALREADY_POWERED_OFF", "SIM_ABSENT"},
   TRANSFER_ATR |-> {"SUCCESS", "SIM_ALREADY_POWERED_OFF", "SIM_ABSENT",
                     "SIM_DATA_NOT_AVAILABLE"},
   POWER |-> {"SUCCESS", "SIM_ABSENT", "SIM_ALREADY_POWERED_OFF", "SIM_ALREADY_POWERED_ON"},
   RESET_SIM |-> {"SUCCESS", "SIM_ABSENT", "SIM_NOT_READY", "SIM_ALREADY_POWERED_OFF"},
   TRANSFER_CARD_READER_STATUS |-> {"SUCCESS", "SIM_DATA_NOT_AVAILABLE"}]

\* The code of a connection is passed on as it is; a disconnection has none.
Result(id, code) ==
  CASE id \in DOMAIN KnownCodes ->
         IF code \in KnownCodes[id] THEN ResultNames[code] ELSE "GENERIC_FAILURE"
    [] id = "SET_TRANSFER_PROTOCOL" -> IF code = "SUCCESS" THEN "SUCCESS" ELSE "NOT_SUPPORTED"
    [] id = "CONNECT" -> code
    [] OTHER -> "none"

-----------------------------------------------------------------------------
(* The memory of a request call: connectReq() ... setTransferProtocolReq() and *)
(* addPayloadAndDispatchRequest()                                              *)

Steps == <<"header", "command", "size", "buffer", "encode", "payload", "socket", "node">>

\* Only an APDU has a command.  Before the step `at` these were allocated.
Allocated(id, at) ==
  LET before == {Steps[i] : i \in 1 .. IndexFirstSubSeq(<<at>>, Steps) - 1}
  IN  before \cap ({"header", "buffer", "payload"} \cup {c \in {"command"} : id = "APDU"})

\* a bug: the first failure of pb_encode() frees the buffer only
FreedForgetting(id, at) == IF at = "encode" THEN {"buffer"} ELSE Allocated(id, at)

\* What a call that fails at a step frees, itself or in sendFailedResponse():
\* addPayloadAndDispatchRequest() knows nothing of the command.
Freed(id, at) ==
  IF at \in {"payload", "socket", "node"} THEN Allocated(id, at) \ {"command"}
                                          ELSE Allocated(id, at)

Kept(id, at) == Allocated(id, at) \ Freed(id, at)

\* A call that goes well frees its payload and its buffer; the message belongs to
\* the queue.
KeptWhenSent(id) == Allocated(id, "node") \ {"header", "buffer", "payload"}

-----------------------------------------------------------------------------
(* The client *)

ClientStart ==
  /\ ~client.alive /\ client.gen < MaxClients
  /\ client' = [gen |-> client.gen + 1, alive |-> TRUE, set |-> FALSE, next |-> 1]
  /\ UNCHANGED <<setup, callback, req, queue, held, answered, lost, thread, fault>>

ClientDie ==
  /\ client.alive
  /\ client' = [client EXCEPT !.alive = FALSE]
  /\ UNCHANGED <<setup, callback, req, queue, held, answered, lost, thread, fault>>

At(t, pc) == thread[t].pc = pc
Goto(t, pc) == thread' = [thread EXCEPT ![t].pc = pc]

setCallback ==
  /\ client.alive /\ ~client.set /\ At(Binder, "idle")
  /\ callback' = client.gen
  /\ client' = [client EXCEPT !.set = TRUE]
  /\ UNCHANGED <<setup, req, queue, held, answered, lost, thread, fault>>

Calls(r, id) ==
  /\ client.alive /\ client.set /\ At(Binder, "idle")
  /\ req[r] = Unused /\ \A s \in 1 .. r - 1 : req[s] # Unused
  /\ queue # << >> => id \in BusyIds
  /\ client' = [client EXCEPT !.next = @ + 1]

\* twin: a request with the same id and token waits already
NewRequest(r, id) ==
  req' = [req EXCEPT ![r] = [id |-> id, token |-> client.next, gen |-> client.gen,
                             node |-> "live", header |-> "live",
                             twin |-> \E s \in Range(queue) :
                                        req[s].id = id /\ req[s].token = client.next]]

\* the steps that may fail before the request is dispatched
MayFail(id) ==
  (Range(Steps) \ {"node", "socket", "command"})
    \cup (IF id = "APDU" THEN {"command"} ELSE {})
    \cup (IF setup = "no socket" THEN {"socket"} ELSE {})

RequestFails(r, id, at) ==
  /\ Calls(r, id) /\ at \in MayFail(id)
  /\ req' = [req EXCEPT ![r] = Done]
  /\ thread' = [thread EXCEPT ![Binder] = [Idle EXCEPT !.pc = "fail", !.r = r, !.id = id,
                                                        !.kept = Kept(id, at)]]
  /\ UNCHANGED <<setup, callback, queue, held, answered, lost, fault>>

\* RilSapSocket::dispatchRequest(): no memory for the node
DispatchFails(r, id) ==
  /\ Calls(r, id) /\ setup # "no socket"
  /\ req' = [req EXCEPT ![r] = Done]
  /\ lost' = lost \cup {r}
  /\ thread' = [thread EXCEPT ![Binder] = [Idle EXCEPT !.kept = Kept(id, "node")]]
  /\ UNCHANGED <<setup, callback, queue, held, answered, fault>>

\* enqueue() puts the request in front; without UIM functions it stays there
dispatchRequest(r, id) ==
  /\ Calls(r, id) /\ setup # "no socket"
  /\ NewRequest(r, id)
  /\ queue' = <<r>> \o queue
  /\ IF setup = "ready" THEN held' = held \cup {r} /\ UNCHANGED lost
                        ELSE lost' = lost \cup {r} /\ UNCHANGED held
  /\ thread' = [thread EXCEPT ![Binder] = [Idle EXCEPT !.kept = KeptWhenSent(id)]]
  /\ UNCHANGED <<setup, callback, answered, fault>>

-----------------------------------------------------------------------------
(* The vendor *)

\* The node is looked at first, to find the socket.  Without memory for the
\* response there is no answer.
onRequestComplete(v, r, code) ==
  /\ At(v, "idle") /\ r \in held
  /\ held' = held \ {r}
  /\ IF req[r].node = "freed"
     THEN fault' = "freed request" /\ UNCHANGED <<lost, thread>>
     ELSE /\ UNCHANGED fault
          /\ \/ /\ thread' = [thread EXCEPT ![v] = [Idle EXCEPT !.pc = "dequeue", !.r = r]]
                /\ lost' = lost \cup {r}
             \/ /\ thread' = [thread EXCEPT ![v] = [Idle EXCEPT !.pc = "check", !.r = r,
                                                      !.id = req[r].id, !.code = code]]
                /\ UNCHANGED lost
  /\ UNCHANGED <<setup, callback, client, req, queue, answered>>

\* DISCONNECT, STATUS and ERROR_RESP; a code of "none" cannot be decoded.  The
\* token of the message is not set.
onUnsolicitedResponse(v, id, code) ==
  /\ At(v, "idle") /\ setup # "no socket"
  /\ thread' = [thread EXCEPT ![v] = [Idle EXCEPT !.pc = "check", !.id = id, !.code = code]]
  /\ UNCHANGED <<setup, callback, client, req, queue, held, answered, lost, fault>>

\* a completion has a request to free
ToDequeue(v) == [Idle EXCEPT !.pc = "dequeue", !.r = thread[v].r]

\* a bug: the callback is not looked at
CheckNothing(v) ==
  /\ At(v, "check")
  /\ Goto(v, IF thread[v].code = "none" THEN "fail" ELSE "call")
  /\ UNCHANGED <<setup, callback, client, req, queue, held, answered, lost, fault>>

\* a bug: a message that cannot be decoded is not answered
CheckSilently(v) ==
  /\ At(v, "check")
  /\ \/ (callback = NULL \/ thread[v].code = "none") /\ thread' = [thread EXCEPT ![v] = ToDequeue(v)]
     \/ callback # NULL /\ thread[v].code # "none" /\ Goto(v, "call")
  /\ lost' = IF callback = NULL THEN lost \cup ({thread[v].r} \ {NULL}) ELSE lost
  /\ UNCHANGED <<setup, callback, client, req, queue, held, answered, fault>>

\* processResponse() up to the switch: sapDecodeMessage() and the test of sapCallback.
\* The decoded message, which nobody ever frees, is not modelled.
CheckCallback(v) ==
  /\ At(v, "check")
  /\ \/ callback = NULL /\ thread' = [thread EXCEPT ![v] = ToDequeue(v)]
     \/ callback # NULL /\ Goto(v, IF thread[v].code = "none" THEN "fail" ELSE "call")
  /\ lost' = IF callback = NULL THEN lost \cup ({thread[v].r} \ {NULL}) ELSE lost
  /\ UNCHANGED <<setup, callback, client, req, queue, held, answered, fault>>

-----------------------------------------------------------------------------
(* The call of the callback: processResponse()'s switch, sendFailedResponse() *)

\* The requests a call answers: its own; a disconnection that could not be decoded
\* is answered as a request, with whatever token is in the message.
Answers(t) ==
  IF thread[t].r # NULL THEN {{thread[t].r}}
  ELSE IF thread[t].id = "DISCONNECT" /\ At(t, "fail")
       THEN {{}} \cup {{r} : r \in {x \in Requests : req[x].id = "DISCONNECT"
                                                       /\ req[x].gen = callback}}
       ELSE {{}}

\* sendFailedResponse() does nothing for the other indications
Silent(t) == At(t, "fail") /\ thread[t].id \notin MsgIds

\* the callback and the result
Told(t) ==
  LET id == thread[t].id
  IN  CASE thread[t].r = NULL -> <<"indication", "none">>
        [] thread[t].r # NULL /\ At(t, "fail") -> Failures[id]
        [] OTHER -> <<Responses[id], Result(id, thread[t].code)>>

Deliver(t) ==
  /\ At(t, "fail") \/ At(t, "call")
  /\ CASE Silent(t) -> Goto(t, "told") /\ UNCHANGED <<answered, lost, fault>>
       [] ~Silent(t) /\ callback = NULL ->
            fault' = "null callback" /\ UNCHANGED <<answered, lost, thread>>
       [] ~Silent(t) /\ callback = client.gen /\ client.alive ->
            /\ \E rs \in Answers(t) :
                 answered' = [r \in Requests |->
                                IF r \in rs /\ answered[r] < 2 THEN answered[r] + 1
                                                                ELSE answered[r]]
            /\ thread' = [thread EXCEPT ![t] = [thread[t] EXCEPT !.pc = "told", !.told = Told(t)]]
            /\ UNCHANGED <<lost, fault>>
       [] OTHER ->
            /\ thread' = [thread EXCEPT ![t] = [Idle EXCEPT !.pc = "reset", !.r = thread[t].r]]
            /\ lost' = lost \cup ({thread[t].r} \ {NULL})
            /\ UNCHANGED <<answered, fault>>
  /\ UNCHANGED <<setup, callback, client, req, queue, held>>

\* the end of a request call, or of the answer of a completion
Finished(t) == thread' = [thread EXCEPT ![t] = IF t = Binder THEN Idle ELSE ToDequeue(t)]

\* checkReturnStatus() of a call that went well
Return(t) ==
  /\ At(t, "told")
  /\ Finished(t)
  /\ UNCHANGED <<setup, callback, client, req, queue, held, answered, lost, fault>>

\* checkReturnStatus() of one that did not: whoever's object it is now
Reset(t) ==
  /\ At(t, "reset")
  /\ callback' = NULL
  /\ Finished(t)
  /\ UNCHANGED <<setup, client, req, queue, held, answered, lost, fault>>

-----------------------------------------------------------------------------
(* Ril_queue::checkAndDequeue() and the rest of onRequestComplete() *)

\* a bug: the token is all that is compared
SameToken(r, s) == req[r].token = req[s].token

\* the node's token and its message's id
Same(r, s) == req[r].token = req[s].token /\ req[r].id = req[s].id

\* the first match, which is the youngest
Match(r) == CHOOSE i \in DOMAIN queue :
              Same(queue[i], r) /\ \A j \in 1 .. i - 1 : ~Same(queue[j], r)

Found(r) == \E i \in DOMAIN queue : Same(queue[i], r)

\* the search reads the message of a node with the token
ReadsFreed(r) == \E i \in DOMAIN queue :
  /\ req[queue[i]].token = req[r].token /\ req[queue[i]].header = "freed"
  /\ ~Found(r) \/ i <= Match(r)

\* a request of which nothing is left is forgotten
Freeing(r, s) ==
  IF r = s THEN [req EXCEPT ![r] = [Done EXCEPT !.twin = req[r].twin]]
           ELSE [req EXCEPT ![s] = [req[s] EXCEPT !.node = "freed"],
                       ![r] = [req[r] EXCEPT !.header = "freed"]]

checkAndDequeue(v) ==
  /\ At(v, "dequeue")
  /\ LET r == thread[v].r IN
       CASE r = NULL -> UNCHANGED <<req, queue, fault>>
         [] r # NULL /\ ReadsFreed(r) -> fault' = "freed message" /\ UNCHANGED <<req, queue>>
         [] r # NULL /\ ~ReadsFreed(r) /\ Found(r) ->
              /\ req' = Freeing(r, queue[Match(r)])
              /\ queue' = RemoveAt(queue, Match(r))
              /\ UNCHANGED fault
         [] OTHER -> req' = [req EXCEPT ![r].header = "freed"] /\ UNCHANGED <<queue, fault>>
  /\ thread' = [thread EXCEPT ![v] = Idle]
  /\ UNCHANGED <<setup, callback, client, held, answered, lost>>

-----------------------------------------------------------------------------

ClientStep ==
  \/ ClientStart \/ ClientDie \/ setCallback
  \/ \E r \in Requests, id \in MsgIds :
       \/ \E at \in Range(Steps) : RequestFails(r, id, at)
       \/ DispatchFails(r, id)
       \/ dispatchRequest(r, id)

\* a call in progress
Proceed(t) ==
  \/ Deliver(t) \/ Return(t) \/ Reset(t)
  \/ t \in Vendors /\ (CheckCallback(t) \/ checkAndDequeue(t))

Completes(v) == \E r \in held, code \in SimCodes \cup {"none"} : onRequestComplete(v, r, code)

Indicates(v) == \E id \in {"DISCONNECT", "STATUS", "ERROR_RESP"}, code \in {"none", "SUCCESS"} :
                  onUnsolicitedResponse(v, id, code)

Step ==
  \/ ClientStep
  \/ \E t \in Threads : Proceed(t)
  \/ \E v \in Vendors : Completes(v) \/ Indicates(v)

Next == fault = "none" /\ Step

Spec == Init /\ [][Next]_vars

\* A call that was begun goes on, and the vendor completes what it was given,
\* whatever indications it sends in between.
Fairness ==
  /\ \A t \in Threads : WF_vars(fault = "none" /\ Proceed(t))
  /\ \A v \in Vendors : SF_vars(fault = "none" /\ Completes(v))

FairSpec == Spec /\ Fairness

-----------------------------------------------------------------------------
(* Properties *)

\* the requests a vendor thread works on
InWork == {thread[v].r : v \in Vendors} \ {NULL}

\* no two requests with the same id and token ever waited at once
NoTwins == \A r \in Requests : ~req[r].twin

\* onRequestComplete() frees the node and the message of the request it completes,
\* and of no other: as long as no two requests with the same id and token wait at
\* once, what the vendor holds or is completing is in the queue and not freed, and
\* what is in the queue is held, in work or without functions to go to.  A call
\* frees what it has allocated, the command of an APDU excepted.
OwnsItsMemory ==
  /\ thread[Binder].kept \subseteq {"command"}
  /\ NoTwins =>
       /\ fault \notin {"freed request", "freed message"}
       /\ \A r \in held \cup InWork :
            r \in Range(queue) /\ req[r].node = "live" /\ req[r].header = "live"
       /\ \A r \in Range(queue) : r \in held \cup InWork \/ setup = "no functions"

\* Every request is answered at most once, through the callback that its normal and
\* its failed response have in common, and with success only if the card succeeded.
\* A disconnection that is indicated and cannot be decoded looks like a response to
\* a disconnection that was requested.
AnswersFaithful ==
  /\ \A r \in Requests : req[r].id \in MsgIds \ {"DISCONNECT"} => answered[r] <= 1
  /\ \A t \in Threads : At(t, "told") /\ thread[t].r # NULL =>
       LET id == thread[t].id IN
         /\ thread[t].told[1] = Responses[id] /\ thread[t].told[1] = Failures[id][1]
         /\ thread[t].told[2] = "SUCCESS" => thread[t].code = "SUCCESS"

\* The callback object is null when it is called only once a client has died: the
\* test of it and the call are apart, and a failed request does not test it at all.
NullOnlyAfterDeath == fault = "null callback" => client.gen > 1 \/ ~client.alive

\* Every request is answered, unless there was no memory, there are no UIM functions
\* or there is no client to tell.
RequestsSettled ==
  \A r \in Requests :
    req[r] # Unused ~> answered[r] > 0 \/ r \in lost \/ fault # "none"

(***************************************************************************)
(* The inductive invariants behind the theorems of SapServiceProofs.       *)
(***************************************************************************)

Objects == {"none", "live", "freed"}

RequestStates ==
  [id : MsgIds \cup {"none"}, token : Nat, gen : Nat, node : Objects, header : Objects,
   twin : BOOLEAN]

\* what a call may tell
Tellings ==
  {Failures[id] : id \in MsgIds}
    \cup {<<Responses[id], Result(id, code)>> : id \in MsgIds, code \in SimCodes \cup {"none"}}
    \cup {<<"indication", "none">>, <<"none", "none">>}

ThreadStates ==
  [pc : {"idle", "check", "fail", "call", "told", "reset", "dequeue"}, r : Requests \cup {NULL},
   id : MsgIds \cup {"STATUS", "ERROR_RESP", "none"}, code : SimCodes \cup {"none"},
   kept : SUBSET {"command"}, told : Tellings]

TypeOK ==
  /\ setup \in {"ready", "no socket", "no functions"}
  /\ callback \in Nat \cup {NULL}
  /\ client \in [gen : Nat, alive : BOOLEAN, set : BOOLEAN, next : Nat]
  /\ req \in [Requests -> RequestStates]
  /\ queue \in Seq(Requests)
  /\ held \in SUBSET Requests
  /\ answered \in [Requests -> Nat]
  /\ thread \in [Threads -> ThreadStates]

\* As long as no client has died, nothing takes the callback object away, and
\* no call finds it null.
FirstClient == client.gen = 0 \/ (client.gen = 1 /\ client.alive)
CallbackInv ==
  FirstClient =>
    /\ callback \in {NULL, client.gen}
    /\ client.gen = 0 => ~client.alive /\ ~client.set /\ callback = NULL
    /\ client.set => callback # NULL
    /\ \A t \in Threads : /\ thread[t].pc # "reset"
                          /\ thread[t].pc \in {"fail", "call"} => callback # NULL
    /\ fault # "null callback"

\* A request is with the vendor or with one thread; none of them has one that
\* was not sent yet.
UnusedInv == \A r \in Requests : req[r] = Unused => answered[r] = 0 /\ r \notin held
HeldInv == \A r \in held : req[r].id \in MsgIds
WorkInv ==
  \A t \in Threads : thread[t].r # NULL =>
    /\ req[thread[t].r] # Unused
    /\ thread[t].r \notin held
    /\ thread[t].pc # "idle"
    /\ thread[t].pc \in {"check", "fail", "call"} => thread[t].id \in MsgIds
    /\ \A s \in Threads : thread[s].r = thread[t].r => s = t
BinderInv == thread[Binder].pc \in {"idle", "fail", "told", "reset"}

OwnerInv == UnusedInv /\ HeldInv /\ WorkInv /\ BinderInv

\* Once a request was answered, nobody is about to answer it again.
AnswerInv ==
  \A r \in Requests :
    req[r].id \in MsgIds \ {"DISCONNECT"} /\ answered[r] # 0 =>
      /\ answered[r] = 1
      /\ r \notin held
      /\ \A t \in Threads : thread[t].r = r => thread[t].pc \notin {"check", "fail", "call"}

\* What was told is what the request's message and the card's answer say.
ToldInv ==
  \A t \in Threads : thread[t].r # NULL =>
    /\ thread[t].pc = "call" => thread[t].code \in SimCodes
    /\ thread[t].pc = "told" =>
         /\ thread[t].id \in MsgIds
         /\ \/ thread[t].told = Failures[thread[t].id]
            \/ thread[t].told = <<Responses[thread[t].id], Result(thread[t].id, thread[t].code)>>

\* Without twins the queue has every request that is held or in work, once,
\* with its node and its message, and the search finds no other.
Intact == fault \notin {"freed request", "freed message"}
Distinct == \A i, j \in DOMAIN queue : Same(queue[i], queue[j]) => i = j
Alive == \A r \in Range(queue) : req[r].node = "live" /\ req[r].header = "live"
Queued == held \cup InWork \subseteq Range(queue)
Wanted == \A r \in Range(queue) : r \in held \cup InWork \/ setup = "no functions"

QueueInv == NoTwins => Intact /\ Distinct /\ Alive /\ Queued /\ Wanted

Inv == TypeOK /\ CallbackInv /\ OwnerInv /\ AnswerInv /\ ToldInv /\ QueueInv
=============================================================================
