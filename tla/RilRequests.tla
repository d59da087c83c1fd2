---------------------------- MODULE RilRequests -----------------------------
(***************************************************************************)
(* One request of a client from the HIDL call to the answer, and the       *)
(* vendor's indications, through ril/libril/ril_service.cpp.  The binder   *)
(* thread runs the method's program (RilDispatch) step by step; from the   *)
(* moment it has called onRequest() the vendor may complete the request in *)
(* another thread, before or after the method returns.  The completion is  *)
(* given to the response function the table names (RilResponses), which    *)
(* looks at the payload (RilPayload) and calls the client.                 *)
(*                                                                         *)
(* External: the vendor, which completes every request it was handed once, *)
(* with any error and any payload, a payload that is not NULL having a     *)
(* length above 0.  The service lock is the subject of RadioService.       *)
(***************************************************************************)
EXTENDS RilDispatch, RilResponses, RilIndications, RilConvert

CONSTANTS
  Settings,   \* [version, client, oemHook]: the vendor's version, the client's
              \* interface ("none", "V1_0", "V1_1"), whether IOemHook is in use
  Lengths,    \* lengths of payloads
  MaxDataCalls, MaxDigits   \* longest list of data calls, longest CDMA address

ASSUME RequestsAssumption ==
  /\ \A s \in Settings :
       s.version \in Nat /\ s.client \in {"none", "V1_0", "V1_1"} /\ s.oemHook \in BOOLEAN
  /\ Lengths \subseteq Nat \ {0}
  /\ MaxDataCalls \in Nat /\ MaxDigits \in 0 .. 255

VARIABLES
  setting,    \* one of Settings
  call,       \* the method being called, with its program; method "none" in between
  pc,         \* its next step
  ptr,        \* the pointers the method has touched: "live", "freed" or "junk"
  request,    \* the RequestInfo: "none", "null" (no memory), "listed", "freed"
  handed,     \* onRequest() was called for it
  truncated,  \* the copy that was found too short for its string, if any
  answers,    \* what the client was told: a sequence of [callback, error]
  faults,     \* accesses that are undefined in C
  last,       \* the payload looked at last, and what became of it
  report      \* a report with contents: what the vendor sent, what the client saw

vars == <<setting, call, pc, ptr, request, handed, truncated, answers, faults, last, report>>

-----------------------------------------------------------------------------
(* The tables, evaluated once *)

MvnoAndVectors == BOOLEAN \X (0 .. MaxVector) \X {"GSM", "CDMA", "other"}

\* every program of every method, by version
Calls == [v \in {s.version : s \in Settings} |->
  UNION {LET ms == Methods(v, a[1], a[2], a[3])
         IN  {[method |-> m, request |-> ms[m].request, steps |-> ms[m].steps] : m \in DOMAIN ms}
         : a \in MvnoAndVectors}]

Functions == [s \in Settings |-> ResponseFunctions(s.version, s.client)]

NoCall == [method |-> "none", request |-> "none", steps |-> <<>>]
NoReport == [kind |-> "none"]
Unseen == [kind |-> "none", name |-> "none", error |-> "SUCCESS", payload |-> NoPayload,
           outcome |-> "none"]

\* contents that are out of range matter to a few functions only
Payloads(sh) ==
  {NoPayload} \cup {Payload(FALSE, l, TRUE) : l \in Lengths}
  \cup (IF sh.kind \in {"checkedStruct", "checkedList", "hex"}
        THEN {Payload(FALSE, l, FALSE) : l \in Lengths} ELSE {})

Errors == {"SUCCESS", "GENERIC_FAILURE"}

-----------------------------------------------------------------------------

Init ==
  /\ setting \in Settings
  /\ call = NoCall /\ pc = 1
  /\ ptr = << >>
  /\ request = "none" /\ handed = FALSE /\ truncated = {}
  /\ answers = <<>> /\ faults = {}
  /\ last = Unseen /\ report = NoReport

Idle == call = NoCall
Running == call # NoCall /\ pc <= Len(call.steps)
Returned == call # NoCall /\ pc > Len(call.steps)
At(op) == Running /\ call.steps[pc].op = op
AtCopy(ops) == Running /\ call.steps[pc].op \in ops
Current == call.steps[pc]

\* A HIDL call: the binder thread enters the method.
Call(c) ==
  /\ Idle
  /\ call' = c
  /\ last' = Unseen /\ report' = NoReport
  /\ UNCHANGED <<setting, pc, ptr, request, handed, truncated, answers, faults>>

\* The client's method is called by the response function of the request, with
\* the payload p the vendor gave.
Respond(e, p) ==
  LET fn == Functions[setting][s_commands[call.request]]
      told == responseError(fn.shape, e, p)
      reached == Reached(fn.iface, setting.client, setting.oemHook)
  IN  /\ answers' = IF reached THEN Append(answers, [callback |-> fn.callback, error |-> told])
                    ELSE answers
      /\ last' = [kind |-> "response", name |-> s_commands[call.request], error |-> e,
                  payload |-> p,
                  outcome |-> CASE ~reached -> "unreached"
                                [] reached /\ Refuses(fn.shape, p) -> "refused"
                                [] OTHER -> "taken"]

\* the pointers now hold what
With(names, what) == [x \in DOMAIN ptr \cup names |-> IF x \in names THEN what ELSE ptr[x]]
Hold(names, what) == ptr' = With(names, what)

\* memsetAndFreeStrings() and free(): NULL is skipped
FreeIn(heap, names) ==
  /\ ptr' = [x \in DOMAIN heap |-> IF x \in names /\ heap[x] = "live" THEN "freed" ELSE heap[x]]
  /\ faults' = faults
       \cup {"wild free" : x \in {y \in names \cap DOMAIN heap : heap[y] = "junk"}}
       \cup {"double free" : x \in {y \in names \cap DOMAIN heap : heap[y] = "freed"}}

FreeAll(names) == FreeIn(ptr, names)

\* the method ends here
Leave == pc' = Len(call.steps) + 1
Continue == pc' = pc + 1

\* a bug: the method goes on after sendErrorResponse()
FailWithoutReturn(err, frees) ==
  /\ Continue
  /\ FreeAll(frees)
  /\ Respond(err, NoPayload)
  /\ UNCHANGED <<setting, call, request, handed, truncated, report>>

\* sendErrorResponse(), then the frees of this exit; the request stays listed
FailWith(err, frees) ==
  /\ Leave
  /\ FreeAll(frees)
  /\ Respond(err, NoPayload)
  /\ UNCHANGED <<setting, call, request, handed, truncated, report>>

\* addRequestToList() finds memory
AddToList ==
  /\ At("add") \/ At("addUnchecked")
  /\ request' = "listed"
  /\ Continue
  /\ UNCHANGED <<setting, call, ptr, handed, truncated, answers, faults, last, report>>

\* or does not: the method ends without a word to the client
AddFails ==
  /\ At("add")
  /\ request' = "null"
  /\ Leave
  /\ UNCHANGED <<setting, call, ptr, handed, truncated, answers, faults, last, report>>

\* two methods go on with the NULL
AddFailsUnchecked ==
  /\ At("addUnchecked")
  /\ request' = "null"
  /\ Continue
  /\ UNCHANGED <<setting, call, ptr, handed, truncated, answers, faults, last, report>>

Declare ==
  /\ At("junk")
  /\ Hold(Current.frees, "junk")
  /\ Continue
  /\ UNCHANGED <<setting, call, request, handed, truncated, answers, faults, last, report>>

CheckPasses ==
  /\ At("check")
  /\ Continue
  /\ UNCHANGED <<setting, call, ptr, request, handed, truncated, answers, faults, last, report>>

CheckFails == At("check") /\ FailWith(Current.err, Current.frees)

\* an exit the arguments or the version leave no way around
MustFail ==
  /\ At("fail")
  /\ request = "listed"
  /\ FailWith(Current.err, Current.frees)

\* sendErrorResponse() with a NULL request
MustFailOnNull ==
  /\ At("fail")
  /\ request = "null"
  /\ Leave
  /\ faults' = faults \cup {"NULL request"}
  /\ UNCHANGED <<setting, call, ptr, request, handed, truncated, answers, last, report>>

\* calloc(), new[] and a copied string
Allocate ==
  /\ At("calloc") \/ At("new") \/ AtCopy(Copies)
  /\ Hold({Current.x}, "live")
  /\ Continue
  /\ UNCHANGED <<setting, call, request, handed, truncated, answers, faults, last, report>>

\* copyHidlStringToRil() of an empty string
CopyNull ==
  /\ AtCopy({"copy", "copyChars"})
  /\ ptr' = [x \in DOMAIN ptr \ {Current.x} |-> ptr[x]]
  /\ Continue
  /\ UNCHANGED <<setting, call, request, handed, truncated, answers, faults, last, report>>

NoMemory ==
  /\ At("calloc") \/ AtCopy(Copies)
  /\ FailWith("NO_MEMORY", Current.frees)

\* size() and c_str() of the client's string do not agree: copyHidlStringToRil()
\* has allocated the copy and returns false with no sendErrorResponse(); the
\* method leaves as it does without memory.
Truncated ==
  /\ AtCopy(ClientCopies)
  /\ truncated' = {Current.x}
  /\ FreeIn(With({Current.x}, "live"), Current.frees)
  /\ Leave
  /\ UNCHANGED <<setting, call, request, handed, answers, last, report>>

CallOnRequest ==
  /\ At("onRequest")
  /\ handed' = TRUE
  /\ Continue
  /\ UNCHANGED <<setting, call, ptr, request, truncated, answers, faults, last, report>>

FreeCopies ==
  /\ At("free")
  /\ FreeAll(Current.frees)
  /\ Continue
  /\ UNCHANGED <<setting, call, request, handed, truncated, answers, last, report>>

\* RIL_onRequestComplete(): the request leaves the list, the client is called
\* and the request is freed.
Complete(e, p) ==
  /\ handed /\ request = "listed"
  /\ request' = "freed"
  /\ Respond(e, p)
  /\ UNCHANGED <<setting, call, pc, ptr, handed, truncated, faults, report>>

\* The call is over, for the method and for the vendor.  A request that is still
\* on the list stays there; nothing refers to it any more.
Finish ==
  /\ Returned
  /\ handed => request = "freed"
  /\ call' = NoCall /\ pc' = 1
  /\ ptr' = << >>
  /\ request' = "none" /\ handed' = FALSE /\ truncated' = {}
  /\ answers' = <<>> /\ faults' = {}
  /\ last' = Unseen
  /\ UNCHANGED <<setting, report>>

-----------------------------------------------------------------------------
(* Indications *)

\* RIL_onUnsolicitedResponse(), as far as the indication function goes
Indicate(u, p) ==
  LET name == s_unsolResponses[u]
      fn == IndicationFunctions[name]
  IN  /\ Idle
      /\ name # "none"
      /\ last' = [kind |-> "indication", name |-> name, error |-> "SUCCESS", payload |-> p,
                  outcome |-> CASE ~Reached(fn.iface, setting.client, setting.oemHook) -> "unreached"
                                [] Refuses(fn.shape, p) -> "refused"
                                [] OTHER -> "taken"]
      /\ report' = NoReport
      /\ UNCHANGED <<setting, call, pc, ptr, request, handed, truncated, answers, faults>>

\* a report whose contents matter
Reported(r) ==
  /\ Idle
  /\ report' = r
  /\ last' = Unseen
  /\ UNCHANGED <<setting, call, pc, ptr, request, handed, truncated, answers, faults>>

\* The answers to the registration requests of a vendor before version 15; one
\* of the strings may be NULL.
AnswerRegistration(rat, missing) ==
  /\ setting.version <= 14
  /\ \/ Reported([kind |-> "voice", rat |-> rat, strings |-> (0 .. 14) \ {missing},
                  shown |-> fillCellIdentityFromVoiceRegStateResponseString(
                              rat, (0 .. 14) \ {missing})])
     \/ \E sent \in {6, 11} :
          Reported([kind |-> "data", rat |-> rat, strings |-> (0 .. sent - 1) \ {missing},
                    shown |-> fillCellIdentityFromDataRegStateResponseString(
                                rat, (0 .. sent - 1) \ {missing}, sent)])

\* the values of the LTE part in the buffer: unknown, negative and positive
LteValues == [signalStrength : {-1, 20}, rsrp : {-90, -1, 90}, rsrq : {-1, 10}, cqi : {-1, 7}]

\* the conversion rewrites the buffer
SignalReport(len, sent, buffer) ==
  LET shown == convertRilSignalStrengthToHal(len, buffer, 40)
  IN  [kind |-> "signal", len |-> len, sent |-> sent, buffer |-> shown.lte, shown |-> shown]

MeasureSignal(len, lte) == Reported(SignalReport(len, lte, lte))

\* the vendor reports the buffer again, as the last conversion left it
RepeatSignal ==
  /\ report.kind = "signal"
  /\ Reported(SignalReport(report.len, report.sent, report.buffer))

ReportDataCalls(layout, n) ==
  Reported([kind |-> "dataCalls", layout |-> layout, n |-> n,
            shown |-> convertRilDataCallListToHal(n * layout)])

ReportCells(types) ==
  Reported([kind |-> "cells", sent |-> types, shown |-> convertRilCellInfoListToHal(types)])

ReportHardware(types) ==
  Reported([kind |-> "cells", sent |-> types, shown |-> convertRilHardwareConfigListToHal(types)])

\* numberOfInfoRecs is whatever byte the modem put there; the array has ten
ReportInfoRecords(count, recs) ==
  Reported([kind |-> "infoRecs", count |-> count, recs |-> recs,
            shown |-> cdmaInfoRecInd(count, recs)])

\* a message the client sent comes back from the network
EchoCdmaSms(digits, bearer) ==
  LET msg == constructCdmaSms(digits, bearer)
  IN  Reported([kind |-> "sms", digits |-> digits, bearer |-> bearer, msg |-> msg,
                shown |-> cdmaNewSmsInd(msg)])

ReportSupplementary(serType, reqType, n) ==
  Reported([kind |-> "ss", n |-> n,
            shown |-> onSupplementaryServiceIndicationInd(serType, reqType, n)])

CellTypes == {"GSM", "WCDMA", "CDMA", "LTE", "TD_SCDMA", "NONE"}
Records == [name : {"display", "number", "signal", "redir", "ringOfDeath", "unknown"},
            len : {0, 64, 65, 81, 82}]

Reports ==
  \/ \E rat \in RadioTechs, missing \in {1, 2, 8, 15} : AnswerRegistration(rat, missing)
  \/ \E len \in {RIL_SignalStrength_v8, RIL_SignalStrength_v10}, lte \in LteValues :
       MeasureSignal(len, lte)
  \/ RepeatSignal
  \/ \E layout \in DataCallLayouts, n \in 0 .. MaxDataCalls : ReportDataCalls(layout, n)
  \/ \E types \in CellTypes \X CellTypes : ReportCells(types)
  \/ \E types \in {"MODEM", "SIM", "unknown"} \X {"MODEM", "SIM"} : ReportHardware(types)
  \/ \E count \in {0, 1, 10, 11, 255}, r \in Records :
       ReportInfoRecords(count, [i \in 1 .. RIL_CDMA_MAX_NUMBER_OF_INFO_RECS |-> r])
  \/ \E digits \in 0 .. MaxDigits, bearer \in {0, 1, 254, 255, 256} : EchoCdmaSms(digits, bearer)
  \/ \E serType \in {"CFU", "CF_ALL", "CLIR"}, reqType \in {"INTERROGATION", "ACTIVATION"},
        n \in {0, 7, 8} : ReportSupplementary(serType, reqType, n)

-----------------------------------------------------------------------------

Method ==
  \/ AddToList \/ AddFails \/ AddFailsUnchecked \/ Declare \/ CheckPasses \/ CheckFails
  \/ MustFail \/ MustFailOnNull \/ Allocate \/ CopyNull \/ NoMemory \/ Truncated
  \/ CallOnRequest \/ FreeCopies

ResponseShape == Functions[setting][s_commands[call.request]].shape

Next ==
  \/ \E c \in Calls[setting.version] : Call(c)
  \/ Method
  \/ handed /\ \E e \in Errors, p \in Payloads(ResponseShape) : Complete(e, p)
  \/ Finish
  \/ \E u \in DOMAIN s_unsolResponses :
       s_unsolResponses[u] # "none"
       /\ \E p \in Payloads(IndicationFunctions[s_unsolResponses[u]].shape) : Indicate(u, p)
  \/ Reports

Spec == Init /\ [][Next]_vars
-----------------------------------------------------------------------------
(* Properties *)

\* On no path through a method, whichever allocation or check fails, is a pointer
\* freed that is not a live copy, or a NULL request used.  The two methods that
\* do not look at the result of addRequestToList() are known exceptions.
NoFault == faults # {} => call.method \in {"sendDeviceState", "setIndicationFilter"}

\* A method that returns has freed what it allocated, on every exit.  The copies
\* of the carrier's names are known to be lost (ril_service.cpp:2846), and of a
\* method that gives up on a truncated copy that copy alone may be lost
\* (ril_service.cpp:536): what was copied before it is freed.
NoLeak ==
  Returned => \A x \in DOMAIN ptr :
    ptr[x] = "live" => x \in truncated \/ call.method = "setCarrierInfoForImsiEncryption"

ClientListens ==
  Reached(Functions[setting][s_commands[call.request]].iface, setting.client, setting.oemHook)

\* A call is answered once and only once, by the method that gave up or by the
\* vendor's completion, whichever thread is first: never by both, never by none.
\* The calls known to have no answer are those for which no RequestInfo could be
\* allocated and those that gave up on a truncated copy (ril_service.cpp:536).
AnsweredOnce ==
  /\ Len(answers) <= 1
  /\ Returned /\ (handed => request = "freed") /\ request # "null" /\ truncated = {}
       /\ ClientListens
       => Len(answers) = 1

OwnCallback(method) ==
  CASE method = "hangup" -> "hangupConnection"
    [] method = "getImsiForApp" -> "getIMSIForApp"
    [] OTHER -> method

\* The answer to a call arrives at the callback of that call: the table of the
\* requests and the 130 response functions agree with the methods.  One response
\* function calls its neighbour's callback, and the answer to setSimCardPower
\* depends on the client's version, not on the call.
AnsweredAtOwnCallback ==
  answers # <<>> /\ call.method \notin {"hangupForegroundResumeBackground", "setSimCardPower",
                                        "setSimCardPower_1_1"}
    => answers[1].callback = OwnCallback(call.method)

ShapeOf(seen) ==
  IF seen.kind = "response" THEN Functions[setting][seen.name].shape
  ELSE IndicationFunctions[seen.name].shape

\* What a function accepts it does not read past: the test of the length is at
\* least as strict as the reads.  Two functions have a test that is too weak.
ReadsInsidePayload ==
  last.outcome = "taken" /\ last.name \notin {"getLastCallFailCause", "networkScanResult"}
    => Reads(ShapeOf(last), last.payload) <= last.payload.len

-----------------------------------------------------------------------------
(* What ril.h promises of the payloads, for the answers and reports that have  *)
(* one: the lengths it allows.                                                 *)

IntAnswers == {"getFacilityLockForApp", "getNetworkSelectionMode", "getMute", "getClip",
  "writeSmsToSim", "getPreferredNetworkType", "getCdmaRoamingPreference", "getTTYMode",
  "getPreferredVoicePrivacy", "writeSmsToRuim", "getCdmaSubscriptionSource",
  "getVoiceRadioTechnology", "setAllowedCarriers"}

DocumentedStructs ==
  [getClir |-> {Words(2)}, getCallWaiting |-> {Words(1), Words(2)},
   getImsRegistrationState |-> {Words(1), Words(2)},
   iccOpenLogicalChannel |-> {Words(1), Words(2)}, getOperator |-> {Words(3)},
   getDeviceIdentity |-> {Words(4)}, getCDMASubscription |-> {Words(5)},
   getIccCardStatus |-> {RIL_CardStatus_v6},
   getLastCallFailCause |-> {RIL_LastCallFailCauseInfo},
   getSignalStrength |-> {RIL_SignalStrength_v10}, sendSms |-> {RIL_SMS_Response},
   setupDataCall |-> {RIL_Data_Call_Response_v11}, iccIOForApp |-> {RIL_SIM_IO_Response},
   getDataCallList |-> {RIL_Data_Call_Response_v6, 2 * RIL_Data_Call_Response_v6},
   getAvailableNetworks |-> {Words(4)}, getCellInfoList |-> {RIL_CellInfo_v12},
   getHardwareConfig |-> {RIL_HardwareConfig}, getRadioCapability |-> {RIL_RadioCapability},
   pullLceData |-> {RIL_LceDataInfo}, getModemActivityInfo |-> {RIL_ActivityStatsInfo},
   getAllowedCarriers |-> {RIL_CarrierRestrictions}, startKeepalive |-> {RIL_KeepaliveStatus}]

DocumentedAnswers == Table(<<[f \in IntAnswers |-> {Words(1)}], DocumentedStructs>>)

\* a length of 0 stands for NULL
DocumentedReports ==
  [newSmsOnSim |-> {Words(1)}, onUssd |-> {Words(2)},
   currentSignalStrength |-> {RIL_SignalStrength_v10},
   suppSvcNotify |-> {RIL_SuppSvcNotification}, stkCallSetup |-> {Words(1)},
   callRing |-> {0, RIL_CDMA_SignalInfoRecord}, cdmaNewSms |-> {RIL_CDMA_SMS_Message},
   cdmaCallWaiting |-> {RIL_CDMA_CallWaiting_v6}, cdmaInfoRec |-> {RIL_CDMA_InformationRecords},
   cellInfoList |-> {RIL_CellInfo_v12}, hardwareConfigChanged |-> {RIL_HardwareConfig},
   radioCapabilityIndication |-> {RIL_RadioCapability},
   onSupplementaryServiceIndication |-> {RIL_StkCcUnsolSsResponse},
   lceData |-> {RIL_LceDataInfo}, pcoData |-> {RIL_PCO_Data},
   carrierInfoForImsiEncryption |-> {0}, networkScanResult |-> {RIL_NetworkScanResult}]

Documented(seen) ==
  /\ seen.error = "SUCCESS" /\ seen.payload.sane
  /\ \/ seen.kind = "response" /\ seen.name \in DOMAIN DocumentedAnswers
        /\ seen.payload.len \in DocumentedAnswers[seen.name]
     \/ seen.kind = "indication" /\ seen.name \in DOMAIN DocumentedReports
        /\ seen.payload.len \in DocumentedReports[seen.name]

\* A payload of the form that ril.h documents is never refused.
DocumentedIsTaken == Documented(last) => last.outcome # "refused"

\* The functions known to break it: three always, and the list of networks where
\* the property that counts its strings does not say what ril.h says.
KnownRefusals ==
  {"getCallWaiting", "getImsRegistrationState", "carrierInfoForImsiEncryption"}
  \cup (IF QanRespStrings = 4 THEN {} ELSE {"getAvailableNetworks"})

\* A payload of the form that ril.h documents is never refused, but by the four
\* functions that are known to.
DocumentedIsTakenButFour == last.name \notin KnownRefusals => DocumentedIsTaken

-----------------------------------------------------------------------------
(* Properties of the conversions *)

\* The signal the client sees is the one the modem measured: an unknown value
\* has the client's mark for it, a power is positive, and a buffer that the
\* vendor reports again, rewritten by the last conversion, still shows the same.
SignalFaithful ==
  report.kind = "signal" =>
    /\ report.shown.lte.signalStrength =
         IF report.sent.signalStrength = -1 THEN 99 ELSE report.sent.signalStrength
    /\ report.shown.lte.rsrp = CASE report.sent.rsrp = -1 -> INT_MAX
                                 [] report.sent.rsrp > 0 -> report.sent.rsrp
                                 [] OTHER -> -report.sent.rsrp
    /\ report.shown.lte.rsrq = IF report.sent.rsrq = -1 THEN INT_MAX ELSE report.sent.rsrq
    /\ report.shown.lte.cqi = IF report.sent.cqi = -1 THEN INT_MAX ELSE report.sent.cqi

\* A list of data calls is read with the layout the vendor wrote it in, though
\* nothing but its length tells the three apart.  True of lists of up to nine
\* calls: ten of the oldest layout are as long as nine of the next.
DataCallsFaithful ==
  report.kind = "dataCalls" /\ report.n > 0 =>
    report.shown = [layout |-> report.layout, num |-> report.n]

\* A registered cell is shown in the one vector of its technology, with every
\* number the vendor gave and -1 for the others, the first and second entry read
\* as hexadecimal and the rest as decimal (ril_service.cpp:3657).
CellsFaithful ==
  /\ report.kind \in {"voice", "data"} =>
       /\ Cardinality(report.shown.vectors) = IF report.rat = "UNKNOWN" THEN 0 ELSE 1
       /\ \A f \in DOMAIN report.shown.set :
            LET n == report.shown.set[f]
            IN  n # Unset => n.entry \in report.strings
                             /\ n.base = IF n.entry \in {1, 2} THEN 16 ELSE 10
       /\ report.kind = "voice" /\ report.rat # "UNKNOWN" =>
            {report.shown.set[f] : f \in DOMAIN report.shown.set} \ {Unset} # {}
  /\ report.kind = "cells" =>
       \A i \in DOMAIN report.shown : report.shown[i].vectors \subseteq {report.sent[i]}
                                      /\ Cardinality(report.shown[i].vectors) <= 1

\* No count or length that comes from the other side leads past an array: the
\* records, the addresses, the bearer data and the call forwarding entries; and
\* a message within the limits survives the way to the vendor and back.
LengthsClamped ==
  /\ report.kind = "infoRecs" =>
       /\ report.shown.read <= RIL_CDMA_MAX_NUMBER_OF_INFO_RECS
       /\ report.shown.sent => \A i \in 1 .. report.shown.read :
            report.recs[i].name \in {"number", "redir"} => report.recs[i].len <= 81
  /\ report.kind = "sms" =>
       /\ report.msg.digitsCopied <= 36 /\ report.msg.bearerCopied <= 255
       /\ report.shown.digits <= 36 /\ report.shown.bearer <= 255
       /\ report.digits <= 36 => report.shown.digits = report.digits
       /\ report.bearer <= 255 => report.shown.bearer = report.bearer
  /\ report.kind = "ss" => report.shown.cfData <= 7

(***************************************************************************)
(* The inductive invariants behind the theorems of RilRequestsProofs.      *)
(***************************************************************************)

\* What a method may rely on of a program, read off its steps alone.

Allocates(step) ==
  step.op \in {"calloc", "new", "copy", "copyOrEmpty", "copyChars", "copyCharsOrEmpty"}
Exits(step) ==
  step.op \in {"check", "fail", "calloc", "copy", "copyOrEmpty", "copyChars", "copyCharsOrEmpty"}

\* the pointers that hold a copy when step i is reached, and those still undefined
Allocated(steps, i) == {steps[j].x : j \in {k \in 1 .. i - 1 : Allocates(steps[k])}}
Undefined(steps, i) ==
  (UNION {steps[j].frees : j \in {k \in 1 .. i - 1 : steps[k].op = "junk"}}) \ Allocated(steps, i)

\* The request is listed first and handed to the vendor last, but for the frees;
\* a method that goes on with a NULL request only fails.
GoodOrder(steps) ==
  /\ Len(steps) \in Nat \ {0}
  /\ steps[1].op \in {"add", "addUnchecked"}
  /\ steps[1].op = "addUnchecked" => Len(steps) = 2 /\ steps[2].op = "fail"
  /\ steps[Len(steps)].op \in {"onRequest", "free", "fail"}
  /\ \A i \in 1 .. Len(steps) :
       /\ i > 1 => steps[i].op \notin {"add", "addUnchecked"}
       /\ steps[i].op = "onRequest" =>
            i = Len(steps) \/ (i + 1 = Len(steps) /\ steps[i + 1].op = "free")
       /\ steps[i].op = "free" => i = Len(steps) /\ i > 1 /\ steps[i - 1].op = "onRequest"

\* What an exit frees was copied before or is NULL, and is all that was copied.
GoodFrees(steps) ==
  \A i \in 1 .. Len(steps) :
    /\ steps[i].op = "junk" => Allocated(steps, i) = {}
    /\ Exits(steps[i]) \/ steps[i].op = "free" => steps[i].frees \cap Undefined(steps, i) = {}
    /\ Exits(steps[i]) => Allocated(steps, i) \subseteq steps[i].frees

\* The way that has no failure ends without a copy.
FreesAll(steps) ==
  LET n == Len(steps)
  IN  /\ steps[n].op = "onRequest" => Allocated(steps, n) = {}
      /\ steps[n].op = "free" => Allocated(steps, n) \subseteq steps[n].frees

GoodProgram(method, p) ==
  /\ GoodOrder(p.steps)
  /\ GoodFrees(p.steps)
  /\ method # "setCarrierInfoForImsiEncryption" => FreesAll(p.steps)
  /\ p.steps[1].op = "addUnchecked" => method \in {"sendDeviceState", "setIndicationFilter"}

OtherCallback == {"hangupForegroundResumeBackground", "setSimCardPower"}

\* The request has a response function, and it is the method's own.
GoodRequest(method, p) ==
  LET name == s_commands[p.request]
  IN  /\ \A s \in Settings : name \in DOMAIN Functions[s]
      /\ method \notin OtherCallback \cup {"setSimCardPower_1_1"} =>
           name = OwnCallback(method) /\ name \notin OtherCallback

\* The call is one of those a client can make, and nothing is left between calls.
CallInv ==
  /\ setting \in Settings
  /\ call = NoCall => /\ pc = 1 /\ ptr = << >> /\ request = "none" /\ ~handed
                      /\ truncated = {} /\ answers = <<>> /\ faults = {}
  /\ call # NoCall => GoodProgram(call.method, call) /\ GoodRequest(call.method, call)

\* How far the request has come, and who has answered it.
ProgressInv ==
  call # NoCall =>
    /\ pc \in 1 .. Len(call.steps) + 1
    /\ (pc = 1) = (request = "none")
    /\ request \in (IF handed THEN {"listed", "freed"} ELSE {"none", "listed", "null"})
    /\ Running \/ handed => truncated = {}
    /\ handed => pc > Len(call.steps) \/ call.steps[pc].op = "free"
    /\ Running /\ ~handed => /\ answers = <<>>
                             /\ \A i \in 1 .. pc - 1 : call.steps[i].op # "onRequest"
                             /\ request = "null" => call.steps[1].op = "addUnchecked"
    /\ handed /\ request = "listed" => answers = <<>>
    /\ Len(answers) <= 1
    /\ ClientListens /\ (request = "freed" \/ (Returned /\ request = "listed" /\ ~handed))
       /\ truncated = {}
         => Len(answers) = 1

\* Every answer comes from the response function of the request.
AnswersInv ==
  answers # <<>> => answers[1].callback = Functions[setting][s_commands[call.request]].callback

\* What a pointer holds is what the steps behind have left there.
HeapInv ==
  /\ \A x \in DOMAIN ptr : ptr[x] \in {"live", "junk", "freed"}
  /\ Running => \A x \in DOMAIN ptr :
       /\ ptr[x] = "live" => x \in Allocated(call.steps, pc)
       /\ ptr[x] = "junk" => x \in Undefined(call.steps, pc)
       /\ ptr[x] # "freed"
  /\ NoLeak /\ NoFault

\* The buffer of a signal report is rewritten once and for all.
SignalInv ==
  report.kind = "signal" =>
    /\ report.sent \in LteValues
    /\ report.buffer = fixupLte(report.sent) /\ report.shown.lte = fixupLte(report.sent)

Inv == CallInv /\ ProgressInv /\ AnswersInv /\ HeapInv
============================================================================
