------------------------- MODULE RilRequestsProofs --------------------------
(***************************************************************************)
(* Proofs about the requests and the indications, for any version of the   *)
(* vendor, any client and payloads of any length: about the functions that *)
(* look at a payload, about the programs of the methods, and about every   *)
(* way through them.                                                       *)
(***************************************************************************)
EXTENDS RilRequests, FiniteSetTheorems, TLAPS

-----------------------------------------------------------------------------
(***************************************************************************)
(* Payloads                                                                *)
(***************************************************************************)

AnyPayload == [null : BOOLEAN, len : Nat, sane : BOOLEAN]

\* What a function of this shape takes it does not read past.
Sound(sh) ==
  \A p \in AnyPayload : ~p.null /\ p.len > 0 /\ ~Refuses(sh, p) => Reads(sh, p) <= p.len

\* A payload of one of the lengths is taken.
Takes(sh, lengths) == \A len \in lengths : ~Refuses(sh, Payload(FALSE, len, TRUE))

\* The fields of a payload and of a shape.
LEMMA PayloadFields ==
  ASSUME NEW len
  PROVE  LET p == Payload(FALSE, len, TRUE)
         IN  ~p.null /\ p.len = len /\ p.sane
BY DEF Payload

\* The fields of a shape.
LEMMA ShapeFields ==
  ASSUME NEW kind, NEW size, NEW layouts
  PROVE  LET sh == Shape(kind, size, layouts)
         IN  sh.kind = kind /\ sh.size = size /\ sh.layouts = layouts
BY DEF Shape

\* Shapes that are taken by the exact length, or read as far as the payload goes.
LEMMA SoundKinds ==
  ASSUME NEW sh,
         sh.kind \in {"nothing", "struct", "structOrNull", "list", "bytes", "checkedStruct",
                      "checkedList", "hex", "ring"}
  PROVE  Sound(sh)
  <1> SUFFICES ASSUME NEW p \in AnyPayload, ~p.null, p.len > 0, ~Refuses(sh, p)
               PROVE  Reads(sh, p) <= p.len
    BY DEF Sound
  <1>1. p.len \in Nat
    BY DEF AnyPayload
  <1>2. Reads(sh, p) \in {0, p.len}
    BY DEF Reads
  <1>3. QED
    BY <1>1, <1>2

\* Shapes that are tested for a whole number of ints, or for a minimum.
LEMMA SoundTested ==
  ASSUME NEW sh, NEW n \in Nat, sh.size = n,
         \/ sh.kind = "atLeast"
         \/ sh.kind \in {"int", "intOrEmpty", "channel"} /\ n = 4
         \/ sh.kind \in {"text", "nonEmpty"} /\ n <= 1
  PROVE  Sound(sh)
  <1> SUFFICES ASSUME NEW p \in AnyPayload, ~p.null, p.len > 0, ~Refuses(sh, p)
               PROVE  Reads(sh, p) <= p.len
    BY DEF Sound
  <1>1. p.len \in Nat
    BY DEF AnyPayload
  <1>2. sh.kind = "channel" => p.len % 4 = 0 /\ Reads(sh, p) \in {4, p.len} /\ 4 <= p.len
    BY <1>1 DEF Refuses, Reads
  <1>3. sh.kind \in {"int", "intOrEmpty"} => p.len % 4 = 0 /\ Reads(sh, p) = 4
    BY <1>1 DEF Refuses, Reads
  <1>4. sh.kind = "atLeast" => p.len >= n /\ Reads(sh, p) = n
    BY <1>1 DEF Refuses, Reads
  <1>5. sh.kind \in {"text", "nonEmpty"} => Reads(sh, p) = n
    BY <1>1 DEF Reads
  <1>6. QED
    BY <1>1, <1>2, <1>3, <1>4, <1>5

\* The sizes of the three layouts of a data call.
LEMMA DataCallSizes ==
  /\ RIL_Data_Call_Response_v6 = 36
  /\ RIL_Data_Call_Response_v9 = 40
  /\ RIL_Data_Call_Response_v11 = 44
BY DEF RIL_Data_Call_Response_v6, RIL_Data_Call_Response_v9, RIL_Data_Call_Response_v11, Words

\* The layout that is chosen divides the length.
LEMMA LayoutDivides ==
  ASSUME NEW len \in Nat, len > 0, Divides(DataCallLayouts, len)
  PROVE  DataCallLayout(len) <= len
  <1>1. len % 44 = 0 \/ len % 40 = 0 \/ len % 36 = 0
    BY DataCallSizes DEF Divides, DataCallLayouts
  <1>2. CASE len % 44 = 0
    BY <1>2, DataCallSizes DEF DataCallLayout
  <1>3. CASE len % 44 # 0 /\ len % 40 = 0
    BY <1>3, DataCallSizes DEF DataCallLayout
  <1>4. CASE len % 44 # 0 /\ len % 40 # 0
    BY <1>1, <1>4, DataCallSizes DEF DataCallLayout
  <1>5. QED
    BY <1>2, <1>3, <1>4

\* A data call is read with the layout that divides the length.
LEMMA SoundDataCall == Sound(DataCall)
  <1> SUFFICES ASSUME NEW p \in AnyPayload, ~p.null, p.len > 0, ~Refuses(DataCall, p)
               PROVE  Reads(DataCall, p) <= p.len
    BY DEF Sound
  <1>1. DataCall.kind = "dataCall" /\ DataCall.layouts = DataCallLayouts
    BY ShapeFields DEF DataCall
  <1>2. Divides(DataCallLayouts, p.len) /\ Reads(DataCall, p) = DataCallLayout(p.len)
    BY <1>1 DEF Refuses, Reads
  <1>3. QED
    BY <1>2, LayoutDivides DEF AnyPayload

\* All the shapes there are, but for the one that reads too far.
LEMMA SoundShapes ==
  /\ Sound(Nothing) /\ Sound(Text) /\ Sound(OneInt) /\ Sound(IntOrEmpty) /\ Sound(Bytes)
  /\ Sound(CardStatus) /\ Sound(Networks) /\ Sound(ChannelId) /\ Sound(HexString) /\ Sound(Ring)
  /\ Sound(InfoRecords) /\ Sound(DataCall) /\ Sound(SendSmsResult) /\ Sound(IccIo)
  /\ Sound(NonEmpty(0)) /\ Sound(NonEmpty(1))
  /\ \A n \in Nat : Sound(Ints(n)) /\ Sound(Strings(n))
  /\ \A sizes : Sound(OneOf(sizes)) /\ Sound(OneOfOrNull(sizes)) /\ Sound(ListOf(sizes))
  <1>1. \A sizes : Sound(OneOf(sizes)) /\ Sound(OneOfOrNull(sizes)) /\ Sound(ListOf(sizes))
    BY SoundKinds, ShapeFields DEF OneOf, OneOfOrNull, ListOf
  <1>2. /\ Sound(Nothing) /\ Sound(Bytes) /\ Sound(CardStatus) /\ Sound(Networks)
        /\ Sound(HexString) /\ Sound(Ring) /\ Sound(InfoRecords)
    BY SoundKinds, ShapeFields
       DEF Nothing, Bytes, CardStatus, Networks, HexString, Ring, InfoRecords
  <1>3. Sound(SendSmsResult) /\ Sound(IccIo)
    BY <1>1 DEF SendSmsResult, IccIo
  <1>4. \A n \in Nat : Words(n) \in Nat
    BY DEF Words
  <1>5. Words(1) = 4
    BY DEF Words
  <1>6. \A n \in Nat : Sound(Ints(n)) /\ Sound(Strings(n))
    BY <1>4, SoundTested, ShapeFields DEF Ints, Strings
  <1>7. Sound(OneInt) /\ Sound(IntOrEmpty) /\ Sound(ChannelId)
    BY <1>5, SoundTested, ShapeFields DEF OneInt, IntOrEmpty, ChannelId
  <1>8. Sound(Text) /\ Sound(NonEmpty(0)) /\ Sound(NonEmpty(1))
    BY SoundTested, ShapeFields DEF Text, NonEmpty
  <1>9. QED
    BY <1>1, <1>2, <1>3, <1>6, <1>7, <1>8, SoundDataCall

\* The shapes take what ril.h documents.
LEMMA TakesStructs ==
  ASSUME NEW sizes
  PROVE  Takes(OneOf(sizes), sizes) /\ Takes(OneOfOrNull(sizes), sizes)
  <1>1. ASSUME NEW sh, sh.kind \in {"struct", "structOrNull"}, sh.layouts = sizes
        PROVE  Takes(sh, sizes)
    BY <1>1, PayloadFields DEF Takes, Refuses
  <1>2. QED
    BY <1>1, ShapeFields DEF OneOf, OneOfOrNull

\* Lists of one and of two entries are taken.
LEMMA TakesLists ==
  ASSUME NEW size \in Nat \ {0}, NEW sh, sh.kind \in {"list", "dataCall", "checkedList"},
         size \in sh.layouts
  PROVE  Takes(sh, {size, 2 * size})
  <1>1. size % size = 0 /\ (2 * size) % size = 0
    OBVIOUS
  <1>2. QED
    BY <1>1, PayloadFields DEF Takes, Refuses, Divides

\* Arrays of n integers or strings are taken where at most n are asked for.
LEMMA TakesWords ==
  ASSUME NEW n \in Nat
  PROVE  /\ Takes(OneInt, {Words(n)}) /\ Takes(IntOrEmpty, {Words(n)})
         /\ Takes(ChannelId, {Words(n)})
         /\ \A m \in 0 .. n : Takes(Ints(m), {Words(n)}) /\ Takes(Strings(m), {Words(n)})
  <1>1. Words(n) % 4 = 0 /\ \A m \in 0 .. n : ~(Words(n) < Words(m))
    BY DEF Words
  <1>2. ASSUME NEW sh, sh.kind \in {"int", "intOrEmpty", "channel"}
        PROVE  Takes(sh, {Words(n)})
    BY <1>1, <1>2, PayloadFields DEF Takes, Refuses
  <1>3. ASSUME NEW sh, NEW m \in 0 .. n, sh.kind = "atLeast", sh.size = Words(m)
        PROVE  Takes(sh, {Words(n)})
    BY <1>1, <1>3, PayloadFields DEF Takes, Refuses
  <1>4. Takes(OneInt, {Words(n)}) /\ Takes(IntOrEmpty, {Words(n)}) /\ Takes(ChannelId, {Words(n)})
    BY <1>2, ShapeFields DEF OneInt, IntOrEmpty, ChannelId
  <1>5. QED
    BY <1>3, <1>4, ShapeFields DEF Ints, Strings

-----------------------------------------------------------------------------
(***************************************************************************)
(* Response functions                                                      *)
(***************************************************************************)

\* A function of this shape takes what is documented for the name f.
TakesDocumented(f, sh) ==
  /\ f \in IntAnswers => Takes(sh, {Words(1)})
  /\ f \in DOMAIN DocumentedStructs /\ f \notin KnownRefusals => Takes(sh, DocumentedStructs[f])

\* What the three properties ask of a response function.
GoodResponse(f, fn) ==
  /\ f \notin OtherCallback => fn.callback = f
  /\ f # "getLastCallFailCause" => Sound(fn.shape)
  /\ TakesDocumented(f, fn.shape)

GoodResponses(t) == \A f \in DOMAIN t : GoodResponse(f, t[f])

\* The rows of a table are those of its parts.
LEMMA TableRows ==
  ASSUME NEW parts
  PROVE  /\ \A f \in DOMAIN Table(parts) : \E i \in DOMAIN parts :
                f \in DOMAIN parts[i] /\ Table(parts)[f] = parts[i][f]
         /\ \A i \in DOMAIN parts : DOMAIN parts[i] \subseteq DOMAIN Table(parts)
  <1>1. ASSUME NEW f \in DOMAIN Table(parts)
        PROVE  \E i \in DOMAIN parts : f \in DOMAIN parts[i] /\ Table(parts)[f] = parts[i][f]
    <2> DEFINE i == CHOOSE i \in DOMAIN parts : f \in DOMAIN parts[i]
    <2>1. i \in DOMAIN parts /\ f \in DOMAIN parts[i]
      BY DEF Table
    <2>2. Table(parts)[f] = parts[i][f]
      BY DEF Table
    <2>3. QED
      BY <2>1, <2>2
  <1>2. \A i \in DOMAIN parts : DOMAIN parts[i] \subseteq DOMAIN Table(parts)
    BY DEF Table
  <1>3. QED
    BY <1>1, <1>2

\* A table of good parts is good.
LEMMA TableResponses ==
  ASSUME NEW parts, \A i \in DOMAIN parts : GoodResponses(parts[i])
  PROVE  GoodResponses(Table(parts))
BY TableRows DEF GoodResponses

\* The functions that call the method of their own name.
LEMMA OwnResponses ==
  ASSUME NEW sh, NEW names, Sound(sh), \A f \in names : TakesDocumented(f, sh)
  PROVE  /\ GoodResponses(Own(sh, names))
         /\ GoodResponses(OwnV1_1(sh, names))
         /\ GoodResponses(OwnOemHook(sh, names))
BY DEF GoodResponses, GoodResponse, Own, OwnV1_1, OwnOemHook, Fn

\* Functions that do not look at the length take everything.
LEMMA LooseResponses ==
  ASSUME NEW names
  PROVE  /\ GoodResponses(Own(Nothing, names)) /\ GoodResponses(Own(Text, names))
         /\ GoodResponses(OwnV1_1(Nothing, names))
  <1>1. ASSUME NEW sh, sh.kind \in {"nothing", "text"}
        PROVE  \A f : TakesDocumented(f, sh)
    BY <1>1 DEF TakesDocumented, Takes, Refuses
  <1>2. \A f : TakesDocumented(f, Nothing) /\ TakesDocumented(f, Text)
    BY <1>1, ShapeFields DEF Nothing, Text
  <1>3. QED
    BY <1>2, SoundShapes, OwnResponses

\* Nothing is documented of the payload.
LEMMA PlainResponses ==
  ASSUME NEW sh, NEW names, Sound(sh),
         names \cap IntAnswers = {}, names \cap DOMAIN DocumentedStructs = {}
  PROVE  /\ GoodResponses(Own(sh, names))
         /\ GoodResponses(OwnV1_1(sh, names))
         /\ GoodResponses(OwnOemHook(sh, names))
  <1>1. \A f \in names : TakesDocumented(f, sh)
    BY DEF TakesDocumented
  <1>2. QED
    BY <1>1, OwnResponses

\* The answers that are one int.
LEMMA IntResponses ==
  ASSUME NEW names, names \cap DOMAIN DocumentedStructs = {}
  PROVE  GoodResponses(Own(OneInt, names)) /\ GoodResponses(Own(Ints(1), names))
  <1>1. Takes(OneInt, {Words(1)}) /\ Takes(Ints(1), {Words(1)})
    BY TakesWords
  <1>2. \A f \in names : TakesDocumented(f, OneInt) /\ TakesDocumented(f, Ints(1))
    BY <1>1 DEF TakesDocumented
  <1>3. QED
    BY <1>2, OwnResponses, SoundShapes

\* The answers of a documented form, of those functions that take it.
LEMMA DocumentedResponses ==
  /\ TakesDocumented("getIccCardStatus", CardStatus)
  /\ TakesDocumented("getLastCallFailCause", FailCause)
  /\ TakesDocumented("getSignalStrength", OneOf({RIL_SignalStrength_v8, RIL_SignalStrength_v10}))
  /\ TakesDocumented("getOperator", Strings(3))
  /\ TakesDocumented("sendSms", SendSmsResult)
  /\ TakesDocumented("setupDataCall", DataCall)
  /\ TakesDocumented("iccIOForApp", IccIo)
  /\ TakesDocumented("getClir", Ints(2))
  /\ TakesDocumented("getAvailableNetworks", Networks)
  /\ TakesDocumented("getDataCallList", ListOf(DataCallLayouts))
  /\ TakesDocumented("getCDMASubscription", Strings(5))
  /\ TakesDocumented("getDeviceIdentity", Strings(4))
  /\ TakesDocumented("getCellInfoList", ListOf({RIL_CellInfo_v12}))
  /\ TakesDocumented("iccOpenLogicalChannel", ChannelId)
  /\ TakesDocumented("getHardwareConfig", ListOf({RIL_HardwareConfig}))
  /\ TakesDocumented("getRadioCapability", OneOf({RIL_RadioCapability}))
  /\ TakesDocumented("pullLceData", OneOf({RIL_LceDataInfo}))
  /\ TakesDocumented("getModemActivityInfo", OneOf({RIL_ActivityStatsInfo}))
  /\ TakesDocumented("getAllowedCarriers", OneOfOrNull({RIL_CarrierRestrictions}))
  /\ TakesDocumented("startKeepalive", OneOf({RIL_KeepaliveStatus}))
  <1>1. ASSUME NEW f \in DOMAIN DocumentedStructs, NEW sh, Takes(sh, DocumentedStructs[f])
        PROVE  TakesDocumented(f, sh)
    BY <1>1 DEF TakesDocumented, IntAnswers, DocumentedStructs
  <1>11. TakesDocumented("getAvailableNetworks", Networks)
    <2>1. CASE QanRespStrings = 4
      <3>1. Words(4) \in Nat \ {0}
        BY DEF Words
      <3>2. Takes(Shape("checkedList", 0, {Words(4)}), {Words(4), 2 * Words(4)})
        <4>1. /\ Shape("checkedList", 0, {Words(4)}).kind = "checkedList"
              /\ Words(4) \in Shape("checkedList", 0, {Words(4)}).layouts
          BY ShapeFields
        <4>2. QED
          BY <3>1, <4>1, TakesLists
      <3>3. Takes(Networks, {Words(4)})
        BY <2>1, <3>2 DEF Networks, Takes
      <3>4. QED
        BY <1>1, <3>3 DEF DocumentedStructs
    <2>2. CASE QanRespStrings # 4
      BY <2>2 DEF TakesDocumented, KnownRefusals, IntAnswers
    <2>3. QED
      BY <2>1, <2>2
  <1>2. ASSUME NEW sh, NEW sizes, NEW len \in sizes, sh.layouts = sizes,
               sh.kind \in {"checkedStruct", "failCause"}
        PROVE  Takes(sh, {len})
    BY <1>2, PayloadFields DEF Takes, Refuses
  <1>3. Takes(CardStatus, {RIL_CardStatus_v6}) /\ Takes(FailCause, {RIL_LastCallFailCauseInfo})
    BY <1>2, ShapeFields, SMTT(30) DEF CardStatus, FailCause
  <1>4. ASSUME NEW sizes, NEW len \in sizes
        PROVE  Takes(OneOf(sizes), {len}) /\ Takes(OneOfOrNull(sizes), {len})
    BY TakesStructs DEF Takes
  <1>5. /\ Takes(OneOf({RIL_SignalStrength_v8, RIL_SignalStrength_v10}), {RIL_SignalStrength_v10})
        /\ Takes(SendSmsResult, {RIL_SMS_Response})
        /\ Takes(IccIo, {RIL_SIM_IO_Response})
        /\ Takes(OneOf({RIL_RadioCapability}), {RIL_RadioCapability})
        /\ Takes(OneOf({RIL_LceDataInfo}), {RIL_LceDataInfo})
        /\ Takes(OneOf({RIL_ActivityStatsInfo}), {RIL_ActivityStatsInfo})
        /\ Takes(OneOfOrNull({RIL_CarrierRestrictions}), {RIL_CarrierRestrictions})
        /\ Takes(OneOf({RIL_KeepaliveStatus}), {RIL_KeepaliveStatus})
    BY <1>4 DEF SendSmsResult, IccIo
  <1>6. /\ Takes(Strings(3), {Words(3)}) /\ Takes(Strings(4), {Words(4)})
        /\ Takes(Strings(5), {Words(5)}) /\ Takes(Ints(2), {Words(2)})
        /\ Takes(ChannelId, {Words(1), Words(2)})
    <2>1. Takes(ChannelId, {Words(1)}) /\ Takes(ChannelId, {Words(2)})
      BY TakesWords
    <2>2. Takes(ChannelId, {Words(1), Words(2)})
      BY <2>1 DEF Takes
    <2>3. QED
      BY <2>2, TakesWords
  <1>7. RIL_CellInfo_v12 \in Nat \ {0} /\ RIL_HardwareConfig \in Nat \ {0}
    BY DEF Words, RIL_CellInfo_v12, RIL_CellIdentity_v12, RIL_LTE_SignalStrength_v8,
           RIL_HardwareConfig, MAX_UUID_LENGTH, Larger
  <1>8. /\ Takes(ListOf({RIL_CellInfo_v12}), {RIL_CellInfo_v12})
        /\ Takes(ListOf({RIL_HardwareConfig}), {RIL_HardwareConfig})
    <2>1. ASSUME NEW size \in Nat \ {0}
          PROVE  Takes(ListOf({size}), {size, 2 * size})
      <3>1. ListOf({size}).kind = "list" /\ size \in ListOf({size}).layouts
        BY ShapeFields DEF ListOf
      <3>2. QED
        BY <3>1, TakesLists
    <2>2. \A size \in Nat \ {0} : Takes(ListOf({size}), {size})
      BY <2>1 DEF Takes
    <2>3. QED
      BY <1>7, <2>2
  <1>9. /\ Takes(DataCall, {RIL_Data_Call_Response_v11})
        /\ Takes(ListOf(DataCallLayouts),
                  {RIL_Data_Call_Response_v6, 2 * RIL_Data_Call_Response_v6})
    <2>1. Takes(DataCall, {RIL_Data_Call_Response_v11, 2 * RIL_Data_Call_Response_v11})
      BY DataCallSizes, TakesLists, ShapeFields DEF DataCall, DataCallLayouts
    <2>2. Takes(DataCall, {RIL_Data_Call_Response_v11})
      BY <2>1 DEF Takes
    <2>3. QED
      BY <2>2, DataCallSizes, TakesLists, ShapeFields DEF ListOf, DataCallLayouts
  <1>10. QED
    BY <1>1, <1>3, <1>5, <1>6, <1>8, <1>9, <1>11 DEF DocumentedStructs

\* The tables of the response functions, one after the other: the status of the
\* SIM.
LEMMA GoodSimStatus == GoodResponses(SimStatusResponses)
BY DocumentedResponses, OwnResponses, PlainResponses, TableResponses, SoundShapes
   DEF SimStatusResponses, DocumentedStructs, IntAnswers

\* The changes of a PIN and the calls that go on.
LEMMA GoodSimPin == GoodResponses(SimPinResponses)
BY LooseResponses, PlainResponses, TableResponses, SoundShapes
   DEF SimPinResponses, DocumentedStructs, IntAnswers

\* Making and ending calls; one function answers at the callback of another.
LEMMA GoodCall == GoodResponses(CallResponses)
  <1>1. GoodResponses(Row("hangupForegroundResumeBackground",
                          Fn("hangupWaitingOrBackground", Nothing, "V1_0")))
    BY LooseResponses
       DEF GoodResponses, GoodResponse, Row, Fn, Own, OtherCallback
  <1>2. QED
    BY <1>1, LooseResponses, TableResponses DEF CallResponses

\* The state of the calls.
LEMMA GoodCallState == GoodResponses(CallStateResponses)
  <1>1. GoodResponses(Own(FailCause, {"getLastCallFailCause"}))
    BY DocumentedResponses DEF GoodResponses, GoodResponse, Own, Fn
  <1>2. QED
    BY <1>1, DocumentedResponses, OwnResponses, TableResponses, SoundShapes DEF CallStateResponses

\* The registration, for any version of the vendor.
LEMMA GoodRegistration ==
  ASSUME NEW version \in Nat
  PROVE  GoodResponses(RegistrationResponses(version))
  <1>1. \A n \in Nat : \A size : Sound(RegistrationState(version, n, size))
    BY SoundShapes DEF RegistrationState
  <1>2. QED
    BY <1>1, PlainResponses, TableResponses DEF RegistrationResponses, DocumentedStructs, IntAnswers

\* Short messages.
LEMMA GoodSms == GoodResponses(SmsResponses)
  <1>1. TakesDocumented("sendSMSExpectMore", SendSmsResult)
    BY DEF TakesDocumented, DocumentedStructs, IntAnswers
  <1>2. QED
    BY <1>1, DocumentedResponses, OwnResponses, LooseResponses, TableResponses, SoundShapes
       DEF SmsResponses

\* Setting up a data call.
LEMMA GoodDataCall == GoodResponses(DataCallResponses)
BY DocumentedResponses, OwnResponses, LooseResponses, TableResponses, SoundShapes
   DEF DataCallResponses

\* The identity of the caller and call forwarding.
LEMMA GoodClir == GoodResponses(ClirResponses)
  <1>1. TakesDocumented("getCallWaiting", Ints(2))
    BY DEF TakesDocumented, KnownRefusals, IntAnswers
  <1>2. GoodResponses(Own(ListOf({Words(1)}), {"getCallForwardStatus"}))
    BY PlainResponses, SoundShapes DEF DocumentedStructs, IntAnswers
  <1>3. QED
    BY <1>1, <1>2, DocumentedResponses, OwnResponses, LooseResponses, TableResponses, SoundShapes
       DEF ClirResponses

\* Call waiting and the lock of a facility.
LEMMA GoodCallWaiting == GoodResponses(CallWaitingResponses)
BY LooseResponses, IntResponses, PlainResponses, TableResponses, SoundShapes
   DEF CallWaitingResponses, DocumentedStructs, IntAnswers

\* The choice of a network.
LEMMA GoodNetworkSelection == GoodResponses(NetworkSelectionResponses)
BY DocumentedResponses, OwnResponses, LooseResponses, IntResponses, TableResponses, SoundShapes
   DEF NetworkSelectionResponses, DocumentedStructs

\* Tones and muting.
LEMMA GoodTone == GoodResponses(ToneResponses)
BY LooseResponses, IntResponses, TableResponses DEF ToneResponses, DocumentedStructs

\* The list of the data calls.
LEMMA GoodDataList == GoodResponses(DataListResponses)
BY DocumentedResponses, OwnResponses, LooseResponses, IntResponses, PlainResponses,
   TableResponses, SoundShapes
   DEF DataListResponses, DocumentedStructs, IntAnswers

\* The SIM toolkit.
LEMMA GoodStk == GoodResponses(StkResponses)
BY LooseResponses, IntResponses, TableResponses DEF StkResponses, DocumentedStructs

\* The preferences of CDMA.
LEMMA GoodCdmaPreference == GoodResponses(CdmaPreferenceResponses)
BY LooseResponses, IntResponses, PlainResponses, TableResponses, SoundShapes
   DEF CdmaPreferenceResponses, DocumentedStructs, IntAnswers

\* The text telephone and voice privacy.
LEMMA GoodTty == GoodResponses(TtyResponses)
BY LooseResponses, IntResponses, PlainResponses, TableResponses, SoundShapes
   DEF TtyResponses, DocumentedStructs, IntAnswers

\* Cell broadcasts.
LEMMA GoodBroadcast == GoodResponses(BroadcastResponses)
BY LooseResponses, PlainResponses, TableResponses, SoundShapes
   DEF BroadcastResponses, DocumentedStructs, IntAnswers

\* The CDMA subscription.
LEMMA GoodCdmaSubscription == GoodResponses(CdmaSubscriptionResponses)
BY DocumentedResponses, OwnResponses, LooseResponses, IntResponses, TableResponses, SoundShapes
   DEF CdmaSubscriptionResponses, DocumentedStructs

\* The identity of the device and the SMSC address.
LEMMA GoodDeviceIdentity == GoodResponses(DeviceIdentityResponses)
BY DocumentedResponses, OwnResponses, LooseResponses, TableResponses, SoundShapes
   DEF DeviceIdentityResponses

\* The list of the cells.
LEMMA GoodCellInfo == GoodResponses(CellInfoResponses)
  <1>1. GoodResponses(Own(IccIo, {"sendEnvelopeWithStatus"}))
    BY PlainResponses, SoundShapes DEF DocumentedStructs, IntAnswers
  <1>2. GoodResponses(Own(OneInt, {"getCdmaSubscriptionSource", "getVoiceRadioTechnology"}))
    BY IntResponses DEF DocumentedStructs
  <1>3. GoodResponses(Own(ListOf({RIL_CellInfo_v12}), {"getCellInfoList"}))
    BY DocumentedResponses, OwnResponses, SoundShapes
  <1>4. QED
    BY <1>1, <1>2, <1>3, LooseResponses, TableResponses DEF CellInfoResponses

\* The registration with IMS and its messages.
LEMMA GoodIms == GoodResponses(ImsResponses)
  <1>1. TakesDocumented("getImsRegistrationState", Ints(2))
    BY DEF TakesDocumented, KnownRefusals, IntAnswers
  <1>2. GoodResponses(Own(Ints(2), {"getImsRegistrationState"}))
    BY <1>1, OwnResponses, SoundShapes
  <1>3. QED
    BY <1>2, LooseResponses, PlainResponses, TableResponses, SoundShapes
       DEF ImsResponses, DocumentedStructs, IntAnswers

\* The channels to the SIM.
LEMMA GoodIccChannel == GoodResponses(IccChannelResponses)
  <1>1. GoodResponses(Own(IccIo, {"iccTransmitApduLogicalChannel"}))
    BY PlainResponses, SoundShapes DEF DocumentedStructs, IntAnswers
  <1>2. QED
    BY <1>1, DocumentedResponses, OwnResponses, LooseResponses, TableResponses, SoundShapes
       DEF IccChannelResponses

\* The non-volatile memory and the subscription of a UICC.
LEMMA GoodNv == GoodResponses(NvResponses)
  <1>1. GoodResponses(Own(IccIo, {"requestIccSimAuthentication"}))
    BY PlainResponses, SoundShapes DEF DocumentedStructs, IntAnswers
  <1>2. QED
    BY <1>1, DocumentedResponses, OwnResponses, LooseResponses, TableResponses, SoundShapes
       DEF NvResponses

\* The capability of the radio and the service of the link capacity.
LEMMA GoodCapability == GoodResponses(CapabilityResponses)
  <1>1. TakesDocumented("setRadioCapability", OneOf({RIL_RadioCapability}))
    BY DEF TakesDocumented, DocumentedStructs, IntAnswers
  <1>2. GoodResponses(Own(OneOf({RIL_LceStatusInfo}), {"startLceService", "stopLceService"}))
    BY PlainResponses, SoundShapes DEF DocumentedStructs, IntAnswers
  <1>3. QED
    BY <1>1, <1>2, DocumentedResponses, OwnResponses, LooseResponses, TableResponses, SoundShapes
       DEF CapabilityResponses

\* The link capacity, the activity of the modem and the allowed carriers.
LEMMA GoodLceAndCarrier == GoodResponses(LceAndCarrierResponses)
BY DocumentedResponses, OwnResponses, IntResponses, TableResponses, SoundShapes
   DEF LceAndCarrierResponses, DocumentedStructs

\* The state of the device, for a client of either version.
LEMMA GoodDeviceState ==
  ASSUME NEW client
  PROVE  GoodResponses(DeviceStateResponses(client))
  <1>1. \A c : GoodResponses(Row("setSimCardPower", Fn(c, Nothing, "V1_0")))
    BY LooseResponses DEF GoodResponses, GoodResponse, Row, Fn, Own, OtherCallback
  <1>2. QED
    BY <1>1, LooseResponses, TableResponses DEF DeviceStateResponses

\* The calls of version 1.1 and of the OEM hook.
LEMMA GoodKeepalive == GoodResponses(KeepaliveResponses)
  <1>1. /\ GoodResponses(OwnOemHook(Bytes, {"sendRequestRaw"}))
        /\ GoodResponses(OwnOemHook(ListOf({Words(1)}), {"sendRequestStrings"}))
    BY PlainResponses, SoundShapes DEF DocumentedStructs, IntAnswers
  <1>2. QED
    BY <1>1, DocumentedResponses, OwnResponses, LooseResponses, TableResponses, SoundShapes
       DEF KeepaliveResponses

\* All of them.
LEMMA AllResponsesGood ==
  ASSUME NEW version \in Nat, NEW client
  PROVE  GoodResponses(ResponseFunctions(version, client))
BY GoodSimStatus, GoodSimPin, GoodCall, GoodCallState, GoodRegistration, GoodSms, GoodDataCall,
   GoodClir, GoodCallWaiting, GoodNetworkSelection, GoodTone, GoodDataList, GoodStk,
   GoodCdmaPreference, GoodTty, GoodBroadcast, GoodCdmaSubscription, GoodDeviceIdentity,
   GoodCellInfo, GoodIms, GoodIccChannel, GoodNv, GoodCapability, GoodLceAndCarrier,
   GoodDeviceState, GoodKeepalive, TableResponses
   DEF ResponseFunctions

-----------------------------------------------------------------------------
(***************************************************************************)
(* Indication functions                                                    *)
(***************************************************************************)

\* What the properties ask of an indication function; only a call may come without
\* a payload.
GoodIndication(f, fn) ==
  /\ f # "networkScanResult" => Sound(fn.shape)
  /\ f \in DOMAIN DocumentedReports /\ f \notin KnownRefusals =>
       /\ Takes(fn.shape, DocumentedReports[f] \ {0})
       /\ 0 \in DocumentedReports[f] => ~Refuses(fn.shape, NoPayload)

GoodIndications(t) == \A f \in DOMAIN t : GoodIndication(f, t[f])

\* A table of good parts is good.
LEMMA TableIndications ==
  ASSUME NEW parts, \A i \in DOMAIN parts : GoodIndications(parts[i])
  PROVE  GoodIndications(Table(parts))
BY TableRows DEF GoodIndications

\* Nothing is documented of the payload.
LEMMA PlainIndications ==
  ASSUME NEW sh, NEW names, Sound(sh), names \cap DOMAIN DocumentedReports = {}
  PROVE  /\ GoodIndications(Ind(sh, names))
         /\ GoodIndications(IndV1_1(sh, names))
         /\ GoodIndications(IndOemHook(sh, names))
BY DEF GoodIndications, GoodIndication, Ind, IndV1_1, IndOemHook

\* Everything that is documented of the payload is a length, or two.
LEMMA DocumentedIndication ==
  ASSUME NEW sh, NEW f \in DOMAIN DocumentedReports, NEW lengths,
         DocumentedReports[f] = lengths, 0 \notin lengths, Takes(sh, lengths),
         f # "networkScanResult" => Sound(sh)
  PROVE  GoodIndications(Ind(sh, {f})) /\ GoodIndications(IndV1_1(sh, {f}))
  <1>1. lengths \ {0} = lengths
    OBVIOUS
  <1>2. QED
    BY <1>1 DEF GoodIndications, GoodIndication, Ind, IndV1_1

\* The indications for whose payload ril.h documents a length.
LEMMA DocumentedIndications ==
  /\ GoodIndications(Ind(OneInt, {"newSmsOnSim"}))
  /\ GoodIndications(Ind(Strings(2), {"onUssd"}))
  /\ GoodIndications(Ind(OneOf({RIL_SignalStrength_v8, RIL_SignalStrength_v10}),
                         {"currentSignalStrength"}))
  /\ GoodIndications(Ind(OneOf({RIL_SuppSvcNotification}), {"suppSvcNotify"}))
  /\ GoodIndications(Ind(OneInt, {"stkCallSetup"}))
  /\ GoodIndications(Ind(Ring, {"callRing"}))
  /\ GoodIndications(Ind(OneOf({RIL_CDMA_SMS_Message}), {"cdmaNewSms"}))
  /\ GoodIndications(Ind(OneOf({RIL_CDMA_CallWaiting_v6}), {"cdmaCallWaiting"}))
  /\ GoodIndications(Ind(InfoRecords, {"cdmaInfoRec"}))
  /\ GoodIndications(Ind(ListOf({RIL_CellInfo_v12}), {"cellInfoList"}))
  /\ GoodIndications(Ind(ListOf({RIL_HardwareConfig}), {"hardwareConfigChanged"}))
  /\ GoodIndications(Ind(OneOf({RIL_RadioCapability}), {"radioCapabilityIndication"}))
  /\ GoodIndications(Ind(OneOf({RIL_StkCcUnsolSsResponse}), {"onSupplementaryServiceIndication"}))
  /\ GoodIndications(Ind(OneOf({RIL_LceDataInfo}), {"lceData"}))
  /\ GoodIndications(Ind(OneOf({RIL_PCO_Data}), {"pcoData"}))
  /\ GoodIndications(IndV1_1(NonEmpty(RIL_NetworkScanResult), {"networkScanResult"}))
  /\ GoodIndications(IndV1_1(NonEmpty(0), {"carrierInfoForImsiEncryption"}))
  <1>1. /\ Words(1) = 4 /\ Words(2) = 8 /\ RIL_SignalStrength_v10 = 56
        /\ RIL_SuppSvcNotification = 20 /\ RIL_CDMA_SignalInfoRecord = 4
        /\ RIL_RadioCapability = 84 /\ RIL_LceDataInfo = 8 /\ RIL_PCO_Data = 20
        /\ RIL_NetworkScanResult = 12 /\ RIL_CDMA_CallWaiting_v6 = 24
        /\ RIL_CellInfo_v12 = 72 /\ RIL_HardwareConfig = 136
    BY DEF Words, Padded, RIL_SignalStrength_v10, RIL_SignalStrength_v8, RIL_CDMA_SignalStrength,
           RIL_EVDO_SignalStrength, RIL_LTE_SignalStrength_v8, RIL_SuppSvcNotification,
           RIL_CDMA_SignalInfoRecord, RIL_RadioCapability, MAX_UUID_LENGTH, RIL_LceDataInfo,
           RIL_PCO_Data, RIL_NetworkScanResult, RIL_CDMA_CallWaiting_v6, RIL_CellInfo_v12,
           RIL_CellIdentity_v12, RIL_HardwareConfig, Larger
  <1>2. /\ RIL_CDMA_SMS_Message # 0 /\ RIL_CDMA_InformationRecords # 0
        /\ RIL_StkCcUnsolSsResponse # 0
    BY DEF Words, Padded, RIL_CDMA_SMS_Message, RIL_CDMA_InformationRecords,
           RIL_CDMA_MAX_NUMBER_OF_INFO_RECS, RIL_CDMA_InformationRecord,
           RIL_StkCcUnsolSsResponse, RIL_CfData, NUM_SERVICE_CLASSES, RIL_CallForwardInfo
  <1>3. ASSUME NEW sizes, NEW len \in sizes
        PROVE  Takes(OneOf(sizes), {len})
    BY TakesStructs DEF Takes
  <1>4. /\ GoodIndications(Ind(OneOf({RIL_SignalStrength_v8, RIL_SignalStrength_v10}),
                               {"currentSignalStrength"}))
        /\ GoodIndications(Ind(OneOf({RIL_SuppSvcNotification}), {"suppSvcNotify"}))
        /\ GoodIndications(Ind(OneOf({RIL_CDMA_SMS_Message}), {"cdmaNewSms"}))
        /\ GoodIndications(Ind(OneOf({RIL_CDMA_CallWaiting_v6}), {"cdmaCallWaiting"}))
    BY <1>1, <1>2, <1>3, DocumentedIndication, SoundShapes DEF DocumentedReports
  <1>5. /\ GoodIndications(Ind(OneOf({RIL_RadioCapability}), {"radioCapabilityIndication"}))
        /\ GoodIndications(Ind(OneOf({RIL_StkCcUnsolSsResponse}),
                               {"onSupplementaryServiceIndication"}))
        /\ GoodIndications(Ind(OneOf({RIL_LceDataInfo}), {"lceData"}))
        /\ GoodIndications(Ind(OneOf({RIL_PCO_Data}), {"pcoData"}))
    BY <1>1, <1>2, <1>3, DocumentedIndication, SoundShapes DEF DocumentedReports
  <1>6. /\ GoodIndications(Ind(OneInt, {"newSmsOnSim"}))
        /\ GoodIndications(Ind(Strings(2), {"onUssd"}))
        /\ GoodIndications(Ind(OneInt, {"stkCallSetup"}))
    <2>1. Takes(OneInt, {Words(1)}) /\ Takes(Strings(2), {Words(2)})
      BY TakesWords
    <2>2. /\ "newSmsOnSim" \in DOMAIN DocumentedReports /\ "onUssd" \in DOMAIN DocumentedReports
          /\ "stkCallSetup" \in DOMAIN DocumentedReports
          /\ DocumentedReports["newSmsOnSim"] = {Words(1)}
          /\ DocumentedReports["onUssd"] = {Words(2)}
          /\ DocumentedReports["stkCallSetup"] = {Words(1)}
      BY DEF DocumentedReports
    <2>3. 0 \notin {Words(1)} /\ 0 \notin {Words(2)}
      BY <1>1
    <2>4. QED
      BY <2>1, <2>2, <2>3, DocumentedIndication, SoundShapes
  <1>7. GoodIndications(Ind(Ring, {"callRing"}))
    <2>1. Ring.kind = "ring" /\ Ring.layouts = {RIL_CDMA_SignalInfoRecord}
      BY ShapeFields DEF Ring
    <2>2. Takes(Ring, {RIL_CDMA_SignalInfoRecord})
      BY <2>1, PayloadFields DEF Takes, Refuses
    <2>3. ~Refuses(Ring, NoPayload)
      BY <2>1 DEF Refuses, NoPayload, Payload
    <2>4. DocumentedReports["callRing"] \ {0} = {RIL_CDMA_SignalInfoRecord}
      BY <1>1 DEF DocumentedReports
    <2>5. QED
      BY <2>2, <2>3, <2>4, SoundShapes DEF GoodIndications, GoodIndication, Ind
  <1>8. GoodIndications(Ind(InfoRecords, {"cdmaInfoRec"}))
    <2>1. InfoRecords.kind = "checkedStruct" /\ InfoRecords.layouts = {RIL_CDMA_InformationRecords}
      BY ShapeFields DEF InfoRecords
    <2>2. Takes(InfoRecords, {RIL_CDMA_InformationRecords})
      BY <2>1, PayloadFields DEF Takes, Refuses
    <2>3. QED
      BY <1>2, <2>2, DocumentedIndication, SoundShapes DEF DocumentedReports
  <1>9. /\ GoodIndications(Ind(ListOf({RIL_CellInfo_v12}), {"cellInfoList"}))
        /\ GoodIndications(Ind(ListOf({RIL_HardwareConfig}), {"hardwareConfigChanged"}))
    <2>1. \A size \in Nat \ {0} : Takes(ListOf({size}), {size, 2 * size})
      BY TakesLists, ShapeFields DEF ListOf
    <2>2. \A size \in Nat \ {0} : Takes(ListOf({size}), {size})
      BY <2>1 DEF Takes
    <2>3. /\ "cellInfoList" \in DOMAIN DocumentedReports
          /\ "hardwareConfigChanged" \in DOMAIN DocumentedReports
          /\ DocumentedReports["cellInfoList"] = {RIL_CellInfo_v12}
          /\ DocumentedReports["hardwareConfigChanged"] = {RIL_HardwareConfig}
      BY DEF DocumentedReports
    <2>4. /\ 0 \notin {RIL_CellInfo_v12} /\ 0 \notin {RIL_HardwareConfig}
          /\ Takes(ListOf({RIL_CellInfo_v12}), {RIL_CellInfo_v12})
          /\ Takes(ListOf({RIL_HardwareConfig}), {RIL_HardwareConfig})
      BY <1>1, <2>2
    <2>5. QED
      BY <2>3, <2>4, DocumentedIndication, SoundShapes
  <1>10. GoodIndications(IndV1_1(NonEmpty(RIL_NetworkScanResult), {"networkScanResult"}))
    <2>1. ASSUME NEW sh, sh.kind = "nonEmpty", NEW len \in Nat \ {0}
          PROVE  Takes(sh, {len})
      BY <2>1, PayloadFields DEF Takes, Refuses
    <2>2. Takes(NonEmpty(RIL_NetworkScanResult), {RIL_NetworkScanResult})
      BY <1>1, <2>1, ShapeFields DEF NonEmpty
    <2>3. /\ "networkScanResult" \in DOMAIN DocumentedReports
          /\ DocumentedReports["networkScanResult"] = {RIL_NetworkScanResult}
          /\ 0 \notin {RIL_NetworkScanResult}
      BY <1>1 DEF DocumentedReports
    <2>4. QED
      BY <2>2, <2>3, DocumentedIndication
  <1>11. GoodIndications(IndV1_1(NonEmpty(0), {"carrierInfoForImsiEncryption"}))
    BY SoundShapes DEF GoodIndications, GoodIndication, IndV1_1, KnownRefusals
  <1>12. QED
    BY <1>4, <1>5, <1>6, <1>7, <1>8, <1>9, <1>10, <1>11

\* All of them.
LEMMA AllIndicationsGood == GoodIndications(IndicationFunctions)
  <1>1. GoodIndications(StateIndications) /\ GoodIndications(SignalIndications)
    BY PlainIndications, DocumentedIndications, SoundShapes
       DEF StateIndications, SignalIndications, DocumentedReports
  <1>2. GoodIndications(SmsIndications)
    BY PlainIndications, DocumentedIndications, TableIndications, SoundShapes
       DEF SmsIndications, DocumentedReports
  <1>3. GoodIndications(DataCallIndications)
    BY PlainIndications, DocumentedIndications, TableIndications, SoundShapes
       DEF DataCallIndications, DocumentedReports
  <1>4. GoodIndications(StkIndications)
    BY PlainIndications, DocumentedIndications, TableIndications, SoundShapes
       DEF StkIndications, DocumentedReports
  <1>5. GoodIndications(RingIndications)
    <2>1. /\ GoodIndications(Ind(Nothing, {"simStatusChanged", "cdmaRuimSmsStorageFull"}))
          /\ GoodIndications(Ind(NonEmpty(1), {"newBroadcastSms"}))
      BY PlainIndications, SoundShapes DEF DocumentedReports
    <2>2. QED
      BY <2>1, DocumentedIndications, TableIndications DEF RingIndications
  <1>6. GoodIndications(CdmaIndications)
    <2>1. /\ GoodIndications(Ind(OneInt, {"restrictedStateChanged", "cdmaOtaProvisionStatus"}))
          /\ GoodIndications(Ind(Nothing, {"enterEmergencyCallbackMode"}))
      BY PlainIndications, SoundShapes DEF DocumentedReports
    <2>2. QED
      BY <2>1, DocumentedIndications, TableIndications DEF CdmaIndications
  <1>7. GoodIndications(InfoRecIndications)
    BY DocumentedIndications DEF InfoRecIndications
  <1>8. GoodIndications(SubscriptionIndications)
    BY PlainIndications, TableIndications, SoundShapes
       DEF SubscriptionIndications, DocumentedReports
  <1>9. GoodIndications(CellInfoIndications)
    <2>1. /\ GoodIndications(Ind(Nothing, {"imsNetworkStateChanged"}))
          /\ GoodIndications(Ind(OneInt, {"subscriptionStatusChanged", "srvccStateNotify"}))
      BY PlainIndications, SoundShapes DEF DocumentedReports
    <2>2. QED
      BY <2>1, DocumentedIndications, TableIndications DEF CellInfoIndications
  <1>10. GoodIndications(CapabilityIndications)
    BY DocumentedIndications, TableIndications DEF CapabilityIndications
  <1>11. GoodIndications(SupplementaryIndications)
    BY PlainIndications, DocumentedIndications, TableIndications, SoundShapes
       DEF SupplementaryIndications, DocumentedReports
  <1>12. GoodIndications(ModemIndications)
    BY PlainIndications, DocumentedIndications, TableIndications, SoundShapes
       DEF ModemIndications, DocumentedReports
  <1>13. GoodIndications(KeepaliveIndications)
    BY PlainIndications, TableIndications, SoundShapes
       DEF KeepaliveIndications, DocumentedReports
  <1>14. QED
    BY <1>1, <1>2, <1>3, <1>4, <1>5, <1>6, <1>7, <1>8, <1>9, <1>10, <1>11, <1>12, <1>13,
       TableIndications DEF IndicationFunctions

-----------------------------------------------------------------------------
(***************************************************************************)
(* The two tables name functions that there are                            *)
(***************************************************************************)

\* Every request of ril_commands.h has a response function.
LEMMA ResponseNames ==
  ASSUME NEW version, NEW client, NEW r \in DOMAIN s_commands
  PROVE  s_commands[r] \in DOMAIN ResponseFunctions(version, client)
  <1> DEFINE D == DOMAIN ResponseFunctions(version, client)
  <1>1. /\ DOMAIN SimStatusResponses \subseteq D
       /\ DOMAIN SimPinResponses \subseteq D
       /\ DOMAIN CallResponses \subseteq D
       /\ DOMAIN CallStateResponses \subseteq D
       /\ DOMAIN RegistrationResponses(version) \subseteq D
       /\ DOMAIN SmsResponses \subseteq D
       /\ DOMAIN DataCallResponses \subseteq D
       /\ DOMAIN ClirResponses \subseteq D
       /\ DOMAIN CallWaitingResponses \subseteq D
       /\ DOMAIN NetworkSelectionResponses \subseteq D
       /\ DOMAIN ToneResponses \subseteq D
       /\ DOMAIN DataListResponses \subseteq D
       /\ DOMAIN StkResponses \subseteq D
    BY DEF ResponseFunctions, Table
  <1>2. /\ DOMAIN CdmaPreferenceResponses \subseteq D
       /\ DOMAIN TtyResponses \subseteq D
       /\ DOMAIN BroadcastResponses \subseteq D
       /\ DOMAIN CdmaSubscriptionResponses \subseteq D
       /\ DOMAIN DeviceIdentityResponses \subseteq D
       /\ DOMAIN CellInfoResponses \subseteq D
       /\ DOMAIN ImsResponses \subseteq D
       /\ DOMAIN IccChannelResponses \subseteq D
       /\ DOMAIN NvResponses \subseteq D
       /\ DOMAIN CapabilityResponses \subseteq D
       /\ DOMAIN LceAndCarrierResponses \subseteq D
       /\ DOMAIN DeviceStateResponses(client) \subseteq D
       /\ DOMAIN KeepaliveResponses \subseteq D
    BY DEF ResponseFunctions, Table
  <1> HIDE DEF D
  <1>3. /\ {"getIccCardStatus", "supplyIccPinForApp", "supplyIccPukForApp",
            "supplyIccPin2ForApp", "supplyIccPuk2ForApp"}
          \subseteq DOMAIN SimStatusResponses
        /\ {"changeIccPinForApp", "changeIccPin2ForApp",
            "supplyNetworkDepersonalization", "getCurrentCalls", "dial"}
          \subseteq DOMAIN SimPinResponses
    BY DEF SimStatusResponses, SimPinResponses, Table, Own
  <1>4. /\ {"getIMSIForApp", "hangupConnection", "hangupWaitingOrBackground",
            "switchWaitingOrHoldingAndActive", "conference", "rejectCall",
            "hangupForegroundResumeBackground"}
          \subseteq DOMAIN CallResponses
        /\ {"getLastCallFailCause", "getSignalStrength"}
          \subseteq DOMAIN CallStateResponses
    BY DEF CallResponses, CallStateResponses, Table, Own, Row
  <1>5. /\ {"getVoiceRegistrationState", "getDataRegistrationState"}
          \subseteq DOMAIN RegistrationResponses(version)
        /\ {"getOperator", "setRadioPower", "sendDtmf", "sendSms", "sendSMSExpectMore"}
          \subseteq DOMAIN SmsResponses
    BY DEF RegistrationResponses, SmsResponses, Table, Own
  <1>6. /\ {"setupDataCall", "iccIOForApp", "sendUssd", "cancelPendingUssd"}
          \subseteq DOMAIN DataCallResponses
        /\ {"getClir", "getCallWaiting", "setClir", "setCallForward",
            "getCallForwardStatus"}
          \subseteq DOMAIN ClirResponses
    BY DEF DataCallResponses, ClirResponses, Table, Own
  <1>7. /\ {"setCallWaiting", "acknowledgeLastIncomingGsmSms", "acceptCall",
            "deactivateDataCall", "setBarringPassword", "getFacilityLockForApp",
            "setFacilityLockForApp"}
          \subseteq DOMAIN CallWaitingResponses
        /\ {"getNetworkSelectionMode", "setNetworkSelectionModeAutomatic",
            "setNetworkSelectionModeManual", "getAvailableNetworks"}
          \subseteq DOMAIN NetworkSelectionResponses
    BY DEF CallWaitingResponses, NetworkSelectionResponses, Table, Own
  <1>8. /\ {"startDtmf", "stopDtmf", "separateConnection", "setMute",
            "getBasebandVersion", "getMute", "getClip"}
          \subseteq DOMAIN ToneResponses
        /\ {"getDataCallList", "setSuppServiceNotifications", "deleteSmsOnSim",
            "setBandMode", "writeSmsToSim", "getAvailableBandModes"}
          \subseteq DOMAIN DataListResponses
    BY DEF ToneResponses, DataListResponses, Table, Own
  <1>9. /\ {"sendEnvelope", "sendTerminalResponseToSim",
            "handleStkCallSetupRequestFromSim", "explicitCallTransfer",
            "setPreferredNetworkType", "getPreferredNetworkType"}
          \subseteq DOMAIN StkResponses
        /\ {"getNeighboringCids", "setLocationUpdates", "setCdmaSubscriptionSource",
            "setCdmaRoamingPreference", "setTTYMode", "getCdmaRoamingPreference"}
          \subseteq DOMAIN CdmaPreferenceResponses
    BY DEF StkResponses, CdmaPreferenceResponses, Table, Own
  <1>10. /\ {"getTTYMode", "setPreferredVoicePrivacy", "sendCDMAFeatureCode",
             "sendBurstDtmf", "getPreferredVoicePrivacy", "sendCdmaSms"}
           \subseteq DOMAIN TtyResponses
         /\ {"acknowledgeLastIncomingCdmaSms", "setGsmBroadcastConfig",
             "setGsmBroadcastActivation", "getGsmBroadcastConfig",
             "getCdmaBroadcastConfig"}
           \subseteq DOMAIN BroadcastResponses
    BY DEF TtyResponses, BroadcastResponses, Table, Own
  <1>11. /\ {"setCdmaBroadcastConfig", "setCdmaBroadcastActivation", "deleteSmsOnRuim",
             "getCDMASubscription", "writeSmsToRuim"}
           \subseteq DOMAIN CdmaSubscriptionResponses
         /\ {"getDeviceIdentity", "exitEmergencyCallbackMode", "setSmscAddress",
             "reportSmsMemoryStatus", "reportStkServiceIsRunning", "getSmscAddress"}
           \subseteq DOMAIN DeviceIdentityResponses
    BY DEF CdmaSubscriptionResponses, DeviceIdentityResponses, Table, Own
  <1>12. /\ {"getCdmaSubscriptionSource", "getVoiceRadioTechnology",
             "requestIsimAuthentication", "acknowledgeIncomingGsmSmsWithPdu",
             "sendEnvelopeWithStatus", "getCellInfoList"}
           \subseteq DOMAIN CellInfoResponses
         /\ {"setCellInfoListRate", "setInitialAttachApn", "getImsRegistrationState",
             "sendImsSms", "iccTransmitApduBasicChannel"}
           \subseteq DOMAIN ImsResponses
    BY DEF CellInfoResponses, ImsResponses, Table, Own
  <1>13. /\ {"iccOpenLogicalChannel", "iccCloseLogicalChannel", "nvWriteItem",
             "nvWriteCdmaPrl", "iccTransmitApduLogicalChannel", "nvReadItem"}
           \subseteq DOMAIN IccChannelResponses
         /\ {"nvResetConfig", "setUiccSubscription", "setDataAllowed", "setDataProfile",
             "getHardwareConfig", "requestIccSimAuthentication"}
           \subseteq DOMAIN NvResponses
    BY DEF IccChannelResponses, NvResponses, Table, Own
  <1>14. /\ {"requestShutdown", "getRadioCapability", "setRadioCapability",
             "startLceService", "stopLceService"}
           \subseteq DOMAIN CapabilityResponses
         /\ {"pullLceData", "getModemActivityInfo", "setAllowedCarriers",
             "getAllowedCarriers"}
           \subseteq DOMAIN LceAndCarrierResponses
    BY DEF CapabilityResponses, LceAndCarrierResponses, Table, Own
  <1>15. /\ {"sendDeviceState", "setIndicationFilter",
             "setCarrierInfoForImsiEncryption", "startNetworkScan", "stopNetworkScan",
             "setSimCardPower"}
           \subseteq DOMAIN DeviceStateResponses(client)
         /\ {"startKeepalive", "stopKeepalive", "sendRequestRaw", "sendRequestStrings"}
           \subseteq DOMAIN KeepaliveResponses
    BY DEF DeviceStateResponses, KeepaliveResponses, Table, Own, OwnV1_1, OwnOemHook, Row
  <1>16. s_commands[r] \in D
    BY <1>1, <1>2, <1>3, <1>4, <1>5, <1>6, <1>7, <1>8, <1>9, <1>10, <1>11, <1>12, <1>13,
       <1>14, <1>15 DEF s_commands
  <1>17. QED
    BY <1>16 DEF D

\* Every indication of ril_unsol_commands.h that has a function has one of the
\* tables.
LEMMA IndicationNames ==
  ASSUME NEW u \in DOMAIN s_unsolResponses, s_unsolResponses[u] # "none"
  PROVE  s_unsolResponses[u] \in DOMAIN IndicationFunctions
  <1> DEFINE D == DOMAIN IndicationFunctions
  <1>1. /\ DOMAIN StateIndications \subseteq D /\ DOMAIN SmsIndications \subseteq D
        /\ DOMAIN SignalIndications \subseteq D /\ DOMAIN DataCallIndications \subseteq D
        /\ DOMAIN StkIndications \subseteq D /\ DOMAIN RingIndications \subseteq D
        /\ DOMAIN CdmaIndications \subseteq D /\ DOMAIN InfoRecIndications \subseteq D
        /\ DOMAIN SubscriptionIndications \subseteq D /\ DOMAIN CellInfoIndications \subseteq D
        /\ DOMAIN CapabilityIndications \subseteq D /\ DOMAIN SupplementaryIndications \subseteq D
        /\ DOMAIN ModemIndications \subseteq D /\ DOMAIN KeepaliveIndications \subseteq D
    BY DEF IndicationFunctions, Table
  <1> HIDE DEF D
  <1>2. /\ {"radioStateChanged", "callStateChanged", "networkStateChanged"} \subseteq D
        /\ {"newSms", "newSmsStatusReport", "newSmsOnSim", "onUssd", "nitzTimeReceived"} \subseteq D
        /\ {"currentSignalStrength"} \subseteq D
        /\ {"dataCallListChanged", "suppSvcNotify"} \subseteq D
    BY <1>1 DEF StateIndications, SmsIndications, SignalIndications, DataCallIndications, Ind, Table
  <1>3. /\ {"stkSessionEnd", "simSmsStorageFull", "stkProactiveCommand", "stkEventNotify",
            "stkCallSetup", "simRefresh"} \subseteq D
        /\ {"callRing", "simStatusChanged", "cdmaRuimSmsStorageFull", "cdmaNewSms",
            "newBroadcastSms"} \subseteq D
        /\ {"restrictedStateChanged", "cdmaOtaProvisionStatus", "enterEmergencyCallbackMode",
            "cdmaCallWaiting"} \subseteq D
        /\ {"cdmaInfoRec"} \subseteq D
    BY <1>1 DEF StkIndications, RingIndications, CdmaIndications, InfoRecIndications, Ind, Table
  <1>4. /\ {"indicateRingbackTone", "cdmaSubscriptionSourceChanged", "cdmaPrlChanged",
            "voiceRadioTechChanged", "resendIncallMute", "exitEmergencyCallbackMode",
            "rilConnected"} \subseteq D
        /\ {"cellInfoList", "imsNetworkStateChanged", "subscriptionStatusChanged",
            "srvccStateNotify"} \subseteq D
        /\ {"hardwareConfigChanged", "radioCapabilityIndication"} \subseteq D
    BY <1>1 DEF SubscriptionIndications, CellInfoIndications, CapabilityIndications, Ind, Table
  <1>5. /\ {"onSupplementaryServiceIndication", "stkCallControlAlphaNotify"} \subseteq D
        /\ {"lceData", "pcoData", "modemReset", "networkScanResult",
            "carrierInfoForImsiEncryption"} \subseteq D
        /\ {"oemHookRaw"} \subseteq D
    BY <1>1 DEF SupplementaryIndications, ModemIndications, KeepaliveIndications, Ind, IndV1_1,
                IndOemHook, Table
  <1>6. s_unsolResponses[u] \in D
    BY <1>2, <1>3, <1>4, <1>5 DEF s_unsolResponses
  <1>7. QED
    BY <1>6 DEF D

-----------------------------------------------------------------------------
(***************************************************************************)
(* Programs                                                                *)
(***************************************************************************)

\* The steps, by their fields.
LEMMA StepFields ==
  /\ Add.op = "add" /\ AddUnchecked.op = "addUnchecked" /\ OnRequest.op = "onRequest"
  /\ \A names : Junk(names).op = "junk" /\ Junk(names).frees = names
  /\ \A err, frees : Check(err, frees).op = "check" /\ Check(err, frees).frees = frees
  /\ \A err : Fail(err).op = "fail" /\ Fail(err).frees = {}
  /\ \A err, frees : FailFreeing(err, frees).op = "fail" /\ FailFreeing(err, frees).frees = frees
  /\ \A x, frees : LET s == Calloc(x, frees) IN s.op = "calloc" /\ s.x = x /\ s.frees = frees
  /\ \A x, frees : LET s == Copy(x, frees) IN s.op = "copy" /\ s.x = x /\ s.frees = frees
  /\ \A x, frees : LET s == CopyOrEmpty(x, frees)
                   IN  s.op = "copyOrEmpty" /\ s.x = x /\ s.frees = frees
  /\ \A x, frees : LET s == CopyChars(x, frees)
                   IN  s.op = "copyChars" /\ s.x = x /\ s.frees = frees
  /\ \A x, frees : LET s == CopyCharsOrEmpty(x, frees)
                   IN  s.op = "copyCharsOrEmpty" /\ s.x = x /\ s.frees = frees
  /\ \A x : New(x).op = "new" /\ New(x).x = x
  /\ \A names : Free(names).op = "free" /\ Free(names).frees = names
BY DEF Add, AddUnchecked, OnRequest, Junk, Check, Fail, FailFreeing, Calloc, Copy, CopyOrEmpty,
       CopyChars, CopyCharsOrEmpty, New, Free, Step

\* The fields of a program.
LEMMA ProgramFields ==
  ASSUME NEW r, NEW steps
  PROVE  Program(r, steps).request = r /\ Program(r, steps).steps = steps
BY DEF Program

\* A program without undefined pointers: every exit frees what was copied before it.
LEMMA GoodPairs ==
  ASSUME NEW steps, Len(steps) \in Nat,
         \A i \in 1 .. Len(steps) : steps[i].op # "junk",
         \A i, j \in 1 .. Len(steps) :
           j < i /\ Allocates(steps[j]) /\ Exits(steps[i]) => steps[j].x \in steps[i].frees
  PROVE  GoodFrees(steps)
  <1> SUFFICES ASSUME NEW i \in 1 .. Len(steps)
               PROVE  /\ steps[i].frees \cap Undefined(steps, i) = {}
                      /\ Exits(steps[i]) => Allocated(steps, i) \subseteq steps[i].frees
    BY DEF GoodFrees
  <1>1. Undefined(steps, i) = {}
    BY DEF Undefined
  <1>2. Exits(steps[i]) => Allocated(steps, i) \subseteq steps[i].frees
    BY DEF Allocated
  <1>3. QED
    BY <1>1, <1>2

\* Its way without a failure.
LEMMA GoodEnd ==
  ASSUME NEW steps, Len(steps) \in Nat \ {0},
         LET n == Len(steps)
         IN  \A j \in 1 .. n - 1 : Allocates(steps[j]) =>
               steps[n].op # "onRequest" /\ (steps[n].op = "free" => steps[j].x \in steps[n].frees)
  PROVE  FreesAll(steps)
BY DEF FreesAll, Allocated

\* Both, for a program whose steps are known one by one.
Tidy(steps) ==
  /\ \A i \in 1 .. Len(steps) : steps[i].op # "junk"
  /\ \A i \in 1 .. Len(steps) : \A j \in 1 .. i - 1 : Allocates(steps[j]) =>
       /\ Exits(steps[i]) \/ steps[i].op = "free" => steps[j].x \in steps[i].frees
       /\ i = Len(steps) => steps[i].op # "onRequest"

\* A tidy program frees live copies only, and all of them.
LEMMA TidyFrees ==
  ASSUME NEW steps, Len(steps) \in Nat \ {0}, Tidy(steps)
  PROVE  GoodFrees(steps) /\ FreesAll(steps)
  <1>1. GoodFrees(steps)
    BY GoodPairs DEF Tidy
  <1>2. FreesAll(steps)
    BY GoodEnd DEF Tidy
  <1>3. QED
    BY <1>1, <1>2

\* A tidy program of a method that makes a request is good.
LEMMA TidyProgram ==
  ASSUME NEW m, NEW r, NEW steps, GoodOrder(steps), Tidy(steps), steps[1].op = "add"
  PROVE  GoodProgram(m, Program(r, steps))
  <1>1. Len(steps) \in Nat \ {0}
    BY DEF GoodOrder
  <1>2. QED
    BY <1>1, TidyFrees, ProgramFields DEF GoodProgram

\* A pointer that was copied is not undefined any more.
LEMMA UndefinedApart ==
  ASSUME NEW steps, NEW i
  PROVE  Undefined(steps, i) \cap Allocated(steps, i) = {}
BY DEF Undefined

\* Programs that copy nothing.
LEMMA PlainPrograms ==
  ASSUME NEW m, NEW r
  PROVE  /\ GoodProgram(m, Program(r, <<Add, OnRequest>>))
         /\ \A err : GoodProgram(m, Program(r, <<Add, Check(err, {}), OnRequest>>))
         /\ \A err : GoodProgram(m, Program(r, <<Add, Fail(err)>>))
         /\ GoodProgram(m, startNetworkScan)
  <1>1. ASSUME NEW steps, steps = <<Add, OnRequest>>
        PROVE  GoodOrder(steps) /\ Tidy(steps) /\ steps[1].op = "add"
    BY <1>1, StepFields DEF GoodOrder, Tidy, Allocates
  <1>2. ASSUME NEW steps, NEW err, steps = <<Add, Check(err, {}), OnRequest>>
        PROVE  GoodOrder(steps) /\ Tidy(steps) /\ steps[1].op = "add"
    BY <1>2, StepFields DEF GoodOrder, Tidy, Allocates
  <1>3. ASSUME NEW steps, NEW err, steps = <<Add, Fail(err)>>
        PROVE  GoodOrder(steps) /\ Tidy(steps) /\ steps[1].op = "add"
    BY <1>3, StepFields DEF GoodOrder, Tidy, Allocates
  <1>4. ASSUME NEW steps, NEW err,
               steps = <<Add, Check(err, {}), Check(err, {}), Check(err, {}), OnRequest>>
        PROVE  GoodOrder(steps) /\ Tidy(steps) /\ steps[1].op = "add"
    BY <1>4, StepFields DEF GoodOrder, Tidy, Allocates
  <1>5. GoodProgram(m, startNetworkScan)
    BY <1>4, TidyProgram, ProgramFields DEF startNetworkScan
  <1>6. /\ GoodProgram(m, Program(r, <<Add, OnRequest>>))
        /\ \A err : GoodProgram(m, Program(r, <<Add, Check(err, {}), OnRequest>>))
        /\ \A err : GoodProgram(m, Program(r, <<Add, Fail(err)>>))
    BY <1>1, <1>2, <1>3, TidyProgram
  <1>7. QED
    BY <1>5, <1>6

\* Two methods go on with the result of addRequestToList() unseen, to fail.
LEMMA UncheckedGood ==
  ASSUME NEW m \in {"sendDeviceState", "setIndicationFilter"}, NEW r, NEW err
  PROVE  GoodProgram(m, Program(r, <<AddUnchecked, Fail(err)>>))
  <1>1. ASSUME NEW steps, steps = <<AddUnchecked, Fail(err)>>
        PROVE  GoodOrder(steps) /\ Tidy(steps)
    BY <1>1, StepFields DEF GoodOrder, Tidy, Allocates
  <1>2. ASSUME NEW steps, steps = <<AddUnchecked, Fail(err)>>
        PROVE  GoodOrder(steps) /\ GoodFrees(steps) /\ FreesAll(steps)
    BY <1>1, <1>2, TidyFrees DEF GoodOrder
  <1>3. QED
    BY <1>2, ProgramFields DEF GoodProgram

\* Programs of one and of two copies.
LEMMA OneCopy ==
  ASSUME NEW m, NEW r, NEW x
  PROVE  /\ GoodProgram(m, Program(r, <<Add, Copy(x, {}), OnRequest, Free({x})>>))
         /\ GoodProgram(m, Program(r, <<Add, Calloc(x, {}), OnRequest, Free({x})>>))
         /\ GoodProgram(m, Program(r, <<Add, Junk({x}), Copy(x, {}), OnRequest, Free({x})>>))
         /\ GoodProgram(m, Program(r, <<Add, Junk({x}), CopyChars(x, {}), OnRequest, Free({x})>>))
  <1>1. ASSUME NEW steps, NEW copy \in {Copy(x, {}), Calloc(x, {})},
               steps = <<Add, copy, OnRequest, Free({x})>>
        PROVE  GoodOrder(steps) /\ Tidy(steps) /\ steps[1].op = "add"
    BY <1>1, StepFields DEF GoodOrder, Tidy, Allocates, Exits
  <1>2. ASSUME NEW steps, NEW copy \in {Copy(x, {}), CopyChars(x, {})},
               steps = <<Add, Junk({x}), copy, OnRequest, Free({x})>>
        PROVE  GoodOrder(steps) /\ GoodFrees(steps) /\ FreesAll(steps) /\ steps[1].op = "add"
    <2>1. GoodOrder(steps) /\ steps[1].op = "add"
      BY <1>2, StepFields DEF GoodOrder
    <2>2. Allocated(steps, 2) = {} /\ Allocated(steps, 3) = {} /\ Allocated(steps, 5) = {x}
      BY <1>2, StepFields DEF Allocated, Allocates
    <2>3. /\ Len(steps) = 5 /\ steps[1].op = "add" /\ steps[2].op = "junk"
          /\ steps[3].op \in {"copy", "copyChars"}
          /\ steps[4].op = "onRequest" /\ steps[5].op = "free" /\ steps[2].frees = {x}
          /\ steps[3].frees = {} /\ steps[5].frees = {x}
      BY <1>2, StepFields
    <2>4. steps[5].frees \cap Undefined(steps, 5) = {}
      BY <2>2, <2>3, UndefinedApart
    <2>5. FreesAll(steps)
      BY <2>2, <2>3 DEF FreesAll
    <2>6. GoodFrees(steps)
      BY <2>2, <2>3, <2>4 DEF GoodFrees, Exits
    <2>7. QED
      BY <2>1, <2>5, <2>6
  <1>3. QED
    <2>1. GoodProgram(m, Program(r, <<Add, Copy(x, {}), OnRequest, Free({x})>>))
      BY <1>1, TidyProgram
    <2>2. GoodProgram(m, Program(r, <<Add, Calloc(x, {}), OnRequest, Free({x})>>))
      BY <1>1, TidyProgram
    <2>3. QED
      BY <1>2, <2>1, <2>2, ProgramFields DEF GoodProgram

\* Two copies, the second of which frees the first when it fails.
LEMMA TwoCopies ==
  ASSUME NEW m, NEW r, NEW x, NEW y
  PROVE  /\ GoodProgram(m, Program(r, <<Add, Copy(x, {}), Copy(y, {x}), OnRequest, Free({x, y})>>))
         /\ GoodProgram(m, Program(r,
              <<Add, Calloc(x, {}), Calloc(y, {x}), OnRequest, Free({x, y})>>))
  <1>1. ASSUME NEW steps, steps = <<Add, Copy(x, {}), Copy(y, {x}), OnRequest, Free({x, y})>>
        PROVE  GoodOrder(steps) /\ Tidy(steps) /\ steps[1].op = "add"
    BY <1>1, StepFields DEF GoodOrder, Tidy, Allocates, Exits
  <1>2. ASSUME NEW steps, steps = <<Add, Calloc(x, {}), Calloc(y, {x}), OnRequest, Free({x, y})>>
        PROVE  GoodOrder(steps) /\ Tidy(steps) /\ steps[1].op = "add"
    BY <1>2, StepFields DEF GoodOrder, Tidy, Allocates, Exits
  <1>3. QED
    BY <1>1, <1>2, TidyProgram, ProgramFields

\* The methods with a program of their own.
LEMMA SimIoGood ==
  ASSUME NEW m
  PROVE  GoodProgram(m, iccIOForApp)
  <1>1. ASSUME NEW steps,
               steps = <<Add, Copy("path", {}), Copy("data", {"path"}),
                         Copy("pin2", {"path", "data"}),
                         Copy("aidPtr", {"path", "data", "pin2"}), OnRequest,
                         Free({"path", "data", "pin2", "aidPtr"})>>
        PROVE  GoodOrder(steps) /\ Tidy(steps) /\ steps[1].op = "add"
    BY <1>1, StepFields DEF GoodOrder, Tidy, Allocates, Exits
  <1>2. QED
    BY <1>1, TidyProgram, ProgramFields DEF iccIOForApp

\* writeSmsToSim(), whose second pointer is undefined until it is copied.
LEMMA WriteSmsGood ==
  ASSUME NEW m
  PROVE  GoodProgram(m, writeSmsToSim)
  <1>1. ASSUME NEW steps,
               steps = <<Add, Junk({"pdu", "smsc"}), Copy("pdu", {}), Copy("smsc", {"pdu"}),
                         OnRequest, Free({"smsc", "pdu"})>>
        PROVE  GoodOrder(steps) /\ GoodFrees(steps) /\ FreesAll(steps) /\ steps[1].op = "add"
    <2>1. GoodOrder(steps) /\ steps[1].op = "add"
      BY <1>1, StepFields DEF GoodOrder
    <2>2. /\ Allocated(steps, 2) = {} /\ Allocated(steps, 3) = {} /\ Allocated(steps, 4) = {"pdu"}
          /\ Allocated(steps, 6) = {"pdu", "smsc"}
      BY <1>1, StepFields DEF Allocated, Allocates
    <2>3. {"pdu"} \cap Undefined(steps, 4) = {} /\ {"smsc", "pdu"} \cap Undefined(steps, 6) = {}
      BY <2>2, UndefinedApart
    <2>4. /\ Len(steps) = 6 /\ steps[1].op = "add" /\ steps[2].op = "junk" /\ steps[3].op = "copy"
          /\ steps[4].op = "copy" /\ steps[5].op = "onRequest" /\ steps[6].op = "free"
          /\ steps[3].frees = {} /\ steps[4].frees = {"pdu"} /\ steps[6].frees = {"smsc", "pdu"}
      BY <1>1, StepFields
    <2>5. FreesAll(steps)
      BY <2>2, <2>4 DEF FreesAll
    <2>6. GoodFrees(steps)
      BY <2>2, <2>3, <2>4 DEF GoodFrees, Exits
    <2>7. QED
      BY <2>1, <2>5, <2>6
  <1>2. QED
    BY <1>1, ProgramFields DEF GoodProgram, writeSmsToSim

\* sendImsSms(), for any technology.
LEMMA ImsSmsGood ==
  ASSUME NEW m, NEW tech
  PROVE  GoodProgram(m, sendImsSms(tech))
  <1>1. ASSUME NEW steps,
               steps = <<Add, Check("INVALID_ARGUMENTS", {}), Calloc("pStrings", {}),
                         Copy("s1", {"pStrings"}), Copy("s2", {"s1", "pStrings"}), OnRequest,
                         Free({"s1", "s2", "pStrings"})>>
        PROVE  GoodOrder(steps) /\ Tidy(steps) /\ steps[1].op = "add"
    BY <1>1, StepFields DEF GoodOrder, Tidy, Allocates, Exits
  <1>2. \A r : GoodProgram(m, Program(r,
          <<Add, Check("INVALID_ARGUMENTS", {}), Calloc("pStrings", {}),
                         Copy("s1", {"pStrings"}), Copy("s2", {"s1", "pStrings"}), OnRequest,
                         Free({"s1", "s2", "pStrings"})>>))
    BY <1>1, TidyProgram
  <1>3. QED
    BY <1>2, PlainPrograms DEF sendImsSms

\* setCarrierInfoForImsiEncryption(), which frees less than it copied.
LEMMA CarrierInfoGood ==
  GoodProgram("setCarrierInfoForImsiEncryption", setCarrierInfoForImsiEncryption)
  <1>1. ASSUME NEW steps,
               steps = <<Add, Copy("mnc", {}), Copy("mcc", {"mnc"}),
                         Copy("keyIdentifier", {"mnc", "mcc"}), New("carrierKey"), OnRequest,
                         Free({"carrierKey"})>>
        PROVE  GoodOrder(steps) /\ GoodFrees(steps) /\ steps[1].op = "add"
    <2>1. GoodOrder(steps) /\ steps[1].op = "add"
      BY <1>1, StepFields DEF GoodOrder
    <2>2. /\ \A i \in 1 .. Len(steps) : steps[i].op # "junk"
          /\ \A i, j \in 1 .. Len(steps) :
               j < i /\ Allocates(steps[j]) /\ Exits(steps[i]) => steps[j].x \in steps[i].frees
      BY <1>1, StepFields DEF Allocates, Exits
    <2>3. Len(steps) \in Nat
      BY <1>1
    <2>4. QED
      BY <2>1, <2>2, <2>3, GoodPairs
  <1>2. QED
    BY <1>1, ProgramFields DEF GoodProgram, setCarrierInfoForImsiEncryption

\* Steps between the first and the call of the vendor.
Inner == {"check", "fail", "calloc", "new", "copy", "copyOrEmpty", "copyChars", "copyCharsOrEmpty"}

\* Copies between the request and its hand over are in order.
LEMMA OrderOfCopies ==
  ASSUME NEW steps, NEW n \in Nat, n >= 3, Len(steps) = n, steps[1].op = "add",
         \A i \in 2 .. n - 2 : steps[i].op \in Inner,
         steps[n - 1].op = "onRequest", steps[n].op = "free"
  PROVE  GoodOrder(steps)
BY DEF GoodOrder, Inner

\* A list of copies that is given as a function.
LEMMA FunctionIsSequence ==
  ASSUME NEW n \in Nat, NEW f, f = [i \in 1 .. n |-> f[i]]
  PROVE  \E S : f \in Seq(S) /\ Len(f) = n
  <1>1. f \in Seq({f[i] : i \in 1 .. n}) /\ Len(f) = n
    OBVIOUS
  <1>2. QED
    BY <1>1

\* The steps of a program around its list of copies.
LEMMA CopiesSteps ==
  ASSUME NEW S, NEW copies \in Seq(S), NEW a, NEW b, NEW c, NEW d
  PROVE  LET steps == <<a, b>> \o copies \o <<c, d>>
             n == Len(copies)
         IN  /\ Len(steps) = n + 4 /\ steps[1] = a /\ steps[2] = b
             /\ \A i \in 3 .. n + 2 : steps[i] = copies[i - 2]
             /\ steps[n + 3] = c /\ steps[n + 4] = d
OBVIOUS

\* The copies of n strings: each exit frees those before it.
Growing(copies, n) ==
  \A i \in 1 .. n : /\ copies[i].op \in {"copy", "copyOrEmpty", "copyChars", "copyCharsOrEmpty"}
                    /\ copies[i].x = Str[i]
                    /\ copies[i].frees = StrUpTo(i - 1) \cup {"pStrings"}

\* The loop of dispatchStrings(), however many strings it copies.
LEMMA CopiesGood ==
  ASSUME NEW m, NEW r, NEW n \in 0 .. 15, NEW S, NEW copies \in Seq(S), Len(copies) = n,
         Growing(copies, n)
  PROVE  GoodProgram(m, dispatchCopies(r, copies, n))
  <1> DEFINE steps == <<Add, Calloc("pStrings", {})>> \o copies
                      \o <<OnRequest, Free(StrUpTo(n) \cup {"pStrings"})>>
  <1>1. /\ Len(steps) = n + 4 /\ steps[1] = Add /\ steps[2] = Calloc("pStrings", {})
        /\ \A i \in 3 .. n + 2 : steps[i] = copies[i - 2]
        /\ steps[n + 3] = OnRequest /\ steps[n + 4] = Free(StrUpTo(n) \cup {"pStrings"})
    BY CopiesSteps
  <1>2. \A i \in 3 .. n + 3 : \A j \in 3 .. i - 1 : Str[j - 2] \in StrUpTo(i - 3)
    BY DEF StrUpTo
  <1>3. dispatchCopies(r, copies, n) = Program(r, steps)
    BY DEF dispatchCopies
  <1> HIDE DEF steps
  <1>4. GoodOrder(steps) /\ steps[1].op = "add"
    <2>1. \A i \in 3 .. n + 2 : steps[i].op \in Inner
      BY <1>1 DEF Inner, Growing
    <2>2. /\ steps[1].op = "add" /\ steps[2].op \in Inner /\ steps[n + 3].op = "onRequest"
          /\ steps[n + 4].op = "free"
      BY <1>1, StepFields DEF Inner
    <2>3. \A i \in 2 .. n + 2 : steps[i].op \in Inner
      BY <2>1, <2>2
    <2>4. QED
      BY <1>1, <2>2, <2>3, OrderOfCopies
  <1>5. Tidy(steps)
    <2>1. \A i \in 1 .. n + 4 : steps[i].op # "junk"
      <3>1. \A i \in 3 .. n + 2 : steps[i].op # "junk"
        BY <1>1 DEF Growing
      <3>2. /\ steps[1].op # "junk" /\ steps[2].op # "junk" /\ steps[n + 3].op # "junk"
            /\ steps[n + 4].op # "junk"
        BY <1>1, StepFields
      <3>3. QED
        BY <3>1, <3>2
    <2>2. \A i \in 1 .. n + 4 : Allocates(steps[i]) =>
            (i = 2 /\ steps[i].x = "pStrings") \/ (i \in 3 .. n + 2 /\ steps[i].x = Str[i - 2])
      <3>1. \A i \in 3 .. n + 2 : steps[i].x = Str[i - 2]
        BY <1>1 DEF Growing
      <3>2. /\ ~Allocates(steps[1]) /\ ~Allocates(steps[n + 3]) /\ ~Allocates(steps[n + 4])
            /\ steps[2].x = "pStrings"
        BY <1>1, StepFields DEF Allocates
      <3>3. \A i \in 1 .. n + 4 : i \in {1, 2, n + 3, n + 4} \/ i \in 3 .. n + 2
        OBVIOUS
      <3>4. QED
        BY <3>1, <3>2, <3>3
    <2>3. \A i \in 3 .. n + 4 : Exits(steps[i]) \/ steps[i].op = "free" =>
            /\ "pStrings" \in steps[i].frees
            /\ \A j \in 3 .. i - 1 : j <= n + 2 => Str[j - 2] \in steps[i].frees
      <3>1. \A i \in 3 .. n + 2 : steps[i].frees = StrUpTo(i - 3) \cup {"pStrings"}
        BY <1>1 DEF Growing
      <3>2. steps[n + 3].op = "onRequest" /\ steps[n + 4].frees = StrUpTo(n) \cup {"pStrings"}
        BY <1>1, StepFields
      <3>3. \A i \in 3 .. n + 2 : /\ "pStrings" \in steps[i].frees
                                  /\ \A j \in 3 .. i - 1 : Str[j - 2] \in steps[i].frees
        BY <1>2, <3>1
      <3>4. /\ "pStrings" \in steps[n + 4].frees
            /\ \A j \in 3 .. n + 2 : Str[j - 2] \in steps[n + 4].frees
        <4>1. \A j \in 3 .. n + 2 : Str[j - 2] \in StrUpTo(n)
          BY DEF StrUpTo
        <4>2. QED
          BY <3>2, <4>1
      <3>5. ~(Exits(steps[n + 3]) \/ steps[n + 3].op = "free")
        BY <3>2 DEF Exits
      <3>6. \A i \in 3 .. n + 4 : i \in 3 .. n + 2 \/ i = n + 3 \/ i = n + 4
        OBVIOUS
      <3>7. QED
        BY <3>3, <3>4, <3>5, <3>6
    <2>4. steps[n + 4].op = "free"
      BY <1>1, StepFields
    <2>5. ASSUME NEW i \in 1 .. n + 4, NEW j \in 1 .. i - 1, Allocates(steps[j])
          PROVE  Exits(steps[i]) \/ steps[i].op = "free" => steps[j].x \in steps[i].frees
      <3>1. i \in 3 .. n + 4 /\ j \in 1 .. n + 4
        BY <2>2, <2>5
      <3>2. (j = 2 /\ steps[j].x = "pStrings") \/ (j \in 3 .. n + 2 /\ steps[j].x = Str[j - 2])
        BY <2>2, <2>5, <3>1
      <3>3. QED
        BY <2>3, <3>1, <3>2
    <2>6. QED
      BY <1>1, <2>1, <2>4, <2>5 DEF Tidy
  <1>6. QED
    BY <1>3, <1>4, <1>5, TidyProgram

\* dispatchStrings() of up to fifteen strings, with and without the empty ones.
LEMMA StringsGood ==
  ASSUME NEW m, NEW r, NEW n \in 0 .. 15
  PROVE  /\ GoodProgram(m, dispatchStrings(r, n)) /\ GoodProgram(m, dispatchStringsOrEmpty(r, n))
         /\ GoodProgram(m, dispatchStringVector(r, n))
  <1>1. GoodProgram(m, dispatchStrings(r, n))
    <2> DEFINE copy == [i \in 1 .. n |-> CopyChars(Str[i], StrUpTo(i - 1) \cup {"pStrings"})]
    <2>1. Growing(copy, n)
      BY StepFields DEF Growing
    <2>2. dispatchStrings(r, n) = dispatchCopies(r, copy, n)
      BY DEF dispatchStrings
    <2>3. copy = [i \in 1 .. n |-> copy[i]]
      OBVIOUS
    <2> HIDE DEF copy
    <2>4. PICK S : copy \in Seq(S) /\ Len(copy) = n
      <3>1. n \in Nat
        OBVIOUS
      <3>2. QED
        BY <2>3, <3>1, FunctionIsSequence, Zenon
    <2>5. QED
      BY <2>1, <2>2, <2>4, CopiesGood
  <1>2. GoodProgram(m, dispatchStringsOrEmpty(r, n))
    <2> DEFINE copy == [i \in 1 .. n |-> CopyCharsOrEmpty(Str[i], StrUpTo(i - 1) \cup {"pStrings"})]
    <2>1. Growing(copy, n)
      BY StepFields DEF Growing
    <2>2. dispatchStringsOrEmpty(r, n) = dispatchCopies(r, copy, n)
      BY DEF dispatchStringsOrEmpty
    <2>3. copy = [i \in 1 .. n |-> copy[i]]
      OBVIOUS
    <2> HIDE DEF copy
    <2>4. PICK S : copy \in Seq(S) /\ Len(copy) = n
      <3>1. n \in Nat
        OBVIOUS
      <3>2. QED
        BY <2>3, <3>1, FunctionIsSequence, Zenon
    <2>5. QED
      BY <2>1, <2>2, <2>4, CopiesGood
  <1>3. GoodProgram(m, dispatchStringVector(r, n))
    <2> DEFINE copy == [i \in 1 .. n |-> Copy(Str[i], StrUpTo(i - 1) \cup {"pStrings"})]
    <2>1. Growing(copy, n)
      BY StepFields DEF Growing
    <2>2. dispatchStringVector(r, n) = dispatchCopies(r, copy, n)
      BY DEF dispatchStringVector
    <2>3. copy = [i \in 1 .. n |-> copy[i]]
      OBVIOUS
    <2> HIDE DEF copy
    <2>4. PICK S : copy \in Seq(S) /\ Len(copy) = n
      <3>1. n \in Nat
        OBVIOUS
      <3>2. QED
        BY <2>3, <3>1, FunctionIsSequence, Zenon
    <2>5. QED
      BY <2>1, <2>2, <2>4, CopiesGood
  <1>4. QED
    BY <1>1, <1>2, <1>3

\* Sequences that are joined, written out.
LEMMA SameSequence ==
  ASSUME NEW S, NEW s \in Seq(S), NEW t \in Seq(S), Len(s) = Len(t),
         \A i \in 1 .. Len(s) : s[i] = t[i]
  PROVE  s = t
OBVIOUS

\* Programs that are joined from three parts, as one list: seven steps,
LEMMA Joined7 ==
  ASSUME NEW a, NEW b, NEW c, NEW d, NEW e, NEW f, NEW g
  PROVE  <<a>> \o <<b, c, d, e>> \o <<f, g>> = <<a, b, c, d, e, f, g>>
  <1> DEFINE S == {a, b, c, d, e, f, g}
             s == <<a>> \o <<b, c, d, e>> \o <<f, g>>
             t == <<a, b, c, d, e, f, g>>
  <1>1. s \in Seq(S) /\ t \in Seq(S)
    OBVIOUS
  <1>2. Len(s) = 7 /\ Len(t) = 7 /\ \A k \in 1 .. 7 : s[k] = t[k]
    OBVIOUS
  <1> HIDE DEF s, t, S
  <1>3. s = t
    BY <1>1, <1>2, SameSequence
  <1>4. QED
    BY <1>3 DEF s, t

\* nine steps,
LEMMA Joined9 ==
  ASSUME NEW a, NEW b, NEW c, NEW d, NEW e, NEW f, NEW g, NEW h, NEW i
  PROVE  <<a>> \o <<b, c, d, e, f>> \o <<>> \o <<g, h, i>> = <<a, b, c, d, e, f, g, h, i>>
  <1> DEFINE S == {a, b, c, d, e, f, g, h, i}
             s == <<a>> \o <<b, c, d, e, f>> \o <<>> \o <<g, h, i>>
             t == <<a, b, c, d, e, f, g, h, i>>
  <1>1. s \in Seq(S) /\ t \in Seq(S)
    OBVIOUS
  <1>2. Len(s) = 9 /\ Len(t) = 9 /\ \A k \in 1 .. 9 : s[k] = t[k]
    OBVIOUS
  <1> HIDE DEF s, t, S
  <1>3. s = t
    BY <1>1, <1>2, SameSequence
  <1>4. QED
    BY <1>3 DEF s, t

\* and ten steps.
LEMMA Joined10 ==
  ASSUME NEW a, NEW b, NEW c, NEW d, NEW e, NEW f, NEW g, NEW h, NEW i, NEW j
  PROVE  <<a>> \o <<b, c, d, e, f>> \o <<g>> \o <<h, i, j>> = <<a, b, c, d, e, f, g, h, i, j>>
  <1> DEFINE S == {a, b, c, d, e, f, g, h, i, j}
             s == <<a>> \o <<b, c, d, e, f>> \o <<g>> \o <<h, i, j>>
             t == <<a, b, c, d, e, f, g, h, i, j>>
  <1>1. s \in Seq(S) /\ t \in Seq(S)
    OBVIOUS
  <1>2. Len(s) = 10 /\ Len(t) = 10 /\ \A k \in 1 .. 10 : s[k] = t[k]
    OBVIOUS
  <1> HIDE DEF s, t, S
  <1>3. s = t
    BY <1>1, <1>2, SameSequence
  <1>4. QED
    BY <1>3 DEF s, t

\* Every step of a data profile frees everything; NULL is skipped.
ProfileSteps(frees) ==
  {Copy(x, frees) : x \in frees} \cup {CopyOrEmpty(x, frees) : x \in frees}
  \cup {FailFreeing("INVALID_ARGUMENTS", frees)}

\* The programs that copy data profiles: every exit frees the same arrays and
\* fields.
LEMMA ProfileProgram ==
  ASSUME NEW m, NEW r, NEW frees, "dataProfiles" \in frees, "dataProfilePtrs" \in frees,
         NEW A \in Seq(ProfileSteps(frees)), NEW B \in Seq(ProfileSteps(frees))
  PROVE  GoodProgram(m, Program(r,
           <<Add, Calloc("dataProfiles", {}), Calloc("dataProfilePtrs", {"dataProfiles"})>>
           \o A \o B \o <<OnRequest, Free(frees)>>))
  <1> DEFINE steps == <<Add, Calloc("dataProfiles", {}),
                        Calloc("dataProfilePtrs", {"dataProfiles"})>>
                      \o A \o B \o <<OnRequest, Free(frees)>>
             n == 3 + Len(A) + Len(B)
  <1>1. /\ n \in Nat /\ n >= 3 /\ Len(steps) = n + 2 /\ steps[1] = Add
        /\ steps[2] = Calloc("dataProfiles", {})
        /\ steps[3] = Calloc("dataProfilePtrs", {"dataProfiles"})
        /\ steps[n + 1] = OnRequest /\ steps[n + 2] = Free(frees)
    OBVIOUS
  <1>2. \A i \in 4 .. n : steps[i] \in ProfileSteps(frees)
    OBVIOUS
  <1>3. \A s \in ProfileSteps(frees) :
          /\ s.op \in {"copy", "copyOrEmpty", "fail"} /\ s.frees = frees
          /\ Allocates(s) => s.x \in frees
    BY StepFields DEF ProfileSteps, Allocates
  <1> HIDE DEF steps, n
  <1>4. \A i \in 4 .. n :
          /\ steps[i].op \in {"copy", "copyOrEmpty", "fail"} /\ steps[i].frees = frees
          /\ Allocates(steps[i]) => steps[i].x \in frees
    BY <1>2, <1>3
  <1>5. /\ steps[1].op = "add" /\ steps[2].op = "calloc"
        /\ steps[2].x = "dataProfiles" /\ steps[2].frees = {}
        /\ steps[3].op = "calloc" /\ steps[3].x = "dataProfilePtrs"
        /\ steps[3].frees = {"dataProfiles"} /\ steps[n + 1].op = "onRequest"
        /\ steps[n + 2].op = "free" /\ steps[n + 2].frees = frees
    BY <1>1, StepFields
  <1>6. GoodOrder(steps)
    BY <1>1, <1>4, <1>5, OrderOfCopies DEF Inner
  <1>7. Tidy(steps)
    <2>1. \A i \in 1 .. n + 2 : steps[i].op # "junk"
      <3>1. \A i \in 1 .. n + 2 : i \in {1, 2, 3, n + 1, n + 2} \/ i \in 4 .. n
        BY <1>1
      <3>2. \A i \in 4 .. n : steps[i].op # "junk"
        BY <1>4
      <3>3. \A i \in {1, 2, 3, n + 1, n + 2} : steps[i].op # "junk"
        BY <1>5
      <3>4. QED
        BY <3>1, <3>2, <3>3
    <2>2. \A i \in 1 .. n + 2 : Allocates(steps[i]) =>
            (i = 2 \/ i \in 3 .. n) /\ steps[i].x \in frees
      BY <1>1, <1>4, <1>5 DEF Allocates
    <2>3. \A i \in 4 .. n + 2 : Exits(steps[i]) \/ steps[i].op = "free" => steps[i].frees = frees
      BY <1>1, <1>4, <1>5 DEF Exits
    <2>4. QED
      <3>1. ASSUME NEW i \in 1 .. n + 2, NEW j \in 1 .. i - 1, Allocates(steps[j])
            PROVE  Exits(steps[i]) \/ steps[i].op = "free" => steps[j].x \in steps[i].frees
        <4>1. j \in 1 .. n + 2 /\ (j = 2 \/ j \in 3 .. n) /\ steps[j].x \in frees
          BY <1>1, <2>2, <3>1
        <4>2. CASE i = 3
          BY <1>5, <4>1, <4>2
        <4>3. CASE i \in 4 .. n + 2
          BY <2>3, <4>1, <4>3
        <4>4. QED
          BY <1>1, <4>1, <4>2, <4>3
      <3>2. QED
        BY <1>1, <1>5, <2>1, <3>1 DEF Tidy
  <1>8. QED
    BY <1>5, <1>6, <1>7, TidyProgram DEF steps

\* The programs that depend on the version and on the arguments.
LEMMA SetupDataCallGood ==
  ASSUME NEW m, NEW version \in Nat, NEW known \in BOOLEAN
  PROVE  GoodProgram(m, setupDataCall(version, known))
  <1>1. CASE version \in 4 .. 14
    <2>1. setupDataCall(version, known) = dispatchStringsOrEmpty("SETUP_DATA_CALL", 7)
      BY <1>1 DEF setupDataCall
    <2>2. QED
      BY <2>1, StringsGood
  <1>2. CASE version >= 15 /\ known
    <2>1. setupDataCall(version, known) = dispatchStringsOrEmpty("SETUP_DATA_CALL", 15)
      BY <1>2 DEF setupDataCall
    <2>2. QED
      BY <2>1, StringsGood
  <1>3. CASE version >= 15 /\ ~known
    <2>1. setupDataCall(version, known) =
            Program("SETUP_DATA_CALL", <<Add, Fail("INVALID_ARGUMENTS")>>)
      BY <1>3 DEF setupDataCall
    <2>2. QED
      BY <2>1, PlainPrograms
  <1>4. CASE version < 4
    <2>1. setupDataCall(version, known) =
            Program("SETUP_DATA_CALL", <<Add, Fail("REQUEST_NOT_SUPPORTED")>>)
      BY <1>4 DEF setupDataCall
    <2>2. QED
      BY <2>1, PlainPrograms
  <1>5. QED
    BY <1>1, <1>2, <1>3, <1>4

\* setDataProfile(), for any version and up to two profiles.
LEMMA DataProfileGood ==
  ASSUME NEW m, NEW version \in Nat, NEW known \in BOOLEAN, NEW n \in 0 .. 2
  PROVE  GoodProgram(m, setDataProfile(version, known, n))
  <1> DEFINE fields == IF version <= 14 THEN {1, 2, 4, 5} ELSE 1 .. 6
             frees == freeSetDataProfileData(fields, n)
             copy(i, f) == IF f \in fields
                           THEN <<IF version >= 15 /\ f = 2 THEN Copy(ProfileFields[i][f], frees)
                                  ELSE CopyOrEmpty(ProfileFields[i][f], frees)>>
                           ELSE <<>>
             profile(i) ==
               copy(i, 1) \o copy(i, 2) \o copy(i, 3) \o copy(i, 4) \o copy(i, 5) \o copy(i, 6)
               \o (IF version <= 14 \/ known THEN <<>>
                   ELSE <<FailFreeing("INVALID_ARGUMENTS", frees)>>)
             A == IF n >= 1 THEN profile(1) ELSE <<>>
             B == IF n >= 2 THEN profile(2) ELSE <<>>
             S == ProfileSteps(frees)
  <1>1. "dataProfiles" \in frees /\ "dataProfilePtrs" \in frees
    BY DEF freeSetDataProfileData
  <1>2. \A i \in 1 .. n, f \in fields : ProfileFields[i][f] \in frees
    BY DEF freeSetDataProfileData
  <1>3. setDataProfile(version, known, n) = Program("SET_DATA_PROFILE",
          <<Add, Calloc("dataProfiles", {}), Calloc("dataProfilePtrs", {"dataProfiles"})>>
          \o A \o B \o <<OnRequest, Free(frees)>>)
    BY DEF setDataProfile
  <1> HIDE DEF fields, frees
  <1>4. ASSUME NEW i \in 1 .. n, NEW f \in 1 .. 6
        PROVE  copy(i, f) \in Seq(S)
    <2>1. CASE f \in fields
      <3> DEFINE x == ProfileFields[i][f]
      <3>1. x \in frees
        BY <1>2, <2>1
      <3> HIDE DEF x
      <3>2. Copy(x, frees) \in S /\ CopyOrEmpty(x, frees) \in S
        BY <3>1 DEF ProfileSteps
      <3>3. QED
        BY <2>1, <3>2 DEF x
    <2>2. CASE f \notin fields
      BY <2>2
    <2>3. QED
      BY <2>1, <2>2
  <1>5. (IF version <= 14 \/ known THEN <<>> ELSE <<FailFreeing("INVALID_ARGUMENTS", frees)>>)
          \in Seq(S)
    <2>1. FailFreeing("INVALID_ARGUMENTS", frees) \in S
      BY DEF ProfileSteps
    <2> HIDE DEF S
    <2>2. QED
      BY <2>1
  <1> HIDE DEF copy, S
  <1>6. ASSUME NEW i \in 1 .. n
        PROVE  profile(i) \in Seq(S)
    BY <1>4, <1>5
  <1> HIDE DEF profile
  <1>7. A \in Seq(S) /\ B \in Seq(S)
    BY <1>6
  <1> HIDE DEF A, B
  <1>8. QED
    BY <1>1, <1>3, <1>7, ProfileProgram DEF S

\* setInitialAttachApn(), for any version.
LEMMA AttachApnGood ==
  ASSUME NEW m, NEW version \in Nat, NEW known \in BOOLEAN
  PROVE  GoodProgram(m, setInitialAttachApn(version, known))
  <1> DEFINE first == <<"apn", "protocol", "username", "password">>
             since15 == <<"apn", "protocol", "roamingProtocol", "username", "password">>
             copies(fields) == [i \in DOMAIN fields |->
                                  IF i = 1 THEN CopyOrEmpty("apn", {})
                                  ELSE Copy(fields[i], {fields[j] : j \in 1 .. i - 1})]
             copies4 == <<CopyOrEmpty("apn", {}), Copy("protocol", {"apn"}),
                          Copy("username", {"apn", "protocol"}),
                          Copy("password", {"apn", "protocol", "username"})>>
             copies5 == <<CopyOrEmpty("apn", {}), Copy("protocol", {"apn"}),
                          Copy("roamingProtocol", {"apn", "protocol"}),
                          Copy("username", {"apn", "protocol", "roamingProtocol"}),
                          Copy("password", {"apn", "protocol", "roamingProtocol", "username"})>>
             all4 == {"apn", "protocol", "username", "password"}
             all5 == {"apn", "protocol", "roamingProtocol", "username", "password"}
  <1>1. copies(first) = copies4 /\ Names(first) = all4
    <2>1. /\ DOMAIN first = 1 .. 4 /\ first[1] = "apn" /\ first[2] = "protocol"
          /\ first[3] = "username" /\ first[4] = "password"
      OBVIOUS
    <2> HIDE DEF first
    <2>2. /\ {first[j] : j \in 1 .. 1} = {"apn"} /\ {first[j] : j \in 1 .. 2} = {"apn", "protocol"}
          /\ {first[j] : j \in 1 .. 3} = {"apn", "protocol", "username"}
      BY <2>1
    <2>3. QED
      BY <2>1, <2>2 DEF Names
  <1>2. copies(since15) = copies5 /\ Names(since15) = all5
    <2>1. /\ DOMAIN since15 = 1 .. 5 /\ since15[1] = "apn" /\ since15[2] = "protocol"
          /\ since15[3] = "roamingProtocol" /\ since15[4] = "username" /\ since15[5] = "password"
      OBVIOUS
    <2> HIDE DEF since15
    <2>2. /\ {since15[j] : j \in 1 .. 1} = {"apn"}
          /\ {since15[j] : j \in 1 .. 2} = {"apn", "protocol"}
          /\ {since15[j] : j \in 1 .. 3} = {"apn", "protocol", "roamingProtocol"}
          /\ {since15[j] : j \in 1 .. 4} = {"apn", "protocol", "roamingProtocol", "username"}
      BY <2>1
    <2>3. QED
      BY <2>1, <2>2 DEF Names
  <1> HIDE DEF all4, all5
  <1>3. CASE version <= 14
    <2> DEFINE steps == <<Add, CopyOrEmpty("apn", {}), Copy("protocol", {"apn"}),
                          Copy("username", {"apn", "protocol"}),
                          Copy("password", {"apn", "protocol", "username"}),
                          OnRequest, Free(all4)>>
    <2>1. <<Add>> \o copies4 \o <<OnRequest, Free(all4)>> = steps
      BY Joined7
    <2>2. setInitialAttachApn(version, known) =
            Program("SET_INITIAL_ATTACH_APN",
                    <<Add>> \o copies(first) \o <<OnRequest, Free(Names(first))>>)
      BY <1>3 DEF setInitialAttachApn
    <2>3. setInitialAttachApn(version, known) = Program("SET_INITIAL_ATTACH_APN", steps)
      BY <1>1, <2>1, <2>2
    <2>4. ASSUME NEW t, t = steps
          PROVE  GoodOrder(t) /\ Tidy(t) /\ t[1].op = "add"
      BY <2>4, StepFields DEF GoodOrder, Tidy, Allocates, Exits, all4
    <2> HIDE DEF steps
    <2>5. QED
      BY <2>3, <2>4, TidyProgram
  <1>4. CASE version > 14 /\ known
    <2> DEFINE steps == <<Add, CopyOrEmpty("apn", {}), Copy("protocol", {"apn"}),
                          Copy("roamingProtocol", {"apn", "protocol"}),
                          Copy("username", {"apn", "protocol", "roamingProtocol"}),
                          Copy("password", {"apn", "protocol", "roamingProtocol", "username"}),
                          Copy("mvnoMatchData", all5), OnRequest,
                          Free(all5 \cup {"mvnoMatchData"})>>
    <2>1. <<Add>> \o copies5 \o <<>>
          \o <<Copy("mvnoMatchData", all5), OnRequest, Free(all5 \cup {"mvnoMatchData"})>> = steps
      BY Joined9
    <2>2. setInitialAttachApn(version, known) =
            Program("SET_INITIAL_ATTACH_APN", <<Add>> \o copies(since15) \o <<>>
              \o <<Copy("mvnoMatchData", Names(since15)), OnRequest,
                   Free(Names(since15) \cup {"mvnoMatchData"})>>)
      BY <1>4 DEF setInitialAttachApn
    <2>3. setInitialAttachApn(version, known) = Program("SET_INITIAL_ATTACH_APN", steps)
      BY <1>2, <2>1, <2>2
    <2>4. ASSUME NEW t, t = steps
          PROVE  GoodOrder(t) /\ Tidy(t) /\ t[1].op = "add"
      BY <2>4, StepFields DEF GoodOrder, Tidy, Allocates, Exits, all5
    <2> HIDE DEF steps
    <2>5. QED
      BY <2>3, <2>4, TidyProgram
  <1>5. CASE version > 14 /\ ~known
    <2> DEFINE steps == <<Add, CopyOrEmpty("apn", {}), Copy("protocol", {"apn"}),
                          Copy("roamingProtocol", {"apn", "protocol"}),
                          Copy("username", {"apn", "protocol", "roamingProtocol"}),
                          Copy("password", {"apn", "protocol", "roamingProtocol", "username"}),
                          FailFreeing("INVALID_ARGUMENTS", all5),
                          Copy("mvnoMatchData", all5), OnRequest,
                          Free(all5 \cup {"mvnoMatchData"})>>
    <2>1. <<Add>> \o copies5 \o <<FailFreeing("INVALID_ARGUMENTS", all5)>>
          \o <<Copy("mvnoMatchData", all5), OnRequest, Free(all5 \cup {"mvnoMatchData"})>> = steps
      BY Joined10
    <2>2. setInitialAttachApn(version, known) =
            Program("SET_INITIAL_ATTACH_APN", <<Add>> \o copies(since15)
              \o <<FailFreeing("INVALID_ARGUMENTS", Names(since15))>>
              \o <<Copy("mvnoMatchData", Names(since15)), OnRequest,
                   Free(Names(since15) \cup {"mvnoMatchData"})>>)
      BY <1>5 DEF setInitialAttachApn
    <2>3. setInitialAttachApn(version, known) = Program("SET_INITIAL_ATTACH_APN", steps)
      BY <1>2, <2>1, <2>2
    <2>4. ASSUME NEW t, t = steps
          PROVE  GoodOrder(t) /\ Tidy(t) /\ t[1].op = "add"
      BY <2>4, StepFields DEF GoodOrder, Tidy, Allocates, Exits, all5
    <2> HIDE DEF steps
    <2>5. QED
      BY <2>3, <2>4, TidyProgram
  <1>6. QED
    BY <1>3, <1>4, <1>5

-----------------------------------------------------------------------------
(***************************************************************************)
(* The tables of the methods                                               *)
(***************************************************************************)

\* The request is in the vendor's table, with the response function of the method.
Answered(m, r) ==
  /\ r \in DOMAIN s_commands
  /\ m \notin OtherCallback \cup {"setSimCardPower_1_1"} =>
       s_commands[r] = OwnCallback(m) /\ s_commands[r] \notin OtherCallback

GoodMethods(t) == \A m \in DOMAIN t : GoodProgram(m, t[m]) /\ Answered(m, t[m].request)

\* Good methods make a good table.
LEMMA TableMethods ==
  ASSUME NEW parts, \A i \in DOMAIN parts : GoodMethods(parts[i])
  PROVE  GoodMethods(Table(parts))
BY TableRows DEF GoodMethods

\* The dispatch functions make good programs, of the request they are given.
LEMMA DispatchGood ==
  ASSUME NEW m, NEW r
  PROVE  /\ GoodProgram(m, dispatchVoid(r)) /\ GoodProgram(m, dispatchString(r))
         /\ GoodProgram(m, dispatchInts(r)) /\ GoodProgram(m, dispatchCallForwardStatus(r))
         /\ GoodProgram(m, dispatchRaw(r)) /\ GoodProgram(m, dispatchIccApdu(r))
BY PlainPrograms, OneCopy
   DEF dispatchVoid, dispatchString, dispatchInts, dispatchCallForwardStatus, dispatchRaw,
       dispatchIccApdu

\* The request that a dispatch function makes is the one it was called with.
LEMMA DispatchRequests ==
  ASSUME NEW r
  PROVE  /\ dispatchVoid(r).request = r /\ dispatchString(r).request = r
         /\ dispatchInts(r).request = r /\ dispatchCallForwardStatus(r).request = r
         /\ dispatchRaw(r).request = r /\ dispatchIccApdu(r).request = r
BY ProgramFields
   DEF dispatchVoid, dispatchString, dispatchInts, dispatchCallForwardStatus, dispatchRaw,
       dispatchIccApdu

\* So it is for the functions that dispatch strings.
LEMMA StringsRequests ==
  ASSUME NEW r, NEW n \in Nat
  PROVE  /\ dispatchStrings(r, n).request = r /\ dispatchStringsOrEmpty(r, n).request = r
         /\ dispatchStringVector(r, n).request = r
BY ProgramFields
   DEF dispatchStrings, dispatchStringsOrEmpty, dispatchStringVector, dispatchCopies

\* Table by table.
LEMMA SimPinMethods == GoodMethods(SimPinRequests)
  <1>1. \A m \in DOMAIN SimPinRequests : GoodProgram(m, SimPinRequests[m])
    BY DispatchGood, StringsGood DEF SimPinRequests
  <1>2. \A m \in DOMAIN SimPinRequests : Answered(m, SimPinRequests[m].request)
    BY DispatchRequests, StringsRequests
       DEF SimPinRequests, Answered, s_commands, OwnCallback, OtherCallback
  <1>3. QED
    BY <1>1, <1>2 DEF GoodMethods

\* Making and ending calls.
LEMMA CallMethods == GoodMethods(CallRequests)
  <1>1. \A m \in DOMAIN CallRequests : GoodProgram(m, CallRequests[m])
    BY DispatchGood, StringsGood DEF CallRequests
  <1>2. \A m \in DOMAIN CallRequests : Answered(m, CallRequests[m].request)
    BY DispatchRequests, StringsRequests, SMTT(60)
       DEF CallRequests, Answered, s_commands, OwnCallback, OtherCallback
  <1>3. QED
    BY <1>1, <1>2 DEF GoodMethods

\* The supplementary services.
LEMMA SupplementaryMethods == GoodMethods(SupplementaryRequests)
  <1>1. \A m \in DOMAIN SupplementaryRequests : GoodProgram(m, SupplementaryRequests[m])
    BY DispatchGood, StringsGood DEF SupplementaryRequests
  <1>2. \A m \in DOMAIN SupplementaryRequests : Answered(m, SupplementaryRequests[m].request)
    BY DispatchRequests, StringsRequests, SMTT(60)
       DEF SupplementaryRequests, Answered, s_commands, OwnCallback, OtherCallback
  <1>3. QED
    BY <1>1, <1>2 DEF GoodMethods

\* The choice of a network.
LEMMA NetworkSelectionMethods == GoodMethods(NetworkSelectionRequests)
  <1>1. \A m \in DOMAIN NetworkSelectionRequests : GoodProgram(m, NetworkSelectionRequests[m])
    BY DispatchGood, StringsGood DEF NetworkSelectionRequests
  <1>2. \A m \in DOMAIN NetworkSelectionRequests : Answered(m, NetworkSelectionRequests[m].request)
    BY DispatchRequests, StringsRequests
       DEF NetworkSelectionRequests, Answered, s_commands, OwnCallback, OtherCallback
  <1>3. QED
    BY <1>1, <1>2 DEF GoodMethods

\* Tones and muting.
LEMMA ToneAndMuteMethods == GoodMethods(ToneAndMuteRequests)
  <1>1. \A m \in DOMAIN ToneAndMuteRequests : GoodProgram(m, ToneAndMuteRequests[m])
    BY DispatchGood, StringsGood DEF ToneAndMuteRequests
  <1>2. \A m \in DOMAIN ToneAndMuteRequests : Answered(m, ToneAndMuteRequests[m].request)
    BY DispatchRequests, StringsRequests, SMTT(60)
       DEF ToneAndMuteRequests, Answered, s_commands, OwnCallback, OtherCallback
  <1>3. QED
    BY <1>1, <1>2 DEF GoodMethods

\* The SIM toolkit and the preferences of CDMA.
LEMMA StkAndCdmaMethods == GoodMethods(StkAndCdmaRequests)
  <1>1. \A m \in DOMAIN StkAndCdmaRequests : GoodProgram(m, StkAndCdmaRequests[m])
    BY DispatchGood, StringsGood DEF StkAndCdmaRequests
  <1>2. \A m \in DOMAIN StkAndCdmaRequests : Answered(m, StkAndCdmaRequests[m].request)
    BY DispatchRequests, StringsRequests
       DEF StkAndCdmaRequests, Answered, s_commands, OwnCallback, OtherCallback
  <1>3. QED
    BY <1>1, <1>2 DEF GoodMethods

\* The messages of CDMA.
LEMMA CdmaSmsMethods == GoodMethods(CdmaSmsRequests)
  <1>1. \A m \in DOMAIN CdmaSmsRequests : GoodProgram(m, CdmaSmsRequests[m])
    BY DispatchGood, StringsGood, PlainPrograms, OneCopy DEF CdmaSmsRequests
  <1>2. \A m \in DOMAIN CdmaSmsRequests : Answered(m, CdmaSmsRequests[m].request)
    BY DispatchRequests, StringsRequests, ProgramFields
       DEF CdmaSmsRequests, Answered, s_commands, OwnCallback, OtherCallback
  <1>3. QED
    BY <1>1, <1>2 DEF GoodMethods

\* Cell broadcasts.
LEMMA BroadcastMethods == GoodMethods(BroadcastRequests)
  <1>1. \A m \in DOMAIN BroadcastRequests : GoodProgram(m, BroadcastRequests[m])
    BY DispatchGood, StringsGood, PlainPrograms, OneCopy DEF BroadcastRequests
  <1>2. \A m \in DOMAIN BroadcastRequests : Answered(m, BroadcastRequests[m].request)
    BY DispatchRequests, StringsRequests, ProgramFields
       DEF BroadcastRequests, Answered, s_commands, OwnCallback, OtherCallback
  <1>3. QED
    BY <1>1, <1>2 DEF GoodMethods

\* The identity of the device, the SMSC address and the cells.
LEMMA DeviceMethods == GoodMethods(DeviceRequests)
  <1>1. \A m \in DOMAIN DeviceRequests : GoodProgram(m, DeviceRequests[m])
    BY DispatchGood, StringsGood DEF DeviceRequests
  <1>2. \A m \in DOMAIN DeviceRequests : Answered(m, DeviceRequests[m].request)
    BY DispatchRequests, StringsRequests, SMTT(60)
       DEF DeviceRequests, Answered, s_commands, OwnCallback, OtherCallback
  <1>3. QED
    BY <1>1, <1>2 DEF GoodMethods

\* The non-volatile memory and the subscription of a UICC.
LEMMA NvMethods == GoodMethods(NvRequests)
  <1>1. \A m \in DOMAIN NvRequests : GoodProgram(m, NvRequests[m])
    <2>1. GoodProgram("nvWriteItem",
            Program("NV_WRITE_ITEM", <<Add, Copy("value", {}), OnRequest, Free({"value"})>>))
      BY OneCopy
    <2>2. GoodProgram("setUiccSubscription", Program("SET_UICC_SUBSCRIPTION", <<Add, OnRequest>>))
      BY PlainPrograms
    <2>3. QED
      BY <2>1, <2>2, DispatchGood DEF NvRequests
  <1>2. \A m \in DOMAIN NvRequests : Answered(m, NvRequests[m].request)
    BY DispatchRequests, StringsRequests, ProgramFields
       DEF NvRequests, Answered, s_commands, OwnCallback, OtherCallback
  <1>3. QED
    BY <1>1, <1>2 DEF GoodMethods

\* The capability of the radio and the link capacity.
LEMMA CapabilityMethods == GoodMethods(CapabilityRequests)
  <1>1. \A m \in DOMAIN CapabilityRequests : GoodProgram(m, CapabilityRequests[m])
    BY DispatchGood, StringsGood, PlainPrograms, OneCopy DEF CapabilityRequests
  <1>2. \A m \in DOMAIN CapabilityRequests : Answered(m, CapabilityRequests[m].request)
    BY DispatchRequests, StringsRequests, ProgramFields
       DEF CapabilityRequests, Answered, s_commands, OwnCallback, OtherCallback
  <1>3. QED
    BY <1>1, <1>2 DEF GoodMethods

\* The calls of version 1.1.
LEMMA KeepaliveMethods == GoodMethods(KeepaliveRequests)
  <1>1. \A m \in DOMAIN KeepaliveRequests : GoodProgram(m, KeepaliveRequests[m])
    <2>1. GoodProgram("startKeepalive",
            Program("START_KEEPALIVE", <<Add, Check("INVALID_ARGUMENTS", {}), OnRequest>>))
      BY PlainPrograms
    <2>2. GoodProgram("stopKeepalive", Program("STOP_KEEPALIVE", <<Add, OnRequest>>))
      BY PlainPrograms
    <2>3. QED
      BY <2>1, <2>2 DEF KeepaliveRequests
  <1>2. \A m \in DOMAIN KeepaliveRequests : Answered(m, KeepaliveRequests[m].request)
    BY DispatchRequests, StringsRequests, ProgramFields
       DEF KeepaliveRequests, Answered, s_commands, OwnCallback, OtherCallback
  <1>3. QED
    BY <1>1, <1>2 DEF GoodMethods

\* The messages of IMS.
LEMMA ImsMethods ==
  ASSUME NEW tech
  PROVE  GoodMethods(ImsRequests(tech))
  <1>1. sendImsSms(tech).request = "IMS_SEND_SMS"
    BY ProgramFields DEF sendImsSms
  <1>2. \A m \in DOMAIN ImsRequests(tech) : GoodProgram(m, ImsRequests(tech)[m])
    BY DispatchGood, ImsSmsGood DEF ImsRequests
  <1>3. \A m \in DOMAIN ImsRequests(tech) : Answered(m, ImsRequests(tech)[m].request)
    BY <1>1, DispatchRequests DEF ImsRequests, Answered, s_commands, OwnCallback, OtherCallback
  <1>4. QED
    BY <1>2, <1>3 DEF GoodMethods

\* The channels to the SIM, for any version.
LEMMA IccChannelMethods ==
  ASSUME NEW version \in Nat
  PROVE  GoodMethods(IccChannelRequests(version))
  <1> DEFINE open == IF version < 15 THEN dispatchString("SIM_OPEN_CHANNEL")
                     ELSE Program("SIM_OPEN_CHANNEL",
                                  <<Add, Copy("aidPtr", {}), OnRequest, Free({"aidPtr"})>>)
             t == IccChannelRequests(version)
  <1>1. GoodProgram("iccOpenLogicalChannel", open) /\ open.request = "SIM_OPEN_CHANNEL"
    <2>1. CASE version < 15
      BY <2>1, DispatchGood, DispatchRequests
    <2>2. CASE ~(version < 15)
      BY <2>2, OneCopy, ProgramFields
    <2>3. QED
      BY <2>1, <2>2
  <1>2. GoodProgram("nvReadItem", Program("NV_READ_ITEM", <<Add, OnRequest>>))
    BY PlainPrograms
  <1>3. /\ DOMAIN t = {"iccTransmitApduBasicChannel", "iccOpenLogicalChannel",
                       "iccCloseLogicalChannel", "iccTransmitApduLogicalChannel", "nvReadItem"}
        /\ t["iccTransmitApduBasicChannel"] = dispatchIccApdu("SIM_TRANSMIT_APDU_BASIC")
        /\ t["iccOpenLogicalChannel"] = open
        /\ t["iccCloseLogicalChannel"] = dispatchInts("SIM_CLOSE_CHANNEL")
        /\ t["iccTransmitApduLogicalChannel"] = dispatchIccApdu("SIM_TRANSMIT_APDU_CHANNEL")
        /\ t["nvReadItem"] = Program("NV_READ_ITEM", <<Add, OnRequest>>)
    BY DEF IccChannelRequests
  <1> HIDE DEF open, t
  <1>4. \A m \in DOMAIN t : GoodProgram(m, t[m])
    BY <1>1, <1>2, <1>3, DispatchGood
  <1>5. \A m \in DOMAIN t : Answered(m, t[m].request)
    BY <1>1, <1>3, DispatchRequests, ProgramFields
       DEF Answered, s_commands, OwnCallback, OtherCallback
  <1>6. QED
    BY <1>4, <1>5 DEF GoodMethods, t

\* The state of the device, for any version.
LEMMA DeviceStateMethods ==
  ASSUME NEW version \in Nat, NEW known \in BOOLEAN
  PROVE  GoodMethods(DeviceStateRequests(version, known))
  <1> DEFINE t == DeviceStateRequests(version, known)
  <1>1. /\ GoodProgram("sendDeviceState", sendDeviceState(version, known))
        /\ sendDeviceState(version, known).request \in {"SEND_DEVICE_STATE", "SCREEN_STATE"}
    <2>1. CASE version >= 15
      BY <2>1, DispatchGood, DispatchRequests DEF sendDeviceState
    <2>2. CASE version < 15 /\ known
      BY <2>2, DispatchGood, DispatchRequests DEF sendDeviceState
    <2>3. CASE version < 15 /\ ~known
      <3>1. sendDeviceState(version, known) =
              Program("SEND_DEVICE_STATE", <<AddUnchecked, Fail("REQUEST_NOT_SUPPORTED")>>)
        BY <2>3 DEF sendDeviceState
      <3>2. QED
        BY <3>1, UncheckedGood, ProgramFields
    <2>4. QED
      BY <2>1, <2>2, <2>3
  <1>2. /\ GoodProgram("setIndicationFilter", setIndicationFilter(version))
        /\ setIndicationFilter(version).request = "SET_UNSOLICITED_RESPONSE_FILTER"
    <2>1. CASE version >= 15
      BY <2>1, DispatchGood, DispatchRequests DEF setIndicationFilter
    <2>2. CASE ~(version >= 15)
      BY <2>2, UncheckedGood, ProgramFields DEF setIndicationFilter
    <2>3. QED
      BY <2>1, <2>2
  <1>3. /\ DOMAIN t = {"getAllowedCarriers", "sendDeviceState", "setIndicationFilter",
                       "setSimCardPower", "setSimCardPower_1_1"}
        /\ t["getAllowedCarriers"] = dispatchVoid("GET_CARRIER_RESTRICTIONS")
        /\ t["sendDeviceState"] = sendDeviceState(version, known)
        /\ t["setIndicationFilter"] = setIndicationFilter(version)
        /\ t["setSimCardPower"] = dispatchInts("SET_SIM_CARD_POWER")
        /\ t["setSimCardPower_1_1"] = dispatchInts("SET_SIM_CARD_POWER")
    BY DEF DeviceStateRequests
  <1> HIDE DEF t
  <1>4. \A m \in DOMAIN t : GoodProgram(m, t[m])
    BY <1>1, <1>2, <1>3, DispatchGood
  <1>5. \A m \in DOMAIN t : Answered(m, t[m].request)
    BY <1>1, <1>2, <1>3, DispatchRequests DEF Answered, s_commands, OwnCallback, OtherCallback
  <1>6. QED
    BY <1>4, <1>5 DEF GoodMethods, t

\* The OEM hook, with up to two strings.
LEMMA OemHookMethods ==
  ASSUME NEW n \in 0 .. 2
  PROVE  GoodMethods(OemHookRequests(n))
  <1>1. \A m \in DOMAIN OemHookRequests(n) : GoodProgram(m, OemHookRequests(n)[m])
    BY DispatchGood, StringsGood DEF OemHookRequests
  <1>2. \A m \in DOMAIN OemHookRequests(n) : Answered(m, OemHookRequests(n)[m].request)
    BY DispatchRequests, StringsRequests
       DEF OemHookRequests, Answered, s_commands, OwnCallback, OtherCallback
  <1>3. QED
    BY <1>1, <1>2 DEF GoodMethods

\* The methods with a program of their own.
LEMMA LongMethods ==
  ASSUME NEW version \in Nat, NEW known \in BOOLEAN, NEW n \in 0 .. 2
  PROVE  GoodMethods(LongRequests(version, known, n))
  <1> DEFINE t == LongRequests(version, known, n)
  <1>1. /\ GoodProgram("dial", dial) /\ GoodProgram("iccIOForApp", iccIOForApp)
        /\ GoodProgram("startNetworkScan", startNetworkScan)
        /\ GoodProgram("writeSmsToSim", writeSmsToSim)
        /\ GoodProgram("requestIccSimAuthentication", requestIccSimAuthentication)
        /\ GoodProgram("setAllowedCarriers", setAllowedCarriers)
    BY TwoCopies, SimIoGood, PlainPrograms, WriteSmsGood
       DEF dial, requestIccSimAuthentication, setAllowedCarriers
  <1>2. /\ GoodProgram("setupDataCall", setupDataCall(version, known))
        /\ GoodProgram("setInitialAttachApn", setInitialAttachApn(version, known))
        /\ GoodProgram("setDataProfile", setDataProfile(version, known, n))
    BY SetupDataCallGood, AttachApnGood, DataProfileGood
  <1>3. /\ dial.request = "DIAL" /\ iccIOForApp.request = "SIM_IO"
        /\ startNetworkScan.request = "START_NETWORK_SCAN"
        /\ writeSmsToSim.request = "WRITE_SMS_TO_SIM"
        /\ requestIccSimAuthentication.request = "SIM_AUTHENTICATION"
        /\ setAllowedCarriers.request = "SET_CARRIER_RESTRICTIONS"
        /\ setCarrierInfoForImsiEncryption.request = "SET_CARRIER_INFO_IMSI_ENCRYPTION"
    BY ProgramFields DEF dial, iccIOForApp, startNetworkScan, writeSmsToSim,
       requestIccSimAuthentication, setAllowedCarriers, setCarrierInfoForImsiEncryption
  <1>4. /\ setInitialAttachApn(version, known).request = "SET_INITIAL_ATTACH_APN"
        /\ setDataProfile(version, known, n).request = "SET_DATA_PROFILE"
    BY ProgramFields DEF setInitialAttachApn, setDataProfile
  <1>5. setupDataCall(version, known).request = "SETUP_DATA_CALL"
    BY ProgramFields, StringsRequests DEF setupDataCall
  <1>6. /\ DOMAIN t = {"dial", "setupDataCall", "iccIOForApp", "startNetworkScan", "writeSmsToSim",
                       "setInitialAttachApn", "requestIccSimAuthentication", "setDataProfile",
                       "setAllowedCarriers", "setCarrierInfoForImsiEncryption"}
        /\ t["dial"] = dial /\ t["setupDataCall"] = setupDataCall(version, known)
        /\ t["iccIOForApp"] = iccIOForApp /\ t["startNetworkScan"] = startNetworkScan
        /\ t["writeSmsToSim"] = writeSmsToSim
        /\ t["setInitialAttachApn"] = setInitialAttachApn(version, known)
        /\ t["requestIccSimAuthentication"] = requestIccSimAuthentication
        /\ t["setDataProfile"] = setDataProfile(version, known, n)
        /\ t["setAllowedCarriers"] = setAllowedCarriers
        /\ t["setCarrierInfoForImsiEncryption"] = setCarrierInfoForImsiEncryption
    BY DEF LongRequests
  <1> HIDE DEF t
  <1>7. \A m \in DOMAIN t : GoodProgram(m, t[m])
    BY <1>1, <1>2, <1>6, CarrierInfoGood
  <1>8. \A m \in DOMAIN t : Answered(m, t[m].request)
    BY <1>3, <1>4, <1>5, <1>6 DEF Answered, s_commands, OwnCallback, OtherCallback
  <1>9. QED
    BY <1>7, <1>8 DEF GoodMethods, t

\* All methods a client can call.
LEMMA AllMethodsGood ==
  ASSUME NEW version \in Nat, NEW known \in BOOLEAN, NEW n \in 0 .. 2, NEW tech
  PROVE  GoodMethods(Methods(version, known, n, tech))
BY SimPinMethods, CallMethods, SupplementaryMethods, NetworkSelectionMethods, ToneAndMuteMethods,
   StkAndCdmaMethods, CdmaSmsMethods, BroadcastMethods, DeviceMethods, ImsMethods,
   IccChannelMethods, NvMethods, CapabilityMethods, DeviceStateMethods, KeepaliveMethods,
   OemHookMethods, LongMethods, TableMethods
   DEF Methods

\* Every call comes with a good program.
LEMMA AllCallsGood ==
  ASSUME NEW s \in Settings, NEW c \in Calls[s.version]
  PROVE  c # NoCall /\ GoodProgram(c.method, c) /\ Answered(c.method, c.request)
  <1>1. s.version \in Nat
    BY RequestsAssumption
  <1>2. PICK a \in MvnoAndVectors :
          \E m \in DOMAIN Methods(s.version, a[1], a[2], a[3]) :
            c = [method |-> m, request |-> Methods(s.version, a[1], a[2], a[3])[m].request,
                 steps |-> Methods(s.version, a[1], a[2], a[3])[m].steps]
    BY DEF Calls
  <1>3. PICK known \in BOOLEAN, n \in 0 .. 2, tech \in {"GSM", "CDMA", "other"} :
          a = <<known, n, tech>>
    BY VectorAssumption DEF MvnoAndVectors
  <1> DEFINE ms == Methods(s.version, known, n, tech)
  <1>4. PICK m \in DOMAIN ms :
          c = [method |-> m, request |-> ms[m].request, steps |-> ms[m].steps]
    BY <1>2, <1>3
  <1>5. GoodMethods(ms)
    BY <1>1, AllMethodsGood
  <1> HIDE DEF ms
  <1>6. GoodProgram(m, ms[m]) /\ Answered(m, ms[m].request)
    BY <1>5 DEF GoodMethods
  <1>7. c.method = m /\ c.request = ms[m].request /\ c.steps = ms[m].steps
    BY <1>4
  <1>8. c # NoCall
    BY <1>6, <1>7 DEF NoCall, Answered, s_commands
  <1>9. QED
    BY <1>6, <1>7, <1>8 DEF GoodProgram

-----------------------------------------------------------------------------
(***************************************************************************)
(* Every way through a method                                              *)
(***************************************************************************)

\* What the settings give: every request has its response function, and all are good.
LEMMA SettingFacts ==
  ASSUME NEW s \in Settings
  PROVE  /\ Functions[s] = ResponseFunctions(s.version, s.client)
         /\ s.version \in Nat
         /\ GoodResponses(Functions[s])
         /\ \A r \in DOMAIN s_commands : s_commands[r] \in DOMAIN Functions[s]
  <1>1. Functions[s] = ResponseFunctions(s.version, s.client) /\ s.version \in Nat
    BY RequestsAssumption DEF Functions
  <1>2. QED
    BY <1>1, AllResponsesGood, ResponseNames

\* A new call has a good program and a response function of its own.
LEMMA CallsKept ==
  ASSUME CallInv, NEW c \in Calls[setting.version]
  PROVE  c # NoCall /\ GoodProgram(c.method, c) /\ GoodRequest(c.method, c)
  <1>1. setting \in Settings
    BY DEF CallInv
  <1>2. c # NoCall /\ GoodProgram(c.method, c) /\ Answered(c.method, c.request)
    BY <1>1, AllCallsGood
  <1>3. \A s \in Settings : s_commands[c.request] \in DOMAIN Functions[s]
    BY <1>2, SettingFacts DEF Answered
  <1>4. QED
    BY <1>2, <1>3 DEF Answered, GoodRequest

\* What the steps behind have left, one step on.
LEMMA AllocatedNext ==
  ASSUME NEW steps, NEW i \in Nat \ {0}
  PROVE  Allocated(steps, i + 1) =
           Allocated(steps, i) \cup (IF Allocates(steps[i]) THEN {steps[i].x} ELSE {})
BY DEF Allocated

\* A pointer stays undefined until it is allocated.
LEMMA UndefinedNext ==
  ASSUME NEW steps, NEW i \in Nat \ {0}
  PROVE  /\ \A x \in Undefined(steps, i) :
              ~(Allocates(steps[i]) /\ x = steps[i].x) => x \in Undefined(steps, i + 1)
         /\ steps[i].op = "junk" /\ Allocated(steps, i) = {} =>
              steps[i].frees \subseteq Undefined(steps, i + 1)
  <1>1. ASSUME NEW x \in Undefined(steps, i), ~(Allocates(steps[i]) /\ x = steps[i].x)
        PROVE  x \in Undefined(steps, i + 1)
    <2>1. x \notin Allocated(steps, i + 1)
      BY <1>1, AllocatedNext DEF Undefined
    <2>2. QED
      BY <2>1 DEF Undefined
  <1>2. ASSUME steps[i].op = "junk", Allocated(steps, i) = {}
        PROVE  steps[i].frees \subseteq Undefined(steps, i + 1)
    <2>1. Allocated(steps, i + 1) = {}
      <3>1. ~Allocates(steps[i])
        BY <1>2 DEF Allocates
      <3>2. QED
        BY <1>2, <3>1, AllocatedNext
    <2>2. QED
      BY <1>2, <2>1 DEF Undefined
  <1>3. QED
    BY <1>1, <1>2

\* Where the method is, when it takes a step.
LEMMA Here ==
  ASSUME Inv, Running
  PROVE  /\ call # NoCall /\ Len(call.steps) \in Nat \ {0} /\ pc \in 1 .. Len(call.steps)
         /\ GoodOrder(call.steps) /\ GoodFrees(call.steps) /\ GoodProgram(call.method, call)
  <1>1. call # NoCall /\ GoodProgram(call.method, call)
    BY DEF Inv, CallInv, Running
  <1>2. GoodOrder(call.steps) /\ GoodFrees(call.steps) /\ Len(call.steps) \in Nat \ {0}
    BY <1>1 DEF GoodProgram, GoodOrder
  <1>3. pc \in 1 .. Len(call.steps)
    BY <1>1, <1>2 DEF Inv, ProgressInv, Running
  <1>4. QED
    BY <1>1, <1>2, <1>3

\* A call in the middle of its program: nothing but a free comes after onRequest().
LEMMA NotHanded ==
  ASSUME Inv, Running, call.steps[pc].op # "free"
  PROVE  /\ ~handed /\ answers = <<>> /\ truncated = {}
         /\ request = "none" => pc = 1
         /\ request \in {"none", "listed", "null"}
         /\ request = "null" => call.steps[1].op = "addUnchecked" /\ pc = 2 /\ Len(call.steps) = 2
                                /\ call.steps[2].op = "fail"
  <1>1. call # NoCall /\ pc \in 1 .. Len(call.steps) /\ Len(call.steps) \in Nat \ {0}
    BY Here
  <1>2. ~handed
    BY <1>1 DEF Inv, ProgressInv
  <1>3. /\ answers = <<>> /\ truncated = {}
        /\ request \in {"none", "listed", "null"} /\ (pc = 1) = (request = "none")
    BY <1>1, <1>2 DEF Inv, ProgressInv
  <1>4. ASSUME request = "null"
        PROVE  call.steps[1].op = "addUnchecked" /\ pc = 2 /\ Len(call.steps) = 2
               /\ call.steps[2].op = "fail"
    <2>1. call.steps[1].op = "addUnchecked"
      BY <1>1, <1>2, <1>4 DEF Inv, ProgressInv
    <2>2. pc # 1
      BY <1>3, <1>4
    <2>3. Len(call.steps) = 2 /\ call.steps[2].op = "fail"
      BY <2>1, Here DEF GoodOrder
    <2>4. QED
      BY <1>1, <2>1, <2>2, <2>3
  <1>5. QED
    BY <1>2, <1>3, <1>4

\* The call stays the same, and with it the client who listens.
LEMMA SameListener ==
  ASSUME UNCHANGED <<setting, call>>
  PROVE  ClientListens' = ClientListens
BY DEF ClientListens

\* The client is told once, by the response function of the request.
LEMMA RespondAnswers ==
  ASSUME NEW e, NEW p, Respond(e, p), answers = <<>>
  PROVE  /\ ClientListens => Len(answers') = 1 /\ answers'[1].callback =
                               Functions[setting][s_commands[call.request]].callback
         /\ ~ClientListens => answers' = <<>>
         /\ Len(answers') <= 1
  <1> DEFINE fn == Functions[setting][s_commands[call.request]]
             a == [callback |-> fn.callback, error |-> responseError(fn.shape, e, p)]
  <1>1. answers' = IF ClientListens THEN Append(<<>>, a) ELSE <<>>
    BY DEF Respond, ClientListens
  <1> HIDE DEF fn
  <1>2. a.callback = fn.callback
    OBVIOUS
  <1> HIDE DEF a
  <1>3. Append(<<>>, a) = <<a>>
    OBVIOUS
  <1>4. QED
    BY <1>1, <1>2, <1>3 DEF fn

\* The four parts of the invariant are kept by every step.
LEMMA CallInvStep ==
  ASSUME Inv, [Next]_vars
  PROVE  CallInv'
  <1>1. CASE UNCHANGED vars
    BY <1>1 DEF vars, Inv, CallInv
  <1>2. ASSUME NEW c \in Calls[setting.version], Call(c)
        PROVE  CallInv'
    <2>1. c # NoCall /\ GoodProgram(c.method, c) /\ GoodRequest(c.method, c)
      BY CallsKept DEF Inv
    <2>2. QED
      BY <1>2, <2>1 DEF Call, Inv, CallInv
  <1>3. CASE Method
    BY <1>3 DEF Method, AddToList, AddFails, AddFailsUnchecked, Declare, CheckPasses, CheckFails,
       MustFail, MustFailOnNull, Allocate, CopyNull, NoMemory, Truncated, CallOnRequest,
       FreeCopies, FailWith, At, AtCopy, Running, Inv, CallInv
  <1>4. ASSUME NEW e, NEW p, Complete(e, p)
        PROVE  CallInv'
    BY <1>4 DEF Complete, Inv, CallInv
  <1>5. CASE Finish
    BY <1>5 DEF Finish, Inv, CallInv
  <1>6. ASSUME NEW u, NEW p, Indicate(u, p)
        PROVE  CallInv'
    BY <1>6 DEF Indicate, Idle, Inv, CallInv
  <1>7. CASE Reports
    BY <1>7 DEF Reports, AnswerRegistration, MeasureSignal, RepeatSignal, ReportDataCalls,
       ReportCells, ReportHardware, ReportInfoRecords, EchoCdmaSms, ReportSupplementary, Reported,
       Inv, CallInv
  <1>8. QED
    BY <1>1, <1>2, <1>3, <1>4, <1>5, <1>6, <1>7 DEF Next

\* The state of a call; an indication and a report leave it alone.
callVars == <<setting, call, pc, ptr, request, handed, truncated, answers, faults>>

\* An indication or a report of the modem leaves the call alone.
LEMMA ReportsKeepCall ==
  ASSUME Reports
  PROVE  UNCHANGED callVars /\ last' = Unseen
BY DEF Reports, AnswerRegistration, MeasureSignal, RepeatSignal, ReportDataCalls, ReportCells,
       ReportHardware, ReportInfoRecords, EchoCdmaSms, ReportSupplementary, Reported, callVars

\* The steps, as far as a call is concerned.
LEMMA QuietSteps ==
  ASSUME [Next]_vars
  PROVE  \/ \E c \in Calls[setting.version] : Call(c)
         \/ Method
         \/ \E e, p : Complete(e, p)
         \/ Finish
         \/ UNCHANGED callVars
  <1>1. CASE UNCHANGED vars
    BY <1>1 DEF vars, callVars
  <1>2. ASSUME NEW u, NEW p, Indicate(u, p)
        PROVE  UNCHANGED callVars
    BY <1>2 DEF Indicate, callVars
  <1>3. QED
    BY <1>1, <1>2, ReportsKeepCall DEF Next

\* The ways out of a method that answer: the checks, the allocations, the failures.
LEMMA ExitProgress ==
  ASSUME Inv, NEW err, NEW frees, FailWith(err, frees), Running,
         Exits(call.steps[pc]),
         request = "null" => call.steps[pc].op # "fail"
  PROVE  ProgressInv'
  <1>1. /\ call # NoCall /\ Len(call.steps) \in Nat \ {0} /\ pc \in 1 .. Len(call.steps)
        /\ GoodOrder(call.steps)
    BY Here
  <1>2. ~handed /\ answers = <<>> /\ request \in {"none", "listed", "null"}
    BY NotHanded DEF Exits
  <1>3. request # "null"
    BY NotHanded DEF Exits
  <1>4. pc # 1
    BY <1>1 DEF GoodOrder, Exits
  <1>5. request = "listed"
    BY <1>2, <1>3, <1>4, NotHanded DEF Exits
  <1>6. /\ pc' = Len(call.steps) + 1 /\ UNCHANGED <<setting, call, request, handed, truncated>>
        /\ Respond(err, NoPayload)
    BY DEF FailWith, Leave
  <1>7. (ClientListens => Len(answers') = 1) /\ Len(answers') <= 1 /\ ClientListens' = ClientListens
    BY <1>2, <1>6, RespondAnswers, SameListener
  <1>8. QED
    BY <1>1, <1>2, <1>5, <1>6, <1>7 DEF ProgressInv, Running, Returned

\* The steps in the middle of a program.
LEMMA InnerProgress ==
  ASSUME Inv, Running, Continue, UNCHANGED <<setting, call, request, handed, truncated, answers>>,
         call.steps[pc].op \in {"junk", "check"} \/ Allocates(call.steps[pc])
  PROVE  ProgressInv' /\ Running'
  <1>1. /\ call # NoCall /\ Len(call.steps) \in Nat \ {0} /\ pc \in 1 .. Len(call.steps)
        /\ GoodOrder(call.steps)
    BY Here
  <1>2. ~handed /\ answers = <<>> /\ truncated = {} /\ request \in {"none", "listed", "null"}
    BY NotHanded DEF Allocates
  <1>3. request # "null"
    BY NotHanded DEF Allocates
  <1>4. pc # 1 /\ pc # Len(call.steps)
    BY <1>1 DEF GoodOrder, Allocates
  <1>5. request = "listed"
    BY <1>2, <1>3, <1>4, NotHanded DEF Allocates
  <1>6. pc' = pc + 1 /\ pc' \in 1 .. Len(call.steps)
    BY <1>1, <1>4 DEF Continue
  <1>7. \A i \in 1 .. pc' - 1 : call.steps[i].op # "onRequest"
    <2>1. \A i \in 1 .. pc - 1 : call.steps[i].op # "onRequest"
      BY <1>1, <1>2 DEF Inv, ProgressInv
    <2>2. QED
      BY <1>1, <1>6, <2>1 DEF Allocates
  <1>8. QED
    BY <1>1, <1>2, <1>5, <1>6, <1>7 DEF ProgressInv, Running, Returned

\* Every step keeps where the program is.
LEMMA ProgressStep ==
  ASSUME Inv, [Next]_vars
  PROVE  ProgressInv'
  <1>1. ASSUME NEW c \in Calls[setting.version], Call(c)
        PROVE  ProgressInv'
    <2>1. c # NoCall /\ GoodProgram(c.method, c)
      BY CallsKept DEF Inv
    <2>2. Len(c.steps) \in Nat \ {0}
      BY <2>1 DEF GoodProgram, GoodOrder
    <2>3. pc = 1 /\ request = "none" /\ ~handed /\ truncated = {} /\ answers = <<>>
      BY <1>1 DEF Call, Idle, Inv, CallInv
    <2>4. call' = c /\ UNCHANGED <<pc, request, handed, truncated, answers>>
      BY <1>1 DEF Call
    <2>5. Len(<<>>) = 0
      OBVIOUS
    <2>6. QED
      BY <2>1, <2>2, <2>3, <2>4, <2>5 DEF ProgressInv, Running, Returned
  <1>2. CASE AddToList
    <2>1. /\ Running /\ call.steps[pc].op \in {"add", "addUnchecked"} /\ request' = "listed"
          /\ pc' = pc + 1 /\ UNCHANGED <<setting, call, handed, truncated, answers>>
      BY <1>2 DEF AddToList, At, Continue
    <2>2. /\ call # NoCall /\ Len(call.steps) \in Nat \ {0} /\ pc \in 1 .. Len(call.steps)
          /\ GoodOrder(call.steps)
      BY <2>1, Here
    <2>3. pc = 1 /\ Len(call.steps) > 1
      <3>1. pc = 1
        BY <2>1, <2>2 DEF GoodOrder
      <3>2. call.steps[Len(call.steps)].op \in {"onRequest", "free", "fail"}
        BY <2>2 DEF GoodOrder
      <3>3. QED
        BY <2>1, <2>2, <3>1, <3>2
    <2>4. ~handed /\ answers = <<>> /\ truncated = {}
      BY <2>1, NotHanded
    <2>5. Len(<<>>) = 0
      OBVIOUS
    <2>6. QED
      BY <2>1, <2>2, <2>3, <2>4, <2>5 DEF ProgressInv, Running, Returned
  <1>3. CASE AddFails \/ AddFailsUnchecked
    <2>1. /\ Running /\ call.steps[pc].op \in {"add", "addUnchecked"} /\ request' = "null"
          /\ UNCHANGED <<setting, call, handed, truncated, answers>>
      BY <1>3 DEF AddFails, AddFailsUnchecked, At
    <2>2. \/ pc' = Len(call.steps) + 1
          \/ pc' = pc + 1 /\ call.steps[pc].op = "addUnchecked"
      BY <1>3 DEF AddFails, AddFailsUnchecked, Leave, Continue, At
    <2>3. /\ call # NoCall /\ Len(call.steps) \in Nat \ {0} /\ pc \in 1 .. Len(call.steps)
          /\ GoodOrder(call.steps)
      BY <2>1, Here
    <2>4. pc = 1 /\ call.steps[1].op # "onRequest"
      BY <2>1, <2>3 DEF GoodOrder
    <2>5. ~handed /\ answers = <<>> /\ truncated = {}
      BY <2>1, NotHanded
    <2>6. Len(<<>>) = 0
      OBVIOUS
    <2>7. QED
      BY <2>1, <2>2, <2>3, <2>4, <2>5, <2>6 DEF ProgressInv, Running, Returned
  <1>4. CASE Declare \/ CheckPasses \/ Allocate \/ CopyNull
    BY <1>4, InnerProgress
       DEF Declare, CheckPasses, Allocate, CopyNull, At, AtCopy, Copies, Allocates
  <1>5. CASE CheckFails \/ MustFail \/ NoMemory
    <2>1. PICK err, frees : FailWith(err, frees)
      BY <1>5 DEF CheckFails, MustFail, NoMemory
    <2>2. /\ Running /\ Exits(call.steps[pc])
          /\ request = "null" => call.steps[pc].op # "fail"
      BY <1>5 DEF CheckFails, MustFail, NoMemory, At, AtCopy, Copies, Exits
    <2>3. QED
      BY <2>1, <2>2, ExitProgress
  <1>6. CASE MustFailOnNull
    <2>1. /\ Running /\ call.steps[pc].op = "fail" /\ request = "null"
          /\ pc' = Len(call.steps) + 1 /\ UNCHANGED <<setting, call, request, handed, answers>>
      BY <1>6 DEF MustFailOnNull, At, Leave
    <2>2. call # NoCall /\ Len(call.steps) \in Nat \ {0}
      BY <2>1, Here
    <2>3. ~handed /\ answers = <<>>
      BY <2>1, NotHanded
    <2>4. Len(<<>>) = 0
      OBVIOUS
    <2>5. QED
      BY <2>1, <2>2, <2>3, <2>4 DEF ProgressInv, Running, Returned
  <1>7. CASE CallOnRequest
    <2>1. /\ Running /\ call.steps[pc].op = "onRequest" /\ handed' = TRUE /\ pc' = pc + 1
          /\ UNCHANGED <<setting, call, request, truncated, answers>>
      BY <1>7 DEF CallOnRequest, At, Continue
    <2>2. /\ call # NoCall /\ Len(call.steps) \in Nat \ {0} /\ pc \in 1 .. Len(call.steps)
          /\ GoodOrder(call.steps)
      BY <2>1, Here
    <2>3. answers = <<>> /\ request = "listed" /\ truncated = {}
      <3>1. pc # 1
        BY <2>1, <2>2 DEF GoodOrder
      <3>2. QED
        BY <2>1, <3>1, NotHanded
    <2>4. pc' > Len(call.steps) \/ call.steps[pc'].op = "free"
      BY <2>1, <2>2 DEF GoodOrder
    <2>5. Len(<<>>) = 0
      OBVIOUS
    <2>6. QED
      BY <2>1, <2>2, <2>3, <2>4, <2>5 DEF ProgressInv, Running, Returned
  <1>8. CASE FreeCopies
    <2>1. /\ Running /\ call.steps[pc].op = "free" /\ pc' = pc + 1
          /\ UNCHANGED <<setting, call, request, handed, truncated, answers>>
      BY <1>8 DEF FreeCopies, At, Continue
    <2>2. /\ call # NoCall /\ Len(call.steps) \in Nat \ {0} /\ pc \in 1 .. Len(call.steps)
          /\ GoodOrder(call.steps)
      BY <2>1, Here
    <2>3. pc = Len(call.steps) /\ pc > 1 /\ call.steps[pc - 1].op = "onRequest"
      BY <2>1, <2>2 DEF GoodOrder
    <2>4. handed
      <3>1. pc - 1 \in 1 .. pc - 1
        BY <2>2, <2>3
      <3>2. QED
        BY <2>1, <2>2, <2>3, <3>1 DEF Inv, ProgressInv
    <2>5. ClientListens' = ClientListens
      BY <2>1, SameListener
    <2>6. QED
      BY <2>1, <2>2, <2>3, <2>4, <2>5 DEF Inv, ProgressInv, Running, Returned
  <1>9. ASSUME NEW e, NEW p, Complete(e, p)
        PROVE  ProgressInv'
    <2>1. /\ handed /\ request = "listed" /\ request' = "freed" /\ Respond(e, p)
          /\ UNCHANGED <<setting, call, pc, handed, truncated>>
      BY <1>9 DEF Complete
    <2>2. call # NoCall
      BY <2>1 DEF Inv, CallInv
    <2>3. answers = <<>>
      BY <2>1, <2>2 DEF Inv, ProgressInv
    <2>4. /\ (ClientListens => Len(answers') = 1) /\ Len(answers') <= 1
          /\ ClientListens' = ClientListens
      BY <2>1, <2>3, RespondAnswers, SameListener
    <2>5. QED
      BY <2>1, <2>2, <2>4 DEF Inv, ProgressInv, Running, Returned
  <1>10. CASE Finish
    BY <1>10 DEF Finish, ProgressInv
  <1>11. CASE UNCHANGED callVars
    <2>1. ClientListens' = ClientListens
      BY <1>11, SameListener DEF callVars
    <2>2. QED
      BY <1>11, <2>1 DEF callVars, Inv, ProgressInv, Running, Returned
  <1>12. CASE Truncated
    <2>1. /\ Running /\ call.steps[pc].op \in {"copy", "copyOrEmpty"}
          /\ pc' = Len(call.steps) + 1 /\ truncated' # {}
          /\ UNCHANGED <<setting, call, request, handed, answers>>
      BY <1>12 DEF Truncated, AtCopy, ClientCopies, Leave
    <2>2. /\ call # NoCall /\ Len(call.steps) \in Nat \ {0} /\ pc \in 1 .. Len(call.steps)
          /\ GoodOrder(call.steps)
      BY <2>1, Here
    <2>3. ~handed /\ answers = <<>> /\ request \in {"none", "listed", "null"}
      BY <2>1, NotHanded
    <2>4. request # "none"
      <3>1. pc # 1
        BY <2>1, <2>2 DEF GoodOrder
      <3>2. QED
        BY <2>1, <3>1, NotHanded
    <2>5. Len(<<>>) = 0
      OBVIOUS
    <2>6. QED
      BY <2>1, <2>2, <2>3, <2>4, <2>5 DEF ProgressInv, Running, Returned
  <1>13. QED
    BY <1>1, <1>2, <1>3, <1>4, <1>5, <1>6, <1>7, <1>8, <1>9, <1>10, <1>11, <1>12, QuietSteps
       DEF Method

\* Every step keeps who has answered.
LEMMA AnswersStep ==
  ASSUME Inv, [Next]_vars
  PROVE  AnswersInv'
  <1>1. CASE UNCHANGED <<setting, call, answers>>
    BY <1>1 DEF Inv, AnswersInv
  <1>2. ASSUME NEW e, NEW p, Respond(e, p), answers = <<>>, UNCHANGED <<setting, call>>
        PROVE  AnswersInv'
    BY <1>2, RespondAnswers DEF AnswersInv
  <1>3. ASSUME NEW c \in Calls[setting.version], Call(c)
        PROVE  AnswersInv'
    BY <1>3 DEF Call, Idle, Inv, CallInv, AnswersInv
  <1>4. CASE CheckFails \/ MustFail \/ NoMemory
    <2>1. PICK err, frees : FailWith(err, frees)
      BY <1>4 DEF CheckFails, MustFail, NoMemory
    <2>2. Running /\ call.steps[pc].op # "free"
      BY <1>4 DEF CheckFails, MustFail, NoMemory, At, AtCopy, Copies
    <2>3. QED
      BY <1>2, <2>1, <2>2, NotHanded DEF FailWith
  <1>5. CASE Method /\ ~(CheckFails \/ MustFail \/ NoMemory)
    BY <1>1, <1>5 DEF Method, AddToList, AddFails, AddFailsUnchecked, Declare, CheckPasses,
       MustFailOnNull, Allocate, CopyNull, Truncated, CallOnRequest, FreeCopies
  <1>6. ASSUME NEW e, NEW p, Complete(e, p)
        PROVE  AnswersInv'
    <2>1. handed /\ request = "listed" /\ Respond(e, p) /\ UNCHANGED <<setting, call>>
      BY <1>6 DEF Complete
    <2>2. answers = <<>>
      BY <2>1 DEF Inv, CallInv, ProgressInv
    <2>3. QED
      BY <1>2, <2>1, <2>2
  <1>7. CASE Finish
    BY <1>7 DEF Finish, AnswersInv
  <1>8. CASE UNCHANGED callVars
    BY <1>1, <1>8 DEF callVars
  <1>9. QED
    BY <1>3, <1>4, <1>5, <1>6, <1>7, <1>8, QuietSteps

\* What the invariant says of the heap of a running method.
LEMMA HeapHere ==
  ASSUME Inv, Running, NEW x \in DOMAIN ptr
  PROVE  /\ ptr[x] \in {"live", "junk"}
         /\ ptr[x] = "live" => x \in Allocated(call.steps, pc)
         /\ ptr[x] = "junk" => x \in Undefined(call.steps, pc)
BY DEF Inv, HeapInv

\* A method that goes on: every pointer was there before or is held by this step.
LEMMA HeapOn ==
  ASSUME Inv, Running, Running', call' = call, pc' = pc + 1, faults' = faults,
         \A x \in DOMAIN ptr' :
           \/ x \in DOMAIN ptr /\ ptr'[x] = ptr[x]
              /\ ~(Allocates(call.steps[pc]) /\ x = call.steps[pc].x)
           \/ Allocates(call.steps[pc]) /\ x = call.steps[pc].x /\ ptr'[x] = "live"
           \/ call.steps[pc].op = "junk" /\ x \in call.steps[pc].frees /\ ptr'[x] = "junk"
  PROVE  HeapInv'
  <1> DEFINE steps == call.steps
  <1>1. pc \in Nat \ {0} /\ pc \in 1 .. Len(steps) /\ GoodFrees(steps) /\ Len(steps) \in Nat
    BY Here
  <1>2. steps[pc].op = "junk" => steps[pc].frees \subseteq Undefined(steps, pc + 1)
    BY <1>1, UndefinedNext DEF GoodFrees
  <1>3. \A x \in Allocated(steps, pc) : x \in Allocated(steps, pc + 1)
    BY <1>1, AllocatedNext
  <1>4. Allocates(steps[pc]) => steps[pc].x \in Allocated(steps, pc + 1)
    BY <1>1, AllocatedNext
  <1>5. \A x \in Undefined(steps, pc) :
          ~(Allocates(steps[pc]) /\ x = steps[pc].x) => x \in Undefined(steps, pc + 1)
    BY <1>1, UndefinedNext
  <1>6. ASSUME NEW x \in DOMAIN ptr'
        PROVE  /\ ptr'[x] \in {"live", "junk"}
               /\ ptr'[x] = "live" => x \in Allocated(steps, pc + 1)
               /\ ptr'[x] = "junk" => x \in Undefined(steps, pc + 1)
    <2>1. CASE x \in DOMAIN ptr /\ ptr'[x] = ptr[x]
               /\ ~(Allocates(call.steps[pc]) /\ x = call.steps[pc].x)
      BY <1>3, <1>5, <2>1, HeapHere
    <2>2. CASE Allocates(call.steps[pc]) /\ x = call.steps[pc].x /\ ptr'[x] = "live"
      BY <1>4, <2>2
    <2>3. CASE call.steps[pc].op = "junk" /\ x \in call.steps[pc].frees /\ ptr'[x] = "junk"
      BY <1>2, <2>3
    <2>4. QED
      BY <2>1, <2>2, <2>3
  <1>7. ~Returned'
    BY <1>1 DEF Running, Returned
  <1>8. NoLeak' /\ NoFault'
    BY <1>7 DEF NoLeak, NoFault, Inv, HeapInv
  <1>9. QED
    BY <1>6, <1>8 DEF HeapInv

\* Frees that meet no undefined pointer.
LEMMA FreeAllGood ==
  ASSUME Inv, Running, NEW names, FreeAll(names), names \cap Undefined(call.steps, pc) = {}
  PROVE  /\ faults' = faults
         /\ DOMAIN ptr' = DOMAIN ptr
         /\ \A x \in DOMAIN ptr : ptr'[x] = IF x \in names THEN "freed" ELSE ptr[x]
  <1>1. \A x \in DOMAIN ptr : x \in names => ptr[x] = "live"
    BY HeapHere
  <1>2. \A x \in DOMAIN ptr : ptr[x] # "freed"
    BY HeapHere
  <1>3. /\ {y \in names \cap DOMAIN ptr : ptr[y] = "junk"} = {}
        /\ {y \in names \cap DOMAIN ptr : ptr[y] = "freed"} = {}
    BY <1>1, <1>2
  <1>4. faults' = faults
    BY <1>3 DEF FreeAll, FreeIn
  <1>5. QED
    BY <1>1, <1>4 DEF FreeAll, FreeIn

\* A method that is over, with nothing live unless it is known to be.
LEMMA HeapOver ==
  ASSUME Inv, Running, call' = call, pc' = Len(call.steps) + 1, NoFault',
         \A x \in DOMAIN ptr' :
           /\ ptr'[x] \in {"live", "junk", "freed"}
           /\ ptr'[x] = "live" => \/ x \in truncated'
                                 \/ call.method = "setCarrierInfoForImsiEncryption"
  PROVE  HeapInv'
  <1>1. ~Running'
    BY Here DEF Running
  <1>2. QED
    BY <1>1 DEF HeapInv, NoLeak

\* Every step keeps what the pointers hold.
LEMMA HeapStep ==
  ASSUME Inv, [Next]_vars
  PROVE  HeapInv'
  <1>1. ASSUME NEW c \in Calls[setting.version], Call(c)
        PROVE  HeapInv'
    <2>1. ptr' = << >> /\ faults' = {}
      BY <1>1 DEF Call, Idle, Inv, CallInv
    <2>2. DOMAIN ptr' = {}
      BY <2>1
    <2>3. QED
      BY <2>1, <2>2 DEF HeapInv, NoLeak, NoFault
  <1>2. CASE AddToList \/ AddFailsUnchecked
    <2>1. /\ Running /\ call.steps[pc].op \in {"add", "addUnchecked"} /\ pc' = pc + 1
          /\ UNCHANGED <<call, ptr, faults>>
      BY <1>2 DEF AddToList, AddFailsUnchecked, At, Continue
    <2>2. /\ call # NoCall /\ Len(call.steps) \in Nat \ {0} /\ pc \in 1 .. Len(call.steps)
          /\ call.steps[Len(call.steps)].op \in {"onRequest", "free", "fail"}
      BY <2>1, Here DEF GoodOrder
    <2>3. Running'
      BY <2>1, <2>2 DEF Running
    <2>4. ~Allocates(call.steps[pc])
      BY <2>1 DEF Allocates
    <2>5. QED
      BY <2>1, <2>3, <2>4, HeapOn
  <1>3. CASE AddFails
    <2>1. /\ Running /\ call.steps[pc].op = "add" /\ pc' = Len(call.steps) + 1
          /\ UNCHANGED <<call, ptr, faults>>
      BY <1>3 DEF AddFails, At, Leave
    <2>2. pc = 1
      BY <2>1, Here DEF GoodOrder
    <2>3. Allocated(call.steps, 1) = {}
      BY DEF Allocated
    <2>4. \A x \in DOMAIN ptr : ptr[x] = "junk"
      BY <2>1, <2>2, <2>3, HeapHere
    <2>5. NoFault'
      BY <2>1 DEF Inv, HeapInv, NoFault
    <2>6. QED
      BY <2>1, <2>4, <2>5, HeapOver
  <1>4. CASE Declare
    <2>1. /\ Running /\ call.steps[pc].op = "junk" /\ Continue
          /\ UNCHANGED <<setting, call, request, handed, truncated, answers, faults>>
          /\ Hold(call.steps[pc].frees, "junk")
      BY <1>4 DEF Declare, At, Current
    <2>2. Running' /\ pc' = pc + 1
      BY <2>1, InnerProgress DEF Continue
    <2>3. ~Allocates(call.steps[pc])
      BY <2>1 DEF Allocates
    <2>4. \A x \in DOMAIN ptr' :
            \/ x \in DOMAIN ptr /\ ptr'[x] = ptr[x]
            \/ x \in call.steps[pc].frees /\ ptr'[x] = "junk"
      BY <2>1 DEF Hold, With
    <2>5. QED
      BY <2>1, <2>2, <2>3, <2>4, HeapOn
  <1>5. CASE CheckPasses
    <2>1. /\ Running /\ call.steps[pc].op = "check" /\ Continue
          /\ UNCHANGED <<setting, call, request, handed, truncated, answers, faults, ptr>>
      BY <1>5 DEF CheckPasses, At
    <2>2. Running' /\ pc' = pc + 1
      BY <2>1, InnerProgress DEF Continue
    <2>3. ~Allocates(call.steps[pc])
      BY <2>1 DEF Allocates
    <2>4. QED
      BY <2>1, <2>2, <2>3, HeapOn
  <1>6. CASE Allocate \/ CopyNull
    <2>1. /\ Running /\ Allocates(call.steps[pc]) /\ Continue
          /\ UNCHANGED <<setting, call, request, handed, truncated, answers, faults>>
      BY <1>6 DEF Allocate, CopyNull, At, AtCopy, Copies, Allocates
    <2>2. Running' /\ pc' = pc + 1
      BY <2>1, InnerProgress DEF Continue
    <2>3. Allocates(call.steps[pc])
      BY <2>1 DEF Allocates
    <2>4. \A x \in DOMAIN ptr' :
            \/ x \in DOMAIN ptr /\ ptr'[x] = ptr[x] /\ x # call.steps[pc].x
            \/ x = call.steps[pc].x /\ ptr'[x] = "live"
      BY <1>6 DEF Allocate, CopyNull, Hold, With, Current
    <2>5. QED
      BY <2>1, <2>2, <2>3, <2>4, HeapOn
  <1>7. CASE CheckFails \/ MustFail \/ NoMemory
    <2> DEFINE frees == call.steps[pc].frees
    <2>1. /\ Running /\ Exits(call.steps[pc])
          /\ \E err : FailWith(err, frees)
      BY <1>7 DEF CheckFails, MustFail, NoMemory, At, AtCopy, Copies, Exits, Current
    <2>2. call' = call /\ pc' = Len(call.steps) + 1 /\ FreeAll(frees)
      BY <2>1 DEF FailWith, Leave
    <2>3. /\ frees \cap Undefined(call.steps, pc) = {}
          /\ Allocated(call.steps, pc) \subseteq frees
      BY <2>1, Here DEF GoodFrees
    <2>4. /\ faults' = faults /\ DOMAIN ptr' = DOMAIN ptr
          /\ \A x \in DOMAIN ptr : ptr'[x] = IF x \in frees THEN "freed" ELSE ptr[x]
      BY <2>1, <2>2, <2>3, FreeAllGood
    <2>5. \A x \in DOMAIN ptr : ptr'[x] \in {"junk", "freed"}
      BY <2>1, <2>3, <2>4, HeapHere
    <2>6. NoFault'
      BY <2>2, <2>4 DEF Inv, HeapInv, NoFault
    <2>7. QED
      BY <2>1, <2>2, <2>4, <2>5, <2>6, HeapOver
  <1>8. CASE MustFailOnNull
    <2>1. /\ Running /\ call.steps[pc].op = "fail" /\ request = "null"
          /\ pc' = Len(call.steps) + 1 /\ UNCHANGED <<call, ptr>>
      BY <1>8 DEF MustFailOnNull, At, Leave
    <2>2. call.steps[1].op = "addUnchecked" /\ pc = 2
      BY <2>1, NotHanded
    <2>3. Allocated(call.steps, 2) = {}
      BY <2>2 DEF Allocated, Allocates
    <2>4. \A x \in DOMAIN ptr : ptr[x] = "junk"
      BY <2>1, <2>2, <2>3, HeapHere
    <2>5. NoFault'
      BY <2>1, <2>2, Here DEF GoodProgram, NoFault
    <2>6. QED
      BY <2>1, <2>4, <2>5, HeapOver
  <1>9. CASE CallOnRequest
    <2>1. /\ Running /\ call.steps[pc].op = "onRequest" /\ pc' = pc + 1
          /\ UNCHANGED <<call, ptr, faults>>
      BY <1>9 DEF CallOnRequest, At, Continue
    <2>2. /\ Len(call.steps) \in Nat \ {0} /\ pc \in 1 .. Len(call.steps)
          /\ GoodProgram(call.method, call) /\ call # NoCall
      BY <2>1, Here
    <2>3. CASE pc = Len(call.steps)
      <3>1. \/ call.method = "setCarrierInfoForImsiEncryption"
            \/ Allocated(call.steps, pc) = {}
        BY <2>1, <2>2, <2>3 DEF GoodProgram, FreesAll
      <3>2. \A x \in DOMAIN ptr :
              ptr[x] \in {"live", "junk"}
              /\ (ptr[x] = "live" => call.method = "setCarrierInfoForImsiEncryption")
        BY <2>1, <3>1, HeapHere
      <3>3. NoFault'
        BY <2>1 DEF Inv, HeapInv, NoFault
      <3>4. QED
        BY <2>1, <2>3, <3>2, <3>3, HeapOver
    <2>4. CASE pc # Len(call.steps)
      <3>1. Running'
        BY <2>1, <2>2, <2>4 DEF Running
      <3>2. ~Allocates(call.steps[pc])
        BY <2>1 DEF Allocates
      <3>3. QED
        BY <2>1, <3>1, <3>2, HeapOn
    <2>5. QED
      BY <2>3, <2>4
  <1>10. CASE FreeCopies
    <2> DEFINE frees == call.steps[pc].frees
    <2>1. /\ Running /\ call.steps[pc].op = "free" /\ pc' = pc + 1 /\ call' = call /\ FreeAll(frees)
      BY <1>10 DEF FreeCopies, At, Continue, Current
    <2>2. /\ Len(call.steps) \in Nat \ {0} /\ pc \in 1 .. Len(call.steps)
          /\ GoodProgram(call.method, call) /\ GoodOrder(call.steps) /\ GoodFrees(call.steps)
      BY <2>1, Here
    <2>3. pc = Len(call.steps)
      BY <2>1, <2>2 DEF GoodOrder
    <2>4. frees \cap Undefined(call.steps, pc) = {}
      BY <2>1, <2>2 DEF GoodFrees
    <2>5. /\ faults' = faults /\ DOMAIN ptr' = DOMAIN ptr
          /\ \A x \in DOMAIN ptr : ptr'[x] = IF x \in frees THEN "freed" ELSE ptr[x]
      BY <2>1, <2>4, FreeAllGood
    <2>6. \/ call.method = "setCarrierInfoForImsiEncryption"
          \/ Allocated(call.steps, pc) \subseteq frees
      BY <2>1, <2>2, <2>3 DEF GoodProgram, FreesAll
    <2>7. \A x \in DOMAIN ptr :
            /\ ptr'[x] \in {"live", "junk", "freed"}
            /\ ptr'[x] = "live" => call.method = "setCarrierInfoForImsiEncryption"
      BY <2>1, <2>5, <2>6, HeapHere
    <2>8. NoFault'
      BY <2>1, <2>5 DEF Inv, HeapInv, NoFault
    <2>9. QED
      BY <2>1, <2>3, <2>5, <2>7, <2>8, HeapOver
  <1>11. CASE (\E e, p : Complete(e, p)) \/ UNCHANGED callVars
    <2>1. UNCHANGED <<call, pc, ptr, truncated, faults>>
      BY <1>11 DEF Complete, callVars
    <2>2. QED
      BY <2>1 DEF Inv, HeapInv, NoLeak, NoFault, Running, Returned
  <1>12. CASE Finish
    <2>1. ptr' = << >> /\ faults' = {} /\ call' = NoCall
      BY <1>12 DEF Finish
    <2>2. DOMAIN ptr' = {}
      BY <2>1
    <2>3. QED
      BY <2>1, <2>2 DEF HeapInv, NoLeak, NoFault
  <1>13. CASE Truncated
    <2> DEFINE step == call.steps[pc]
    <2>1. /\ Running /\ Exits(step) /\ call' = call /\ pc' = Len(call.steps) + 1
          /\ truncated' = {step.x} /\ FreeIn(With({step.x}, "live"), step.frees)
      BY <1>13 DEF Truncated, AtCopy, ClientCopies, Leave, Exits, Current
    <2>2. /\ step.frees \cap Undefined(call.steps, pc) = {}
          /\ Allocated(call.steps, pc) \subseteq step.frees
      BY <2>1, Here DEF GoodFrees
    <2>3. ASSUME NEW heap, heap = With({step.x}, "live"), FreeIn(heap, step.frees)
          PROVE  /\ faults' = faults
                 /\ \A x \in DOMAIN ptr' : /\ ptr'[x] \in {"live", "junk", "freed"}
                                           /\ ptr'[x] = "live" => x = step.x
      <3>1. /\ DOMAIN heap = DOMAIN ptr \cup {step.x} /\ heap[step.x] = "live"
            /\ \A x \in DOMAIN ptr : x # step.x => heap[x] = ptr[x]
        BY <2>3 DEF With
      <3>2. \A x \in DOMAIN heap : /\ heap[x] \in {"live", "junk"}
                                   /\ heap[x] = "junk" => x \notin step.frees
                                   /\ heap[x] = "live" /\ x # step.x => x \in step.frees
        BY <2>1, <2>2, <3>1, HeapHere
      <3>3. /\ {y \in step.frees \cap DOMAIN heap : heap[y] = "junk"} = {}
            /\ {y \in step.frees \cap DOMAIN heap : heap[y] = "freed"} = {}
        BY <3>2
      <3>4. faults' = faults
        BY <2>3, <3>3 DEF FreeIn
      <3>5. /\ DOMAIN ptr' = DOMAIN heap
            /\ \A x \in DOMAIN heap :
                 ptr'[x] = IF x \in step.frees /\ heap[x] = "live" THEN "freed" ELSE heap[x]
        BY <2>3 DEF FreeIn
      <3>6. QED
        BY <3>2, <3>4, <3>5
    <2>4. NoFault'
      BY <2>1, <2>3 DEF Inv, HeapInv, NoFault
    <2>5. QED
      BY <2>1, <2>3, <2>4, HeapOver
  <1>14. QED
    BY <1>1, <1>2, <1>3, <1>4, <1>5, <1>6, <1>7, <1>8, <1>9, <1>10, <1>11, <1>12, <1>13,
       QuietSteps DEF Method

\* The invariant holds at first.
LEMMA InvInit == Init => Inv
  <1> SUFFICES ASSUME Init PROVE Inv
    OBVIOUS
  <1>1. CallInv /\ ProgressInv /\ AnswersInv
    BY DEF Init, CallInv, ProgressInv, AnswersInv
  <1>2. DOMAIN ptr = {} /\ faults = {}
    BY DEF Init
  <1>3. HeapInv
    BY <1>2 DEF HeapInv, NoLeak, NoFault
  <1>4. QED
    BY <1>1, <1>3 DEF Inv

\* The invariant that the theorems about the calls rest on: where a program is,
\* whether the vendor has it, who has answered and what every pointer holds.
THEOREM Inductive == Spec => []Inv
  <1>1. Inv /\ [Next]_vars => Inv'
    BY CallInvStep, ProgressStep, AnswersStep, HeapStep DEF Inv
  <1>2. QED
    BY <1>1, InvInit, PTL DEF Spec

\* No way through a method frees what is not a live copy or uses a NULL request,
\* but for the two that do not look at the result of addRequestToList().
THEOREM NeverFaults == Spec => []NoFault
  <1>1. Inv => NoFault
    BY DEF Inv, HeapInv
  <1>2. QED
    BY <1>1, Inductive, PTL

\* A method that returns has freed its copies, but for those of the carrier's names
\* and for a truncated one.
THEOREM NeverLeaks == Spec => []NoLeak
  <1>1. Inv => NoLeak
    BY DEF Inv, HeapInv
  <1>2. QED
    BY <1>1, Inductive, PTL

\* The method that gives up and the vendor's completion never both answer a call,
\* and one of them does, unless a copy was truncated.
THEOREM AlwaysAnsweredOnce == Spec => []AnsweredOnce
  <1>1. Inv => AnsweredOnce
    <2> SUFFICES ASSUME Inv PROVE AnsweredOnce
      OBVIOUS
    <2>1. CASE call = NoCall
      <3>1. Len(<<>>) = 0
        OBVIOUS
      <3>2. QED
        BY <2>1, <3>1 DEF Inv, CallInv, AnsweredOnce, Returned
    <2>2. CASE call # NoCall
      <3>1. GoodOrder(call.steps)
        BY <2>2 DEF Inv, CallInv, GoodProgram
      <3>2. Len(call.steps) \in Nat \ {0} /\ pc \in 1 .. Len(call.steps) + 1
        BY <2>2, <3>1 DEF Inv, ProgressInv, GoodOrder
      <3>3. Returned => pc # 1
        BY <3>2 DEF Returned
      <3>4. QED
        BY <2>2, <3>2, <3>3 DEF Inv, ProgressInv, AnsweredOnce
    <2>3. QED
      BY <2>1, <2>2
  <1>2. QED
    BY <1>1, Inductive, PTL

\* The answer arrives at the callback of the call, for every method of the tables
\* but the ones named in the property.
THEOREM AlwaysAnsweredAtOwnCallback == Spec => []AnsweredAtOwnCallback
  <1>1. Inv => AnsweredAtOwnCallback
    <2> SUFFICES ASSUME Inv, answers # <<>>,
                        call.method \notin OtherCallback \cup {"setSimCardPower_1_1"}
                 PROVE  answers[1].callback = OwnCallback(call.method)
      BY DEF AnsweredAtOwnCallback, OtherCallback
    <2> DEFINE name == s_commands[call.request]
    <2>1. call # NoCall /\ setting \in Settings
      BY DEF Inv, CallInv
    <2>2. GoodRequest(call.method, call)
      BY <2>1 DEF Inv, CallInv
    <2>3. /\ name \in DOMAIN Functions[setting] /\ name = OwnCallback(call.method)
          /\ name \notin OtherCallback
      BY <2>1, <2>2 DEF GoodRequest
    <2>4. Functions[setting][name].callback = name
      BY <2>1, <2>3, SettingFacts DEF GoodResponses, GoodResponse
    <2>5. QED
      BY <2>3, <2>4 DEF Inv, AnswersInv
  <1>2. QED
    BY <1>1, Inductive, PTL

-----------------------------------------------------------------------------
(***************************************************************************)
(* What became of a payload                                                *)
(***************************************************************************)

\* The lengths that are documented of an answer: not 0.
LEMMA DocumentedLengths ==
  /\ \A f \in DOMAIN DocumentedAnswers :
       \/ f \in IntAnswers /\ DocumentedAnswers[f] = {Words(1)}
       \/ f \in DOMAIN DocumentedStructs /\ DocumentedAnswers[f] = DocumentedStructs[f]
  /\ Words(1) # 0
  /\ \A f \in DOMAIN DocumentedStructs : 0 \notin DocumentedStructs[f]
  <1>1. ASSUME NEW f \in DOMAIN DocumentedAnswers
        PROVE  \/ f \in IntAnswers /\ DocumentedAnswers[f] = {Words(1)}
               \/ f \in DOMAIN DocumentedStructs /\ DocumentedAnswers[f] = DocumentedStructs[f]
    <2> DEFINE ints == [g \in IntAnswers |-> {Words(1)}]
               parts == <<ints, DocumentedStructs>>
    <2>1. DocumentedAnswers = Table(parts)
      BY DEF DocumentedAnswers
    <2>2. DOMAIN parts = {1, 2} /\ parts[1] = ints /\ parts[2] = DocumentedStructs
      OBVIOUS
    <2> HIDE DEF parts
    <2>3. PICK i \in DOMAIN parts : f \in DOMAIN parts[i] /\ Table(parts)[f] = parts[i][f]
      BY <2>1, TableRows
    <2>4. QED
      BY <2>1, <2>2, <2>3
  <1>2. Words(1) # 0
    BY DEF Words
  <1>3. \A f \in DOMAIN DocumentedStructs : 0 \notin DocumentedStructs[f]
    <2>1. /\ \A n \in Nat \ {0} : Words(n) # 0
          /\ RIL_CardStatus_v6 # 0 /\ RIL_LastCallFailCauseInfo # 0
          /\ RIL_SignalStrength_v10 # 0 /\ RIL_SMS_Response # 0 /\ RIL_Data_Call_Response_v11 # 0
          /\ RIL_SIM_IO_Response # 0 /\ RIL_Data_Call_Response_v6 # 0
          /\ 2 * RIL_Data_Call_Response_v6 # 0 /\ RIL_CellInfo_v12 # 0 /\ RIL_HardwareConfig # 0
          /\ RIL_RadioCapability # 0 /\ RIL_LceDataInfo # 0 /\ RIL_ActivityStatsInfo # 0
          /\ RIL_CarrierRestrictions # 0 /\ RIL_KeepaliveStatus # 0
      BY DEF Words, Padded, Larger, MAX_UUID_LENGTH, RIL_CardStatus_v6, RIL_AppStatus,
         RIL_LastCallFailCauseInfo, RIL_SignalStrength_v10, RIL_SignalStrength_v8,
         RIL_CDMA_SignalStrength, RIL_EVDO_SignalStrength, RIL_LTE_SignalStrength_v8,
         RIL_SMS_Response, RIL_Data_Call_Response_v11, RIL_Data_Call_Response_v9,
         RIL_SIM_IO_Response, RIL_Data_Call_Response_v6, RIL_CellInfo_v12, RIL_CellIdentity_v12,
         RIL_HardwareConfig, RIL_RadioCapability, RIL_LceDataInfo, RIL_ActivityStatsInfo,
         RIL_CarrierRestrictions, RIL_KeepaliveStatus
    <2>2. QED
      BY <2>1 DEF DocumentedStructs
  <1>4. QED
    BY <1>1, <1>2, <1>3

\* The payloads of the vendor: none, or one with a length above 0.
VendorPayload(p) ==
  \/ p = NoPayload
  \/ \E l \in Nat \ {0} : p = Payload(FALSE, l, TRUE) \/ p = Payload(FALSE, l, FALSE)

\* The payloads that the vendor sends are of the three kinds.
LEMMA PayloadCases ==
  ASSUME NEW sh, NEW p \in Payloads(sh)
  PROVE  VendorPayload(p)
BY RequestsAssumption DEF Payloads, VendorPayload

\* What the payload of the vendor looks like.
LEMMA VendorFields ==
  ASSUME NEW p, VendorPayload(p)
  PROVE  /\ p \in AnyPayload
         /\ \/ p.null /\ p.len = 0 /\ p = NoPayload
            \/ ~p.null /\ p.len > 0 /\ (p.sane => p = Payload(FALSE, p.len, TRUE))
         /\ p.len = 0 => p = NoPayload
  <1>1. CASE p = NoPayload
    BY <1>1 DEF NoPayload, Payload, AnyPayload
  <1>2. ASSUME NEW l \in Nat \ {0}, p = Payload(FALSE, l, TRUE)
        PROVE  /\ p \in AnyPayload /\ ~p.null /\ p.len > 0 /\ p.len # 0
               /\ p = Payload(FALSE, p.len, TRUE)
    BY <1>2 DEF Payload, AnyPayload
  <1>3. ASSUME NEW l \in Nat \ {0}, p = Payload(FALSE, l, FALSE)
        PROVE  p \in AnyPayload /\ ~p.null /\ p.len > 0 /\ p.len # 0 /\ ~p.sane
    BY <1>3 DEF Payload, AnyPayload
  <1>4. QED
    BY <1>1, <1>2, <1>3 DEF VendorPayload

\* What a sound function took, it did not read past.
LEMMA SoundReads ==
  ASSUME NEW sh, Sound(sh), NEW p, VendorPayload(p), ~Refuses(sh, p)
  PROVE  Reads(sh, p) <= p.len
  <1>1. CASE p = NoPayload
    <2>1. p.null /\ p.len = 0
      BY <1>1 DEF NoPayload, Payload
    <2>2. QED
      BY <2>1 DEF Reads
  <1>2. CASE ~p.null /\ p.len > 0
    BY <1>2, VendorFields DEF Sound
  <1>3. QED
    BY <1>1, <1>2, VendorFields

\* What the two properties ask of the payload that was looked at last.
LastInv == ReadsInsidePayload /\ DocumentedIsTakenButFour

\* The payload of a completion, and of sendErrorResponse().
LEMMA RespondLast ==
  ASSUME Inv, NEW e, NEW p, VendorPayload(p), Respond(e, p), call # NoCall,
         setting' = setting
  PROVE  LastInv'
  <1> DEFINE name == s_commands[call.request]
             fn == Functions[setting][name]
  <1>1. setting \in Settings /\ GoodRequest(call.method, call)
    BY DEF Inv, CallInv
  <1>2. name \in DOMAIN Functions[setting]
    BY <1>1 DEF GoodRequest
  <1>3. GoodResponse(name, fn)
    BY <1>1, <1>2, SettingFacts DEF GoodResponses
  <1>4. /\ last'.kind = "response" /\ last'.name = name /\ last'.payload = p
        /\ last'.outcome \in {"unreached", "refused", "taken"}
        /\ last'.outcome = "refused" => Refuses(fn.shape, p)
        /\ last'.outcome = "taken" => ~Refuses(fn.shape, p)
    BY DEF Respond
  <1> HIDE DEF name, fn
  <1>5. ShapeOf(last)' = fn.shape
    BY <1>4 DEF ShapeOf, fn
  <1>6. ASSUME Documented(last)', name \notin KnownRefusals
        PROVE  ~Refuses(fn.shape, p)
    <2>1. p.sane /\ name \in DOMAIN DocumentedAnswers /\ p.len \in DocumentedAnswers[name]
      BY <1>4, <1>6 DEF Documented
    <2>2. p.len # 0
      BY <2>1, DocumentedLengths
    <2>3. p = Payload(FALSE, p.len, TRUE)
      BY <2>1, <2>2, VendorFields
    <2>4. Takes(fn.shape, DocumentedAnswers[name])
      BY <1>3, <1>6, <2>1, DocumentedLengths DEF GoodResponse, TakesDocumented
    <2>5. QED
      BY <2>1, <2>3, <2>4 DEF Takes
  <1>7. ReadsInsidePayload'
    BY <1>3, <1>4, <1>5, SoundReads DEF ReadsInsidePayload, GoodResponse
  <1>8. DocumentedIsTakenButFour'
    BY <1>4, <1>6 DEF DocumentedIsTakenButFour, DocumentedIsTaken, KnownRefusals
  <1>9. QED
    BY <1>7, <1>8 DEF LastInv

\* The payload of an indication.
LEMMA IndicateLast ==
  ASSUME NEW u \in DOMAIN s_unsolResponses, s_unsolResponses[u] # "none",
         NEW p, VendorPayload(p), Indicate(u, p)
  PROVE  LastInv'
  <1> DEFINE name == s_unsolResponses[u]
             fn == IndicationFunctions[name]
  <1>1. name \in DOMAIN IndicationFunctions
    BY IndicationNames
  <1>2. GoodIndication(name, fn)
    BY <1>1, AllIndicationsGood DEF GoodIndications
  <1>3. /\ last'.kind = "indication" /\ last'.name = name /\ last'.payload = p
        /\ last'.outcome \in {"unreached", "refused", "taken"}
        /\ last'.outcome = "refused" => Refuses(fn.shape, p)
        /\ last'.outcome = "taken" => ~Refuses(fn.shape, p)
    BY DEF Indicate
  <1> HIDE DEF name, fn
  <1>4. ShapeOf(last)' = fn.shape
    BY <1>3 DEF ShapeOf, fn
  <1>5. ASSUME Documented(last)', name \notin KnownRefusals
        PROVE  ~Refuses(fn.shape, p)
    <2>1. p.sane /\ name \in DOMAIN DocumentedReports /\ p.len \in DocumentedReports[name]
      BY <1>3, <1>5 DEF Documented
    <2>2. CASE p.len = 0
      <3>1. p = NoPayload
        BY <2>2, VendorFields
      <3>2. QED
        BY <1>2, <1>5, <2>1, <2>2, <3>1 DEF GoodIndication
    <2>3. CASE p.len # 0
      <3>1. p = Payload(FALSE, p.len, TRUE)
        BY <2>1, <2>3, VendorFields
      <3>2. Takes(fn.shape, DocumentedReports[name] \ {0})
        BY <1>2, <1>5, <2>1 DEF GoodIndication
      <3>3. QED
        BY <2>1, <2>3, <3>1, <3>2 DEF Takes
    <2>4. QED
      BY <2>2, <2>3
  <1>6. ReadsInsidePayload'
    BY <1>2, <1>3, <1>4, SoundReads DEF ReadsInsidePayload, GoodIndication
  <1>7. DocumentedIsTakenButFour'
    BY <1>3, <1>5 DEF DocumentedIsTakenButFour, DocumentedIsTaken, KnownRefusals
  <1>8. QED
    BY <1>6, <1>7 DEF LastInv

\* Every step keeps what was seen of the last payload.
LEMMA LastStep ==
  ASSUME Inv, LastInv, [Next]_vars
  PROVE  LastInv'
  <1>1. CASE last' = last /\ setting' = setting
    BY <1>1 DEF LastInv, ReadsInsidePayload, DocumentedIsTakenButFour, DocumentedIsTaken, ShapeOf
  <1>2. CASE last' = Unseen
    <2>1. last'.outcome = "none"
      BY <1>2 DEF Unseen
    <2>2. QED
      BY <2>1 DEF LastInv, ReadsInsidePayload, DocumentedIsTakenButFour, DocumentedIsTaken
  <1>3. ASSUME NEW c, Call(c)
        PROVE  last' = Unseen
    BY <1>3 DEF Call
  <1>4. CASE CheckFails \/ MustFail \/ NoMemory
    <2>1. PICK err, frees : FailWith(err, frees)
      BY <1>4 DEF CheckFails, MustFail, NoMemory
    <2>2. Respond(err, NoPayload) /\ setting' = setting
      BY <2>1 DEF FailWith
    <2>3. call # NoCall
      BY <1>4 DEF CheckFails, MustFail, NoMemory, At, AtCopy, Running
    <2>4. QED
      BY <2>2, <2>3, RespondLast DEF VendorPayload
  <1>5. CASE Method /\ ~(CheckFails \/ MustFail \/ NoMemory)
    BY <1>1, <1>5 DEF Method, AddToList, AddFails, AddFailsUnchecked, Declare, CheckPasses,
       MustFailOnNull, Allocate, CopyNull, Truncated, CallOnRequest, FreeCopies
  <1>6. ASSUME NEW e \in Errors, NEW p \in Payloads(ResponseShape), Complete(e, p)
        PROVE  LastInv'
    <2>1. Respond(e, p) /\ setting' = setting /\ handed
      BY <1>6 DEF Complete
    <2>2. call # NoCall
      BY <2>1 DEF Inv, CallInv
    <2>3. QED
      BY <2>1, <2>2, PayloadCases, RespondLast
  <1>7. CASE Finish
    BY <1>2, <1>7 DEF Finish
  <1>8. ASSUME NEW u \in DOMAIN s_unsolResponses, s_unsolResponses[u] # "none",
               NEW p \in Payloads(IndicationFunctions[s_unsolResponses[u]].shape),
               Indicate(u, p)
        PROVE  LastInv'
    BY <1>8, PayloadCases, IndicateLast
  <1>9. CASE Reports
    BY <1>2, <1>9, ReportsKeepCall
  <1>10. CASE UNCHANGED vars
    BY <1>1, <1>10 DEF vars
  <1>11. QED
    BY <1>2, <1>3, <1>4, <1>5, <1>6, <1>7, <1>8, <1>9, <1>10 DEF Next

\* What was seen of the last payload is always sound.
LEMMA LastAlways == Spec => []LastInv
  <1>1. Init => LastInv
    <2> SUFFICES ASSUME Init PROVE LastInv
      OBVIOUS
    <2>1. last.outcome = "none"
      BY DEF Init, Unseen
    <2>2. QED
      BY <2>1 DEF LastInv, ReadsInsidePayload, DocumentedIsTakenButFour, DocumentedIsTaken
  <1>2. Inv /\ LastInv /\ [Next]_vars => LastInv'
    BY LastStep
  <1>3. QED
    BY <1>1, <1>2, Inductive, PTL DEF Spec

\* No response or indication function reads past a payload it took, whatever the
\* length, but for the two with a test that is too weak.
THEOREM NeverReadsPastPayload == Spec => []ReadsInsidePayload
  <1>1. LastInv => ReadsInsidePayload
    BY DEF LastInv
  <1>2. QED
    BY <1>1, LastAlways, PTL

\* A payload of a length that ril.h documents is taken, but for the functions that
\* are known to refuse one: three, and a fourth if a network does not have four
\* strings.
THEOREM DocumentedAlwaysTaken == Spec => []DocumentedIsTakenButFour
  <1>1. LastInv => DocumentedIsTakenButFour
    BY DEF LastInv
  <1>2. QED
    BY <1>1, LastAlways, PTL

-----------------------------------------------------------------------------
(***************************************************************************)
(* Reports with contents                                                   *)
(***************************************************************************)

\* Every step leaves the report alone, forgets it or makes a new one.
LEMMA ReportSteps ==
  ASSUME [Next]_vars
  PROVE  report' = report \/ report' = NoReport \/ Reports
  <1>1. ASSUME NEW c, Call(c)
        PROVE  report' = NoReport
    BY <1>1 DEF Call
  <1>2. CASE Method
    BY <1>2 DEF Method, AddToList, AddFails, AddFailsUnchecked, Declare, CheckPasses, CheckFails,
       MustFail, MustFailOnNull, Allocate, CopyNull, NoMemory, Truncated, CallOnRequest,
       FreeCopies, FailWith
  <1>3. ASSUME NEW e, NEW p, Complete(e, p)
        PROVE  report' = report
    BY <1>3 DEF Complete
  <1>4. CASE Finish
    BY <1>4 DEF Finish
  <1>5. ASSUME NEW u, NEW p, Indicate(u, p)
        PROVE  report' = NoReport
    BY <1>5 DEF Indicate
  <1>6. CASE UNCHANGED vars
    BY <1>6 DEF vars
  <1>7. QED
    BY <1>1, <1>2, <1>3, <1>4, <1>5, <1>6 DEF Next

\* A report, by what it is about.
LEMMA ReportKinds ==
  ASSUME Reports
  PROVE  \/ \E rat \in RadioTechs, missing \in {1, 2, 8, 15} : AnswerRegistration(rat, missing)
         \/ \E len, lte : lte \in LteValues /\ MeasureSignal(len, lte)
         \/ RepeatSignal
         \/ \E layout \in DataCallLayouts, n \in 0 .. MaxDataCalls : ReportDataCalls(layout, n)
         \/ \E types : ReportCells(types) \/ ReportHardware(types)
         \/ \E count \in Nat : \E recs : ReportInfoRecords(count, recs)
         \/ \E digits \in 0 .. MaxDigits, bearer \in Nat : EchoCdmaSms(digits, bearer)
         \/ \E n \in Nat : \E serType, reqType : ReportSupplementary(serType, reqType, n)
  <1>1. ASSUME NEW count \in {0, 1, 10, 11, 255}, NEW recs, ReportInfoRecords(count, recs)
        PROVE  \E k \in Nat : \E rs : ReportInfoRecords(k, rs)
    BY <1>1
  <1>2. ASSUME NEW digits \in 0 .. MaxDigits, NEW bearer \in {0, 1, 254, 255, 256},
               EchoCdmaSms(digits, bearer)
        PROVE  \E d \in 0 .. MaxDigits, b \in Nat : EchoCdmaSms(d, b)
    BY <1>2
  <1>3. ASSUME NEW serType, NEW reqType, NEW n \in {0, 7, 8},
               ReportSupplementary(serType, reqType, n)
        PROVE  \E k \in Nat : \E s, r : ReportSupplementary(s, r, k)
    BY <1>3
  <1>4. QED
    BY <1>1, <1>2, <1>3 DEF Reports

\* The kind of the new report.
LEMMA ReportKind ==
  ASSUME NEW rat, NEW missing, NEW len, NEW lte, NEW layout, NEW n, NEW types, NEW count,
         NEW recs, NEW digits, NEW bearer, NEW serType, NEW reqType
  PROVE  /\ AnswerRegistration(rat, missing) => report'.kind \in {"voice", "data"}
         /\ MeasureSignal(len, lte) \/ RepeatSignal => report'.kind = "signal"
         /\ ReportDataCalls(layout, n) => report'.kind = "dataCalls"
         /\ ReportCells(types) \/ ReportHardware(types) => report'.kind = "cells"
         /\ ReportInfoRecords(count, recs) => report'.kind = "infoRecs"
         /\ EchoCdmaSms(digits, bearer) => report'.kind = "sms"
         /\ ReportSupplementary(serType, reqType, n) => report'.kind = "ss"
  <1>1. AnswerRegistration(rat, missing) => report'.kind \in {"voice", "data"}
    BY DEF AnswerRegistration, Reported
  <1>2. MeasureSignal(len, lte) \/ RepeatSignal => report'.kind = "signal"
    BY DEF MeasureSignal, RepeatSignal, SignalReport, Reported
  <1>3. ReportDataCalls(layout, n) => report'.kind = "dataCalls"
    BY DEF ReportDataCalls, Reported
  <1>4. ReportCells(types) \/ ReportHardware(types) => report'.kind = "cells"
    BY DEF ReportCells, ReportHardware, Reported
  <1>5. ReportInfoRecords(count, recs) => report'.kind = "infoRecs"
    BY DEF ReportInfoRecords, Reported
  <1>6. EchoCdmaSms(digits, bearer) => report'.kind = "sms"
    BY DEF EchoCdmaSms, Reported
  <1>7. ReportSupplementary(serType, reqType, n) => report'.kind = "ss"
    BY DEF ReportSupplementary, Reported
  <1>8. QED
    BY <1>1, <1>2, <1>3, <1>4, <1>5, <1>6, <1>7

\* The fixup of the signal is made once: what it leaves stays as it is.
LEMMA FixupOnce ==
  ASSUME NEW lte \in [signalStrength : Int, rsrp : Int, rsrq : Int, cqi : Int]
  PROVE  fixupLte(fixupLte(lte)) = fixupLte(lte)
BY DEF fixupLte, INT_MAX

\* Every step keeps the buffer equivalent to what was measured.
LEMMA SignalStep ==
  ASSUME SignalInv, [Next]_vars
  PROVE  SignalInv'
  <1>1. ASSUME NEW len, NEW sent \in LteValues, NEW buffer,
               fixupLte(buffer) = fixupLte(sent), report' = SignalReport(len, sent, buffer)
        PROVE  SignalInv'
    <2>1. /\ report'.sent = sent /\ report'.buffer = fixupLte(buffer)
          /\ report'.shown.lte = fixupLte(buffer)
      BY <1>1 DEF SignalReport, convertRilSignalStrengthToHal
    <2>2. QED
      BY <1>1, <2>1 DEF SignalInv
  <1>2. ASSUME NEW len, NEW lte \in LteValues, MeasureSignal(len, lte)
        PROVE  SignalInv'
    BY <1>1, <1>2 DEF MeasureSignal, Reported
  <1>3. CASE RepeatSignal
    <2>1. /\ report.kind = "signal"
          /\ report' = SignalReport(report.len, report.sent, report.buffer)
      BY <1>3 DEF RepeatSignal, Reported
    <2>2. report.sent \in LteValues /\ report.buffer = fixupLte(report.sent)
      BY <2>1 DEF SignalInv
    <2>3. report.sent \in [signalStrength : Int, rsrp : Int, rsrq : Int, cqi : Int]
      BY <2>2 DEF LteValues
    <2>4. fixupLte(report.buffer) = fixupLte(report.sent)
      BY <2>2, <2>3, FixupOnce
    <2>5. QED
      BY <1>1, <2>1, <2>2, <2>4
  <1>4. CASE report'.kind # "signal"
    BY <1>4 DEF SignalInv
  <1>5. CASE Reports
    BY <1>2, <1>3, <1>4, <1>5, ReportKinds, ReportKind
  <1>6. CASE report' = report
    BY <1>6 DEF SignalInv
  <1>7. CASE report' = NoReport
    BY <1>7 DEF SignalInv, NoReport
  <1>8. QED
    BY <1>5, <1>6, <1>7, ReportSteps

\* The signal the client sees is the one the modem measured, however often the
\* vendor reports the buffer that the conversion rewrites.
THEOREM SignalAlwaysFaithful == Spec => []SignalFaithful
  <1>1. Init => SignalInv
    BY DEF Init, NoReport, SignalInv
  <1>2. SignalInv /\ [Next]_vars => SignalInv'
    BY SignalStep
  <1>3. SignalInv => SignalFaithful
    <2> SUFFICES ASSUME SignalInv, report.kind = "signal"
                 PROVE  SignalFaithful
      BY DEF SignalFaithful
    <2>1. report.sent \in LteValues /\ report.shown.lte = fixupLte(report.sent)
      BY DEF SignalInv
    <2>2. report.sent \in [signalStrength : Int, rsrp : Int, rsrq : Int, cqi : Int]
      BY <2>1 DEF LteValues
    <2>3. QED
      BY <2>1, <2>2 DEF SignalFaithful, fixupLte
  <1>4. QED
    BY <1>1, <1>2, <1>3, PTL DEF Spec

\* A list of at most nine data calls is read with the layout it was written in.
THEOREM DataCallsAlwaysFaithful ==
  ASSUME MaxDataCalls <= 9
  PROVE  Spec => []DataCallsFaithful
  <1>1. ASSUME NEW layout \in DataCallLayouts, NEW n \in 1 .. 9
        PROVE  DataCallLayout(n * layout) = layout /\ (n * layout) \div layout = n
    <2>1. /\ RIL_Data_Call_Response_v6 = 36 /\ RIL_Data_Call_Response_v9 = 40
          /\ RIL_Data_Call_Response_v11 = 44
      BY DataCallSizes
    <2>2. n \in {1, 2, 3, 4, 5, 6, 7, 8, 9} /\ layout \in {36, 40, 44}
      BY <2>1 DEF DataCallLayouts
    <2>3. QED
      BY <2>1, <2>2 DEF DataCallLayout
  <1>2. ASSUME NEW layout \in DataCallLayouts, NEW n \in 0 .. MaxDataCalls,
               ReportDataCalls(layout, n)
        PROVE  DataCallsFaithful'
    <2>1. /\ report'.layout = layout /\ report'.n = n
          /\ report'.shown = [layout |-> DataCallLayout(n * layout),
                              num |-> (n * layout) \div DataCallLayout(n * layout)]
      BY <1>2 DEF ReportDataCalls, Reported, convertRilDataCallListToHal
    <2>2. n > 0 => n \in 1 .. 9
      BY RequestsAssumption
    <2>3. QED
      BY <1>1, <2>1, <2>2 DEF DataCallsFaithful
  <1>3. DataCallsFaithful /\ [Next]_vars => DataCallsFaithful'
    <2> SUFFICES ASSUME DataCallsFaithful, [Next]_vars
                 PROVE  DataCallsFaithful'
      OBVIOUS
    <2>1. CASE Reports
      BY <1>2, <2>1, ReportKinds, ReportKind DEF DataCallsFaithful
    <2>2. CASE report' = report
      BY <2>2 DEF DataCallsFaithful
    <2>3. CASE report' = NoReport
      BY <2>3 DEF DataCallsFaithful, NoReport
    <2>4. QED
      BY <2>1, <2>2, <2>3, ReportSteps
  <1>4. Init => DataCallsFaithful
    BY DEF Init, NoReport, DataCallsFaithful
  <1>5. QED
    BY <1>3, <1>4, PTL DEF Spec

\* No count or length of the modem or of the client leads past an array.
THEOREM LengthsAlwaysClamped == Spec => []LengthsClamped
  <1>1. ASSUME NEW count \in Nat, NEW recs, ReportInfoRecords(count, recs)
        PROVE  LengthsClamped'
    <2> DEFINE num == Least(count, RIL_CDMA_MAX_NUMBER_OF_INFO_RECS)
    <2>1. num \in Nat /\ num <= RIL_CDMA_MAX_NUMBER_OF_INFO_RECS
      BY DEF Least, RIL_CDMA_MAX_NUMBER_OF_INFO_RECS
    <2>2. /\ report'.kind = "infoRecs" /\ report'.recs = recs /\ report'.shown.read = num
          /\ report'.shown.sent = (\A i \in 1 .. num : RecordTaken(recs[i]))
      BY <1>1 DEF ReportInfoRecords, Reported, cdmaInfoRecInd
    <2>3. ASSUME NEW r, RecordTaken(r), r.name \in {"number", "redir"}
          PROVE  r.len <= 81
      BY <2>3 DEF RecordTaken, CDMA_NUMBER_INFO_BUFFER_LENGTH
    <2> HIDE DEF num
    <2>4. QED
      BY <2>1, <2>2, <2>3 DEF LengthsClamped
  <1>2. ASSUME NEW digits \in 0 .. MaxDigits, NEW bearer \in Nat, EchoCdmaSms(digits, bearer)
        PROVE  LengthsClamped'
    <2>1. digits \in 0 .. 255 /\ digits % 256 = digits
      BY RequestsAssumption
    <2>2. /\ report'.kind = "sms" /\ report'.digits = digits /\ report'.bearer = bearer
          /\ report'.msg.digitsCopied = Least(digits, 36)
          /\ report'.msg.bearerCopied = Least(bearer, 255)
          /\ report'.shown.digits = Least(digits, 36)
          /\ report'.shown.bearer = Least(bearer, 255)
      BY <1>2, <2>1 DEF EchoCdmaSms, Reported, constructCdmaSms, cdmaNewSmsInd,
         RIL_CDMA_SMS_ADDRESS_MAX, RIL_CDMA_SMS_BEARER_DATA_MAX
    <2>3. /\ Least(digits, 36) <= 36 /\ Least(bearer, 255) <= 255
          /\ digits <= 36 => Least(digits, 36) = digits
          /\ bearer <= 255 => Least(bearer, 255) = bearer
      BY <2>1 DEF Least
    <2>4. QED
      BY <2>2, <2>3 DEF LengthsClamped
  <1>3. ASSUME NEW n \in Nat, NEW serType, NEW reqType, ReportSupplementary(serType, reqType, n)
        PROVE  LengthsClamped'
    <2>1. /\ report'.kind = "ss"
          /\ report'.shown.cfData \in {0, Least(n, NUM_SERVICE_CLASSES)}
      BY <1>3 DEF ReportSupplementary, Reported, onSupplementaryServiceIndicationInd
    <2>2. Least(n, NUM_SERVICE_CLASSES) <= 7
      BY DEF Least, NUM_SERVICE_CLASSES
    <2>3. QED
      BY <2>1, <2>2 DEF LengthsClamped
  <1>4. LengthsClamped /\ [Next]_vars => LengthsClamped'
    <2> SUFFICES ASSUME LengthsClamped, [Next]_vars
                 PROVE  LengthsClamped'
      OBVIOUS
    <2>1. CASE report'.kind \notin {"infoRecs", "sms", "ss"}
      BY <2>1 DEF LengthsClamped
    <2>2. CASE Reports
      BY <1>1, <1>2, <1>3, <2>1, <2>2, ReportKinds, ReportKind
    <2>3. CASE report' = report
      BY <2>3 DEF LengthsClamped
    <2>4. CASE report' = NoReport
      BY <2>1, <2>4 DEF NoReport
    <2>5. QED
      BY <2>2, <2>3, <2>4, ReportSteps
  <1>5. Init => LengthsClamped
    BY DEF Init, NoReport, LengthsClamped
  <1>6. QED
    BY <1>4, <1>5, PTL DEF Spec

\* The fields of a cell: the first and second entry are hexadecimal.
GoodFields(fields) ==
  \A f \in DOMAIN fields :
    /\ fields[f].index \in Nat
    /\ fields[f].base = IF fields[f].index \in {1, 2} THEN 16 ELSE 10

\* The fields of the registration that are shown are among those that are there.
LEMMA FieldsGood ==
  ASSUME NEW type
  PROVE  GoodFields(VoiceFields(type)) /\ GoodFields(DataFields(type))
  <1>1. \A i \in {1, 2} : Hex(i).index = i /\ Hex(i).base = 16
    BY DEF Hex
  <1>2. \A i \in Nat : Dec(i).index = i /\ Dec(i).base = 10
    BY DEF Dec
  <1>3. GoodFields(VoiceFields(type))
    BY <1>1, <1>2 DEF GoodFields, VoiceFields
  <1>4. GoodFields(DataFields(type))
    BY <1>1, <1>2 DEF GoodFields, DataFields
  <1>5. QED
    BY <1>3, <1>4

\* A number that is shown is one of the strings, in the base of its entry.
LEMMA CellNumbers ==
  ASSUME NEW type, NEW fields, GoodFields(fields), NEW strings, NEW num, NEW f \in DOMAIN fields
  PROVE  LET n == CellIdentity(type, fields, strings, num).set[f]
         IN  n # Unset => n.entry \in strings /\ n.base = IF n.entry \in {1, 2} THEN 16 ELSE 10
  <1> DEFINE n == convertResponseEntryToInt(strings, fields[f].index, fields[f].base, num)
  <1>1. CellIdentity(type, fields, strings, num).set[f] = n
    BY DEF CellIdentity
  <1>2. ASSUME n # Unset
        PROVE  fields[f].index \in strings /\ n.entry = fields[f].index /\ n.base = fields[f].base
    BY <1>2 DEF convertResponseEntryToInt
  <1> HIDE DEF n
  <1>3. QED
    BY <1>1, <1>2 DEF GoodFields

\* A cell is in the vector of its type.
LEMMA OneVector ==
  ASSUME NEW type
  PROVE  /\ fillCellIdentityResponse(type) \subseteq {type}
         /\ Cardinality(fillCellIdentityResponse(type)) =
              IF type \in {"GSM", "WCDMA", "CDMA", "LTE", "TD_SCDMA"} THEN 1 ELSE 0
         /\ Cardinality({type} \cap {"MODEM", "SIM"}) <= 1
  <1>1. Cardinality({type}) = 1 /\ Cardinality({}) = 0
    BY FS_Singleton, FS_EmptySet
  <1>2. {type} \cap {"MODEM", "SIM"} = {type} \/ {type} \cap {"MODEM", "SIM"} = {}
    OBVIOUS
  <1>3. Cardinality({type} \cap {"MODEM", "SIM"}) <= 1
    BY <1>1, <1>2
  <1>4. QED
    BY <1>1, <1>3 DEF fillCellIdentityResponse

\* Every technology but the unknown one has a type of cell.
LEMMA CellTypeOf ==
  ASSUME NEW rat \in RadioTechs
  PROVE  LET type == getCellInfoTypeRadioTechnology(rat)
         IN  IF rat = "UNKNOWN" THEN type = "NONE"
             ELSE type \in {"GSM", "WCDMA", "CDMA", "LTE", "TD_SCDMA"}
  <1>1. CASE rat \in GsmTechs \cup WcdmaTechs
    BY <1>1 DEF getCellInfoTypeRadioTechnology, GsmTechs, WcdmaTechs
  <1>2. CASE rat \in CdmaTechs \cup LteTechs
    BY <1>2 DEF getCellInfoTypeRadioTechnology, GsmTechs, WcdmaTechs, CdmaTechs, LteTechs
  <1>3. CASE rat \in {"TD_SCDMA", "UNKNOWN"}
    BY <1>3 DEF getCellInfoTypeRadioTechnology, GsmTechs, WcdmaTechs, CdmaTechs, LteTechs
  <1>4. QED
    BY <1>1, <1>2, <1>3 DEF RadioTechs

\* A voice answer that lacks one string has a number left to show.
LEMMA VoiceNumber ==
  ASSUME NEW type \in {"GSM", "WCDMA", "CDMA", "LTE", "TD_SCDMA"},
         NEW missing \in {1, 2, 8, 15}
  PROVE  LET shown == CellIdentity(type, VoiceFields(type), (0 .. 14) \ {missing}, 15)
         IN  {shown.set[f] : f \in DOMAIN shown.set} \ {Unset} # {}
  <1> DEFINE fields == VoiceFields(type)
             strings == (0 .. 14) \ {missing}
             shown == CellIdentity(type, fields, strings, 15)
  <1>1. \E f \in DOMAIN fields : fields[f].index \in {1, 2, 4} /\ fields[f].index # missing
    <2>1. Hex(1).index = 1 /\ Hex(2).index = 2 /\ Dec(4).index = 4
      BY DEF Hex, Dec
    <2>2. CASE type \in {"GSM", "TD_SCDMA"}
      <3>1. fields = [lac |-> Hex(1), cid |-> Hex(2)]
        BY <2>2 DEF VoiceFields
      <3>2. QED
        BY <2>1, <3>1
    <2>3. CASE type = "WCDMA"
      <3>1. fields = [lac |-> Hex(1), cid |-> Hex(2), psc |-> Dec(14)]
        BY <2>3 DEF VoiceFields
      <3>2. QED
        BY <2>1, <3>1
    <2>4. CASE type = "CDMA"
      <3>1. "basestationId" \in DOMAIN fields /\ fields["basestationId"] = Dec(4)
        BY <2>4 DEF VoiceFields
      <3>2. QED
        BY <2>1, <3>1
    <2>5. CASE type = "LTE"
      <3>1. fields = [tac |-> Hex(1), ci |-> Hex(2)]
        BY <2>5 DEF VoiceFields
      <3>2. QED
        BY <2>1, <3>1
    <2>6. QED
      BY <2>2, <2>3, <2>4, <2>5
  <1> HIDE DEF fields
  <1>2. PICK f \in DOMAIN fields : fields[f].index \in {1, 2, 4} /\ fields[f].index # missing
    BY <1>1
  <1>3. f \in DOMAIN shown.set
        /\ shown.set[f] = convertResponseEntryToInt(strings, fields[f].index, fields[f].base, 15)
    BY DEF CellIdentity
  <1>4. shown.set[f] = [entry |-> fields[f].index, base |-> fields[f].base]
    BY <1>2, <1>3 DEF convertResponseEntryToInt
  <1>5. shown.set[f] # Unset
    BY <1>2, <1>4 DEF Unset
  <1> HIDE DEF shown
  <1>6. QED
    BY <1>3, <1>5 DEF shown, fields

\* What the property asks of a registration answer.
LEMMA RegisteredCell ==
  ASSUME NEW rat \in RadioTechs, NEW fields, GoodFields(fields), NEW strings, NEW num
  PROVE  LET type == getCellInfoTypeRadioTechnology(rat)
             shown == CellIdentity(type, fields, strings, num)
         IN  /\ Cardinality(shown.vectors) = IF rat = "UNKNOWN" THEN 0 ELSE 1
             /\ \A f \in DOMAIN shown.set :
                  LET n == shown.set[f]
                  IN  n # Unset => n.entry \in strings
                                   /\ n.base = IF n.entry \in {1, 2} THEN 16 ELSE 10
  <1> DEFINE type == getCellInfoTypeRadioTechnology(rat)
             shown == CellIdentity(type, fields, strings, num)
  <1>1. shown.vectors = fillCellIdentityResponse(type) /\ DOMAIN shown.set = DOMAIN fields
    BY DEF CellIdentity
  <1>2. Cardinality(shown.vectors) = IF rat = "UNKNOWN" THEN 0 ELSE 1
    <2>1. IF rat = "UNKNOWN" THEN type = "NONE"
          ELSE type \in {"GSM", "WCDMA", "CDMA", "LTE", "TD_SCDMA"}
      BY CellTypeOf
    <2> HIDE DEF type
    <2>2. QED
      BY <1>1, <2>1, OneVector
  <1>3. QED
    BY <1>1, <1>2, CellNumbers

\* A registered cell is shown in the vector of its technology with the numbers that
\* are there, and the types of a list are kept.
THEOREM CellsAlwaysFaithful == Spec => []CellsFaithful
  <1>1. ASSUME NEW rat \in RadioTechs, NEW missing \in {1, 2, 8, 15},
               AnswerRegistration(rat, missing)
        PROVE  CellsFaithful'
    <2> DEFINE type == getCellInfoTypeRadioTechnology(rat)
    <2>1. ASSUME NEW fields, GoodFields(fields), NEW strings, NEW num, report'.rat = rat,
                 report'.strings = strings,
                 report'.shown = CellIdentity(type, fields, strings, num),
                 report'.kind \in {"voice", "data"},
                 report'.kind = "voice" => fields = VoiceFields(type) /\ num = 15
                                           /\ strings = (0 .. 14) \ {missing}
          PROVE  CellsFaithful'
      <3>1. /\ Cardinality(report'.shown.vectors) = IF report'.rat = "UNKNOWN" THEN 0 ELSE 1
            /\ \A f \in DOMAIN report'.shown.set :
                 LET n == report'.shown.set[f]
                 IN  n # Unset => n.entry \in report'.strings
                                  /\ n.base = IF n.entry \in {1, 2} THEN 16 ELSE 10
        BY <2>1, RegisteredCell
      <3>2. ASSUME report'.kind = "voice", rat # "UNKNOWN"
            PROVE  {report'.shown.set[f] : f \in DOMAIN report'.shown.set} \ {Unset} # {}
        <4>1. type \in {"GSM", "WCDMA", "CDMA", "LTE", "TD_SCDMA"}
          BY <3>2, CellTypeOf
        <4> HIDE DEF type
        <4> DEFINE shown == CellIdentity(type, VoiceFields(type), (0 .. 14) \ {missing}, 15)
        <4>2. report'.shown = shown
          BY <2>1, <3>2
        <4>3. {shown.set[f] : f \in DOMAIN shown.set} \ {Unset} # {}
          BY <4>1, VoiceNumber
        <4> HIDE DEF shown
        <4>4. QED
          BY <4>2, <4>3
      <3>3. QED
        BY <2>1, <3>1, <3>2 DEF CellsFaithful
    <2>2. ASSUME NEW strings, strings = (0 .. 14) \ {missing},
                 report' = [kind |-> "voice", rat |-> rat, strings |-> strings,
                   shown |-> fillCellIdentityFromVoiceRegStateResponseString(rat, strings)]
          PROVE  CellsFaithful'
      <3>1. /\ report'.kind = "voice" /\ report'.rat = rat /\ report'.strings = strings
            /\ report'.shown = CellIdentity(type, VoiceFields(type), strings, 15)
        BY <2>2 DEF fillCellIdentityFromVoiceRegStateResponseString
      <3>2. GoodFields(VoiceFields(type))
        BY FieldsGood
      <3> HIDE DEF type
      <3>3. QED
        BY <2>1, <2>2, <3>1, <3>2
    <2>3. ASSUME NEW strings, NEW sent,
                 report' = [kind |-> "data", rat |-> rat, strings |-> strings,
                   shown |-> fillCellIdentityFromDataRegStateResponseString(rat, strings, sent)]
          PROVE  CellsFaithful'
      <3>1. /\ report'.kind = "data" /\ report'.rat = rat /\ report'.strings = strings
            /\ report'.shown =
                 CellIdentity(type, DataFields(type), strings, IF sent < 11 THEN 6 ELSE 11)
        BY <2>3 DEF fillCellIdentityFromDataRegStateResponseString
      <3>2. GoodFields(DataFields(type))
        BY FieldsGood
      <3> HIDE DEF type
      <3>3. QED
        BY <2>1, <3>1, <3>2
    <2>4. QED
      BY <1>1, <2>2, <2>3 DEF AnswerRegistration, Reported
  <1>2. ASSUME NEW types, ReportCells(types) \/ ReportHardware(types)
        PROVE  CellsFaithful'
    <2>1. /\ report'.kind = "cells" /\ report'.sent = types /\ DOMAIN report'.shown = DOMAIN types
          /\ \/ \A i \in DOMAIN types :
                  report'.shown[i].vectors = fillCellIdentityResponse(types[i])
             \/ \A i \in DOMAIN types : report'.shown[i].vectors = {types[i]} \cap {"MODEM", "SIM"}
      BY <1>2 DEF ReportCells, ReportHardware, Reported, convertRilCellInfoListToHal,
         convertRilHardwareConfigListToHal
    <2>2. \A t : /\ fillCellIdentityResponse(t) \subseteq {t}
                 /\ Cardinality(fillCellIdentityResponse(t)) <= 1
                 /\ {t} \cap {"MODEM", "SIM"} \subseteq {t}
                 /\ Cardinality({t} \cap {"MODEM", "SIM"}) <= 1
      BY OneVector
    <2>3. \A i \in DOMAIN report'.shown :
            /\ report'.shown[i].vectors \subseteq {report'.sent[i]}
            /\ Cardinality(report'.shown[i].vectors) <= 1
      BY <2>1, <2>2, SMTT(30)
    <2>4. QED
      BY <2>1, <2>3 DEF CellsFaithful
  <1>3. CellsFaithful /\ [Next]_vars => CellsFaithful'
    <2> SUFFICES ASSUME CellsFaithful, [Next]_vars
                 PROVE  CellsFaithful'
      OBVIOUS
    <2>1. CASE report'.kind \notin {"voice", "data", "cells"}
      BY <2>1 DEF CellsFaithful
    <2>2. CASE Reports
      BY <1>1, <1>2, <2>1, <2>2, ReportKinds, ReportKind
    <2>3. CASE report' = report
      BY <2>3 DEF CellsFaithful
    <2>4. CASE report' = NoReport
      BY <2>1, <2>4 DEF NoReport
    <2>5. QED
      BY <2>2, <2>3, <2>4, ReportSteps
  <1>4. Init => CellsFaithful
    BY DEF Init, NoReport, CellsFaithful
  <1>5. QED
    BY <1>3, <1>4, PTL DEF Spec
=============================================================================
