----------------------------- MODULE RilPayload -----------------------------
(***************************************************************************)
(* The buffers a vendor passes to RIL_onRequestComplete() and              *)
(* RIL_onUnsolicitedResponse(), and the tests by which the functions of    *)
(* ril/libril/ril_service.cpp take or refuse one.  A buffer is what those  *)
(* tests can see of it: whether it is NULL, its length in bytes (of the    *)
(* 32-bit build: pointers and ints have 4 bytes) and whether the contents  *)
(* that some functions look at are in range.                               *)
(***************************************************************************)
EXTENDS RilStructs, RilTables

CONSTANT
  QanRespStrings   \* ro.ril.telephony.qan_resp_strings: 4 by default, 6 in this
                   \* repository's system.prop

\* every network has at least the four strings that are read
ASSUME QanAssumption == QanRespStrings \in Nat /\ QanRespStrings >= 4

Payload(null, len, sane) == [null |-> null, len |-> len, sane |-> sane]
NoPayload == Payload(TRUE, 0, TRUE)

-----------------------------------------------------------------------------
(* What a function expects *)

Shape(kind, size, layouts) == [kind |-> kind, size |-> size, layouts |-> layouts]

\* the payload is not looked at
Nothing == Shape("nothing", 0, {})
\* a string, or NULL
Text == Shape("text", 1, {})
\* responseInt(), and the functions that test for an int themselves
OneInt == Shape("int", Words(1), {})
\* responseIntOrEmpty(): older vendors send nothing
IntOrEmpty == Shape("intOrEmpty", Words(1), {})
\* at least n ints, or n pointers
Ints(n) == Shape("atLeast", Words(n), {})
Strings(n) == Shape("atLeast", Words(n), {})
\* a structure of one of the sizes
OneOf(sizes) == Shape("struct", 0, sizes)
OneOfOrNull(sizes) == Shape("structOrNull", 0, sizes)
\* an array, of elements of one of the sizes
ListOf(sizes) == Shape("list", 0, sizes)
\* any bytes, not NULL
Bytes == Shape("bytes", 0, {})
\* bytes that are cast to something of the given size after a test for 0 only
NonEmpty(size) == Shape("nonEmpty", size, {})

-----------------------------------------------------------------------------
(* The functions with a test of their own *)

\* RIL_CardStatus_v6 whose application indices are below num_applications
CardStatus == Shape("checkedStruct", 0, {RIL_CardStatus_v6})

\* RIL_LastCallFailCauseInfo or an int; lengths that are no multiple of an int
\* are read as one, the others are refused
FailCause == Shape("failCause", Words(1), {RIL_LastCallFailCauseInfo})

DataCallLayouts ==
  {RIL_Data_Call_Response_v11, RIL_Data_Call_Response_v9, RIL_Data_Call_Response_v6}
\* without a payload the call failed for an unknown reason
DataCall == Shape("dataCall", 0, DataCallLayouts)

\* an array of strings, or since version 15 a structure
RegistrationState(version, strings, size) ==
  IF version <= 14 THEN Strings(strings) ELSE OneOf({size})

\* a bug: the older structure is forgotten
SendSmsResultExtOnly == OneOf({RIL_SMS_Response_Ext})

SendSmsResult == OneOf({RIL_SMS_Response, RIL_SMS_Response_Ext})

\* a bug: any length above 0 will do
IccIoAnyLength == NonEmpty(RIL_SIM_IO_Response)

IccIo == OneOf({RIL_SIM_IO_Response})

\* so many strings for each network as the property says; the first four are
\* read, and the fourth is one of four words
Networks == Shape("checkedList", 0, {Words(QanRespStrings)})

\* the number of a channel, then the bytes of the select response, an int each
ChannelId == Shape("channel", Words(1), {})

\* an even number of hexadecimal digits
HexString == Shape("hex", 0, {})

\* nothing for GSM, a signal record for CDMA
Ring == Shape("ring", 0, {RIL_CDMA_SignalInfoRecord})

\* records whose names and lengths are in range
InfoRecords == Shape("checkedStruct", 0, {RIL_CDMA_InformationRecords})

-----------------------------------------------------------------------------

Divides(layouts, len) == \E s \in layouts : len % s = 0

\* the function finds the payload invalid
Refuses(sh, p) ==
  CASE sh.kind \in {"nothing", "text"} -> FALSE
    [] sh.kind = "int" -> p.null \/ p.len % 4 # 0
    [] sh.kind = "intOrEmpty" -> IF p.null THEN p.len # 0 ELSE p.len % 4 # 0
    [] sh.kind = "atLeast" -> p.null \/ p.len < sh.size
    [] sh.kind = "struct" -> p.null \/ p.len \notin sh.layouts
    [] sh.kind = "structOrNull" -> ~p.null /\ p.len \notin sh.layouts
    [] sh.kind = "list" -> (p.null /\ p.len # 0) \/ ~Divides(sh.layouts, p.len)
    [] sh.kind = "bytes" -> p.null
    [] sh.kind = "nonEmpty" -> p.null \/ p.len = 0
    [] sh.kind = "checkedStruct" -> p.null \/ p.len \notin sh.layouts \/ ~p.sane
    [] sh.kind = "failCause" -> p.null \/ (p.len \notin sh.layouts /\ p.len % 4 = 0)
    [] sh.kind = "dataCall" -> ~p.null /\ ~Divides(sh.layouts, p.len)
    [] sh.kind = "checkedList" ->
         (p.null /\ p.len # 0) \/ ~Divides(sh.layouts, p.len) \/ (p.len > 0 /\ ~p.sane)
    [] sh.kind = "channel" -> ~p.null /\ p.len % 4 # 0
    [] sh.kind = "hex" -> p.null \/ p.len = 0 \/ p.len % 2 # 0 \/ ~p.sane
    [] sh.kind = "ring" -> ~p.null /\ p.len # 0 /\ p.len \notin sh.layouts

\* a bug: the oldest layout is tried first
DataCallLayoutOldestFirst(len) ==
  CASE len % RIL_Data_Call_Response_v6 = 0 -> RIL_Data_Call_Response_v6
    [] len % RIL_Data_Call_Response_v6 # 0 /\ len % RIL_Data_Call_Response_v9 = 0 ->
         RIL_Data_Call_Response_v9
    [] OTHER -> RIL_Data_Call_Response_v11

\* the layout of a data call: the newest whose size divides the length
DataCallLayout(len) ==
  CASE len % RIL_Data_Call_Response_v11 = 0 -> RIL_Data_Call_Response_v11
    [] len % RIL_Data_Call_Response_v11 # 0 /\ len % RIL_Data_Call_Response_v9 = 0 ->
         RIL_Data_Call_Response_v9
    [] OTHER -> RIL_Data_Call_Response_v6

\* how far into a payload it took the function reads
Reads(sh, p) ==
  CASE p.null \/ sh.kind = "nothing" -> 0
    [] ~p.null /\ sh.kind \in {"text", "int", "intOrEmpty", "atLeast", "nonEmpty"} -> sh.size
    [] ~p.null /\ sh.kind = "failCause" -> IF p.len \in sh.layouts THEN p.len ELSE sh.size
    [] ~p.null /\ sh.kind = "dataCall" -> DataCallLayout(p.len)
    [] ~p.null /\ sh.kind = "channel" -> IF p.len < sh.size THEN sh.size ELSE p.len
    [] OTHER -> p.len
============================================================================
