----------------------------- MODULE RilConvert -----------------------------
(***************************************************************************)
(* The conversions of ril/libril/ril_service.cpp that do more than copy a  *)
(* field: which cell identity a registration answer becomes, the fixup of  *)
(* LTE signal values in the vendor's own buffer, the layout a list of data *)
(* calls is read with, and the lengths of CDMA records and messages.       *)
(***************************************************************************)
EXTENDS Integers, Sequences, FiniteSets, RilPayload

INT_MAX == 2147483647
Least(a, b) == IF a < b THEN a ELSE b

-----------------------------------------------------------------------------
(* Registration and cells *)

GsmTechs == {"GPRS", "EDGE", "GSM"}
WcdmaTechs == {"UMTS", "HSDPA", "HSUPA", "HSPA", "HSPAP"}
CdmaTechs == {"IS95A", "IS95B", "1xRTT", "EVDO_0", "EVDO_A", "EVDO_B", "EHRPD"}
LteTechs == {"LTE", "LTE_CA"}
\* the last is RADIO_TECH_UNKNOWN, or no string at all
RadioTechs == GsmTechs \cup WcdmaTechs \cup CdmaTechs \cup LteTechs \cup {"TD_SCDMA", "UNKNOWN"}

getCellInfoTypeRadioTechnology(rat) ==
  CASE rat \in GsmTechs -> "GSM"
    [] rat \in WcdmaTechs -> "WCDMA"
    [] rat \in CdmaTechs -> "CDMA"
    [] rat \in LteTechs -> "LTE"
    [] rat = "TD_SCDMA" -> "TD_SCDMA"
    [] OTHER -> "NONE"

\* strings is the set of entries that are there; a number is told by the entry
\* it was read from and the base it was read in
Unset == [entry |-> -1, base |-> 0]
convertResponseEntryToInt(strings, index, base, numStrings) ==
  IF index < numStrings /\ index \in strings THEN [entry |-> index, base |-> base] ELSE Unset

Hex(index) == [index |-> index, base |-> 16]
Dec(index) == [index |-> index, base |-> 10]

\* a bug: the area code of a GSM cell read as decimal
VoiceFieldsDecimal(type) ==
  CASE type \in {"GSM", "TD_SCDMA"} -> [lac |-> Dec(1), cid |-> Hex(2)]
    [] type = "WCDMA" -> [lac |-> Hex(1), cid |-> Hex(2), psc |-> Dec(14)]
    [] type = "CDMA" -> [basestationId |-> Dec(4), latitude |-> Dec(5), longitude |-> Dec(6),
                         systemId |-> Dec(8), networkId |-> Dec(9)]
    [] type = "LTE" -> [tac |-> Hex(1), ci |-> Hex(2)]
    [] OTHER -> << >>

VoiceFields(type) ==
  CASE type \in {"GSM", "TD_SCDMA"} -> [lac |-> Hex(1), cid |-> Hex(2)]
    [] type = "WCDMA" -> [lac |-> Hex(1), cid |-> Hex(2), psc |-> Dec(14)]
    [] type = "CDMA" -> [basestationId |-> Dec(4), latitude |-> Dec(5), longitude |-> Dec(6),
                         systemId |-> Dec(8), networkId |-> Dec(9)]
    [] type = "LTE" -> [tac |-> Hex(1), ci |-> Hex(2)]
    [] OTHER -> << >>

DataFields(type) ==
  CASE type \in {"GSM", "WCDMA", "TD_SCDMA"} -> [lac |-> Hex(1), cid |-> Hex(2)]
    [] type = "LTE" -> [tac |-> Dec(6), pci |-> Dec(7), ci |-> Dec(8)]
    [] OTHER -> << >>

\* of the five vectors of a CellIdentity one gets an element, that of the type
fillCellIdentityResponse(type) ==
  IF type \in {"GSM", "WCDMA", "CDMA", "LTE", "TD_SCDMA"} THEN {type} ELSE {}

\* the structure is set to -1 before the fields of the type are filled
CellIdentity(type, fields, strings, numStrings) ==
  [type |-> type, vectors |-> fillCellIdentityResponse(type),
   set |-> [f \in DOMAIN fields |->
              convertResponseEntryToInt(strings, fields[f].index, fields[f].base, numStrings)]]

fillCellIdentityFromVoiceRegStateResponseString(rat, strings) ==
  LET type == getCellInfoTypeRadioTechnology(rat)
  IN  CellIdentity(type, VoiceFields(type), strings, 15)

\* sent is the number of strings in the answer
fillCellIdentityFromDataRegStateResponseString(rat, strings, sent) ==
  LET type == getCellInfoTypeRadioTechnology(rat)
  IN  CellIdentity(type, DataFields(type), strings, IF sent < 11 THEN 6 ELSE 11)

\* one record for each element, each with the vector of its type
convertRilCellInfoListToHal(types) ==
  [i \in DOMAIN types |-> [type |-> types[i], vectors |-> fillCellIdentityResponse(types[i])]]

\* an unknown type leaves both vectors as they are, empty
convertRilHardwareConfigListToHal(types) ==
  [i \in DOMAIN types |-> [type |-> types[i], vectors |-> {types[i]} \cap {"MODEM", "SIM"}]]

-----------------------------------------------------------------------------
(* Signal strength *)

\* a bug: the power is negated whatever its sign is
fixupLteNegating(lte) ==
  [signalStrength |-> IF lte.signalStrength = -1 THEN 99 ELSE lte.signalStrength,
   rsrp |-> IF lte.rsrp = -1 THEN INT_MAX ELSE -lte.rsrp,
   rsrq |-> IF lte.rsrq = -1 THEN INT_MAX ELSE lte.rsrq,
   cqi |-> IF lte.cqi = -1 THEN INT_MAX ELSE lte.cqi]

\* Both layouts of the structure get the same fixup of their LTE part, and it is
\* made in the buffer the vendor passed.
fixupLte(lte) ==
  [signalStrength |-> IF lte.signalStrength = -1 THEN 99 ELSE lte.signalStrength,
   rsrp |-> CASE lte.rsrp = -1 -> INT_MAX
              [] lte.rsrp < -1 -> -lte.rsrp
              [] OTHER -> lte.rsrp,
   rsrq |-> IF lte.rsrq = -1 THEN INT_MAX ELSE lte.rsrq,
   cqi |-> IF lte.cqi = -1 THEN INT_MAX ELSE lte.cqi]

\* v8 has no TD-SCDMA part
convertRilSignalStrengthToHal(len, lte, rscp) ==
  [lte |-> fixupLte(lte), rscp |-> IF len = RIL_SignalStrength_v8 THEN INT_MAX ELSE rscp]

-----------------------------------------------------------------------------
(* Lists and records *)

\* what the client is told of a list of data calls: pcscf since v9, mtu since v11
convertRilDataCallListToHal(len) ==
  [layout |-> DataCallLayout(len), num |-> len \div DataCallLayout(len)]

CDMA_ALPHA_INFO_BUFFER_LENGTH == 64
CDMA_NUMBER_INFO_BUFFER_LENGTH == 81

\* A record: its name and the length it claims.  "ringOfDeath" is the signal that
\* is dropped on purpose; releases and unknown names are not supported.
RecordTaken(r) ==
  CASE r.name = "display" -> r.len <= CDMA_ALPHA_INFO_BUFFER_LENGTH
    [] r.name \in {"number", "redir"} -> r.len <= CDMA_NUMBER_INFO_BUFFER_LENGTH
    [] r.name \in {"signal", "lineCtrl", "clir", "audioCtrl"} -> TRUE
    [] r.name \in {"ringOfDeath", "release", "unknown"} -> FALSE

\* a bug: the count is taken as it comes
cdmaInfoRecIndUnclamped(count, recs) ==
  [read |-> count,
   sent |-> \A i \in 1 .. Least(count, RIL_CDMA_MAX_NUMBER_OF_INFO_RECS) : RecordTaken(recs[i])]

\* the records shown, and whether the indication is sent at all
cdmaInfoRecInd(count, recs) ==
  LET num == Least(count, RIL_CDMA_MAX_NUMBER_OF_INFO_RECS)
  IN  [read |-> num, sent |-> \A i \in 1 .. num : RecordTaken(recs[i])]

RIL_CDMA_SMS_ADDRESS_MAX == 36
RIL_CDMA_SMS_BEARER_DATA_MAX == 255

\* the client's message to the vendor: number_of_digits is an unsigned char
constructCdmaSms(digits, bearer) ==
  [number_of_digits |-> digits % 256,
   digitsCopied |-> Least(digits % 256, RIL_CDMA_SMS_ADDRESS_MAX),
   uBearerDataLen |-> bearer,
   bearerCopied |-> Least(bearer, RIL_CDMA_SMS_BEARER_DATA_MAX)]

\* the vendor's message to the client
cdmaNewSmsInd(msg) ==
  [digits |-> Least(msg.number_of_digits, RIL_CDMA_SMS_ADDRESS_MAX),
   bearer |-> Least(msg.uBearerDataLen, RIL_CDMA_SMS_BEARER_DATA_MAX)]

isServiceTypeCfQuery(serType, reqType) ==
  /\ reqType = "INTERROGATION"
  /\ serType \in {"CFU", "CF_BUSY", "CF_NO_REPLY", "CF_NOT_REACHABLE", "CF_ALL",
                  "CF_ALL_CONDITIONAL"}

\* call forwarding data with at most one entry for each service class, or four ints
onSupplementaryServiceIndicationInd(serType, reqType, numValidIndexes) ==
  IF isServiceTypeCfQuery(serType, reqType)
  THEN [cfData |-> Least(numValidIndexes, NUM_SERVICE_CLASSES), ssInfo |-> 0]
  ELSE [cfData |-> 0, ssInfo |-> 4]
============================================================================
