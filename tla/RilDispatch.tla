----------------------------- MODULE RilDispatch -----------------------------
(***************************************************************************)
(* What each method of IRadio and IOemHook does with the client's call      *)
(* (ril/libril/ril_service.cpp, RadioImpl and OemHookImpl).  A method is a  *)
(* short program over the C heap: it puts a RequestInfo on the list of      *)
(* pending requests, copies the arguments, calls the vendor's onRequest()   *)
(* and frees the copies.  Every step that can fail names what the code      *)
(* frees by hand on that exit.  RilRequests runs the programs.              *)
(***************************************************************************)
EXTENDS Naturals, Sequences, RilTables

CONSTANTS
  MaxVector   \* longest hidl_vec argument: data profiles, OEM hook strings

ASSUME VectorAssumption == MaxVector \in 0 .. 2

-----------------------------------------------------------------------------
(* Steps *)

Step(op, x, err, frees) == [op |-> op, x |-> x, err |-> err, frees |-> frees]

\* addRequestToList(); a NULL result ends the method
Add == Step("add", "", "", {})
\* addRequestToList() whose result is used unchecked
AddUnchecked == Step("addUnchecked", "", "", {})
\* a struct that is declared without an initializer: its pointers are not NULL
Junk(names) == Step("junk", "", "", names)
\* an argument check; if it fails sendErrorResponse(err), free, return
Check(err, frees) == Step("check", "", err, frees)
\* sendErrorResponse(err) and return
Fail(err) == Step("fail", "", err, {})
FailFreeing(err, frees) == Step("fail", "", err, frees)
\* calloc() with its NULL check
Calloc(x, frees) == Step("calloc", x, "NO_MEMORY", frees)
\* new[], which does not fail
New(x) == Step("new", x, "", {})
\* CALL_ONREQUEST
OnRequest == Step("onRequest", "", "", {})
Free(names) == Step("free", "", "", names)

\* copyHidlStringToRil(); an empty string becomes NULL unless allowEmpty.  A copy
\* fails for want of memory, which it answers itself, or because the client's
\* string is longer than it says, which it does not answer: RilRequests!Truncated.
Copy(x, frees) == Step("copy", x, "NO_MEMORY", frees)
CopyOrEmpty(x, frees) == Step("copyOrEmpty", x, "NO_MEMORY", frees)

\* The same of a hidl_string made here from a char *, as long as strlen() says
CopyChars(x, frees) == Step("copyChars", x, "NO_MEMORY", frees)
CopyCharsOrEmpty(x, frees) == Step("copyCharsOrEmpty", x, "NO_MEMORY", frees)

ClientCopies == {"copy", "copyOrEmpty"}
Copies == {"copy", "copyOrEmpty", "copyChars", "copyCharsOrEmpty"}

Program(r, steps) == [request |-> r, steps |-> steps]

\* the elements of an array of string copies
Str == <<"s1", "s2", "s3", "s4", "s5", "s6", "s7", "s8", "s9", "s10", "s11", "s12", "s13",
         "s14", "s15">>
Names(seq) == {seq[i] : i \in DOMAIN seq}
StrUpTo(n) == {Str[i] : i \in 1 .. n}

-----------------------------------------------------------------------------
(* Dispatch functions *)

dispatchVoid(r) == Program(r, <<Add, OnRequest>>)

dispatchString(r) ==
  Program(r, <<Add, Junk({"pString"}), CopyChars("pString", {}), OnRequest, Free({"pString"})>>)

\* the two overloads differ in where the strings come from; the loop frees the
\* copies made before the one that failed
dispatchCopies(r, copies, n) ==
  Program(r, <<Add, Calloc("pStrings", {})>> \o copies
             \o <<OnRequest, Free(StrUpTo(n) \cup {"pStrings"})>>)

\* allowEmpty is false
dispatchStrings(r, n) ==
  dispatchCopies(r, [i \in 1 .. n |-> CopyChars(Str[i], StrUpTo(i - 1) \cup {"pStrings"})], n)

\* allowEmpty is true
dispatchStringsOrEmpty(r, n) ==
  dispatchCopies(r, [i \in 1 .. n |-> CopyCharsOrEmpty(Str[i], StrUpTo(i - 1) \cup {"pStrings"})], n)

\* the strings of a hidl_vec
dispatchStringVector(r, n) ==
  dispatchCopies(r, [i \in 1 .. n |-> Copy(Str[i], StrUpTo(i - 1) \cup {"pStrings"})], n)

dispatchInts(r) == Program(r, <<Add, Calloc("pInts", {}), OnRequest, Free({"pInts"})>>)

dispatchCallForwardStatus(r) ==
  Program(r, <<Add, Junk({"number"}), Copy("number", {}), OnRequest, Free({"number"})>>)

dispatchRaw(r) == Program(r, <<Add, OnRequest>>)

dispatchIccApdu(r) == Program(r, <<Add, Copy("data", {}), OnRequest, Free({"data"})>>)

-----------------------------------------------------------------------------
(* RadioImpl, in the order of the source *)

SimPinRequests == [
  getIccCardStatus |-> dispatchVoid("GET_SIM_STATUS"),
  supplyIccPinForApp |-> dispatchStringsOrEmpty("ENTER_SIM_PIN", 2),
  supplyIccPukForApp |-> dispatchStringsOrEmpty("ENTER_SIM_PUK", 3),
  supplyIccPin2ForApp |-> dispatchStringsOrEmpty("ENTER_SIM_PIN2", 2),
  supplyIccPuk2ForApp |-> dispatchStringsOrEmpty("ENTER_SIM_PUK2", 3),
  changeIccPinForApp |-> dispatchStringsOrEmpty("CHANGE_SIM_PIN", 3),
  changeIccPin2ForApp |-> dispatchStringsOrEmpty("CHANGE_SIM_PIN2", 3),
  supplyNetworkDepersonalization |-> dispatchStringsOrEmpty("ENTER_NETWORK_DEPERSONALIZATION", 1),
  getCurrentCalls |-> dispatchVoid("GET_CURRENT_CALLS")]

\* a call with user-to-user data; without it the second copy is NULL
dial ==
  Program("DIAL", <<Add, Copy("address", {}), Copy("uusData", {"address"}), OnRequest,
                    Free({"address", "uusData"})>>)

CallRequests == [
  getImsiForApp |-> dispatchStrings("GET_IMSI", 1),
  hangup |-> dispatchInts("HANGUP"),
  hangupWaitingOrBackground |-> dispatchVoid("HANGUP_WAITING_OR_BACKGROUND"),
  hangupForegroundResumeBackground |-> dispatchVoid("HANGUP_FOREGROUND_RESUME_BACKGROUND"),
  switchWaitingOrHoldingAndActive |-> dispatchVoid("SWITCH_WAITING_OR_HOLDING_AND_ACTIVE"),
  conference |-> dispatchVoid("CONFERENCE"),
  rejectCall |-> dispatchVoid("UDUB"),
  getLastCallFailCause |-> dispatchVoid("LAST_CALL_FAIL_CAUSE"),
  getSignalStrength |-> dispatchVoid("SIGNAL_STRENGTH"),
  getVoiceRegistrationState |-> dispatchVoid("VOICE_REGISTRATION_STATE"),
  getDataRegistrationState |-> dispatchVoid("DATA_REGISTRATION_STATE"),
  getOperator |-> dispatchVoid("OPERATOR"),
  setRadioPower |-> dispatchInts("RADIO_POWER"),
  sendDtmf |-> dispatchString("DTMF"),
  sendSms |-> dispatchStrings("SEND_SMS", 2),
  sendSMSExpectMore |-> dispatchStrings("SEND_SMS_EXPECT_MORE", 2)]

\* MvnoTypes outside the enumeration are refused before the request is dispatched
setupDataCall(version, mvnoKnown) ==
  CASE version \in 4 .. 14 -> dispatchStringsOrEmpty("SETUP_DATA_CALL", 7)
    [] version >= 15 /\ mvnoKnown -> dispatchStringsOrEmpty("SETUP_DATA_CALL", 15)
    [] version >= 15 /\ ~mvnoKnown -> Program("SETUP_DATA_CALL", <<Add, Fail("INVALID_ARGUMENTS")>>)
    [] OTHER -> Program("SETUP_DATA_CALL", <<Add, Fail("REQUEST_NOT_SUPPORTED")>>)

\* a bug: the last exit forgets one of the copies
iccIOForAppForgetting ==
  Program("SIM_IO", <<
    Add,
    Copy("path", {}),
    Copy("data", {"path"}),
    Copy("pin2", {"path", "data"}),
    Copy("aidPtr", {"path", "data"}),
    OnRequest,
    Free({"path", "data", "pin2", "aidPtr"})>>)

iccIOForApp ==
  Program("SIM_IO", <<
    Add,
    Copy("path", {}),
    Copy("data", {"path"}),
    Copy("pin2", {"path", "data"}),
    Copy("aidPtr", {"path", "data", "pin2"}),
    OnRequest,
    Free({"path", "data", "pin2", "aidPtr"})>>)

SupplementaryRequests == [
  sendUssd |-> dispatchString("SEND_USSD"),
  cancelPendingUssd |-> dispatchVoid("CANCEL_USSD"),
  getClir |-> dispatchVoid("GET_CLIR"),
  setClir |-> dispatchInts("SET_CLIR"),
  getCallForwardStatus |-> dispatchCallForwardStatus("QUERY_CALL_FORWARD_STATUS"),
  setCallForward |-> dispatchCallForwardStatus("SET_CALL_FORWARD"),
  getCallWaiting |-> dispatchInts("QUERY_CALL_WAITING"),
  setCallWaiting |-> dispatchInts("SET_CALL_WAITING"),
  acknowledgeLastIncomingGsmSms |-> dispatchInts("SMS_ACKNOWLEDGE"),
  acceptCall |-> dispatchVoid("ANSWER"),
  deactivateDataCall |-> dispatchStrings("DEACTIVATE_DATA_CALL", 2),
  getFacilityLockForApp |-> dispatchStringsOrEmpty("QUERY_FACILITY_LOCK", 4),
  setFacilityLockForApp |-> dispatchStringsOrEmpty("SET_FACILITY_LOCK", 5),
  setBarringPassword |-> dispatchStringsOrEmpty("CHANGE_BARRING_PASSWORD", 3)]

NetworkSelectionRequests == [
  getNetworkSelectionMode |-> dispatchVoid("QUERY_NETWORK_SELECTION_MODE"),
  setNetworkSelectionModeAutomatic |-> dispatchVoid("SET_NETWORK_SELECTION_AUTOMATIC"),
  setNetworkSelectionModeManual |-> dispatchString("SET_NETWORK_SELECTION_MANUAL"),
  getAvailableNetworks |-> dispatchVoid("QUERY_AVAILABLE_NETWORKS")]

\* the number of specifiers, then bands, channels and network type of each
startNetworkScan ==
  Program("START_NETWORK_SCAN", <<
    Add,
    Check("INVALID_ARGUMENTS", {}),
    Check("INVALID_ARGUMENTS", {}),
    Check("INVALID_ARGUMENTS", {}),
    OnRequest>>)

ToneAndMuteRequests == [
  stopNetworkScan |-> dispatchVoid("STOP_NETWORK_SCAN"),
  startDtmf |-> dispatchString("DTMF_START"),
  stopDtmf |-> dispatchVoid("DTMF_STOP"),
  getBasebandVersion |-> dispatchVoid("BASEBAND_VERSION"),
  separateConnection |-> dispatchInts("SEPARATE_CONNECTION"),
  setMute |-> dispatchInts("SET_MUTE"),
  getMute |-> dispatchVoid("GET_MUTE"),
  getClip |-> dispatchVoid("QUERY_CLIP"),
  getDataCallList |-> dispatchVoid("DATA_CALL_LIST"),
  setSuppServiceNotifications |-> dispatchInts("SET_SUPP_SVC_NOTIFICATION")]

\* a bug: the first exit frees what was not copied yet
writeSmsToSimFreeingBoth ==
  Program("WRITE_SMS_TO_SIM", <<
    Add,
    Junk({"pdu", "smsc"}),
    Copy("pdu", {"smsc"}),
    Copy("smsc", {"pdu"}),
    OnRequest,
    Free({"smsc", "pdu"})>>)

writeSmsToSim ==
  Program("WRITE_SMS_TO_SIM", <<
    Add,
    Junk({"pdu", "smsc"}),
    Copy("pdu", {}),
    Copy("smsc", {"pdu"}),
    OnRequest,
    Free({"smsc", "pdu"})>>)

StkAndCdmaRequests == [
  deleteSmsOnSim |-> dispatchInts("DELETE_SMS_ON_SIM"),
  setBandMode |-> dispatchInts("SET_BAND_MODE"),
  getAvailableBandModes |-> dispatchVoid("QUERY_AVAILABLE_BAND_MODE"),
  sendEnvelope |-> dispatchString("STK_SEND_ENVELOPE_COMMAND"),
  sendTerminalResponseToSim |-> dispatchString("STK_SEND_TERMINAL_RESPONSE"),
  handleStkCallSetupRequestFromSim |-> dispatchInts("STK_HANDLE_CALL_SETUP_REQUESTED_FROM_SIM"),
  explicitCallTransfer |-> dispatchVoid("EXPLICIT_CALL_TRANSFER"),
  setPreferredNetworkType |-> dispatchInts("SET_PREFERRED_NETWORK_TYPE"),
  getPreferredNetworkType |-> dispatchVoid("GET_PREFERRED_NETWORK_TYPE"),
  getNeighboringCids |-> dispatchVoid("GET_NEIGHBORING_CELL_IDS"),
  setLocationUpdates |-> dispatchInts("SET_LOCATION_UPDATES"),
  setCdmaSubscriptionSource |-> dispatchInts("CDMA_SET_SUBSCRIPTION_SOURCE"),
  setCdmaRoamingPreference |-> dispatchInts("CDMA_SET_ROAMING_PREFERENCE"),
  getCdmaRoamingPreference |-> dispatchVoid("CDMA_QUERY_ROAMING_PREFERENCE"),
  setTTYMode |-> dispatchInts("SET_TTY_MODE"),
  getTTYMode |-> dispatchVoid("QUERY_TTY_MODE"),
  setPreferredVoicePrivacy |-> dispatchInts("CDMA_SET_PREFERRED_VOICE_PRIVACY_MODE"),
  getPreferredVoicePrivacy |-> dispatchVoid("CDMA_QUERY_PREFERRED_VOICE_PRIVACY_MODE")]

\* the arguments of the CDMA messages are built on the stack
CdmaSmsRequests == [
  sendCDMAFeatureCode |-> dispatchString("CDMA_FLASH"),
  sendBurstDtmf |-> dispatchStrings("CDMA_BURST_DTMF", 3),
  sendCdmaSms |-> Program("CDMA_SEND_SMS", <<Add, OnRequest>>),
  acknowledgeLastIncomingCdmaSms |-> Program("CDMA_SMS_ACKNOWLEDGE", <<Add, OnRequest>>)]

BroadcastRequests == [
  getGsmBroadcastConfig |-> dispatchVoid("GSM_GET_BROADCAST_SMS_CONFIG"),
  setGsmBroadcastConfig |-> Program("GSM_SET_BROADCAST_SMS_CONFIG", <<Add, OnRequest>>),
  setGsmBroadcastActivation |-> dispatchInts("GSM_SMS_BROADCAST_ACTIVATION"),
  getCdmaBroadcastConfig |-> dispatchVoid("CDMA_GET_BROADCAST_SMS_CONFIG"),
  setCdmaBroadcastConfig |-> Program("CDMA_SET_BROADCAST_SMS_CONFIG", <<Add, OnRequest>>),
  setCdmaBroadcastActivation |-> dispatchInts("CDMA_SMS_BROADCAST_ACTIVATION"),
  getCDMASubscription |-> dispatchVoid("CDMA_SUBSCRIPTION"),
  writeSmsToRuim |-> Program("CDMA_WRITE_SMS_TO_RUIM", <<Add, OnRequest>>),
  deleteSmsOnRuim |-> dispatchInts("CDMA_DELETE_SMS_ON_RUIM")]

DeviceRequests == [
  getDeviceIdentity |-> dispatchVoid("DEVICE_IDENTITY"),
  exitEmergencyCallbackMode |-> dispatchVoid("EXIT_EMERGENCY_CALLBACK_MODE"),
  getSmscAddress |-> dispatchVoid("GET_SMSC_ADDRESS"),
  setSmscAddress |-> dispatchString("SET_SMSC_ADDRESS"),
  reportSmsMemoryStatus |-> dispatchInts("REPORT_SMS_MEMORY_STATUS"),
  reportStkServiceIsRunning |-> dispatchVoid("REPORT_STK_SERVICE_IS_RUNNING"),
  getCdmaSubscriptionSource |-> dispatchVoid("CDMA_GET_SUBSCRIPTION_SOURCE"),
  requestIsimAuthentication |-> dispatchString("ISIM_AUTHENTICATION"),
  acknowledgeIncomingGsmSmsWithPdu |->
    dispatchStrings("ACKNOWLEDGE_INCOMING_GSM_SMS_WITH_PDU", 2),
  sendEnvelopeWithStatus |-> dispatchString("STK_SEND_ENVELOPE_WITH_STATUS"),
  getVoiceRadioTechnology |-> dispatchVoid("VOICE_RADIO_TECH"),
  getCellInfoList |-> dispatchVoid("GET_CELL_INFO_LIST"),
  setCellInfoListRate |-> dispatchInts("SET_UNSOL_CELL_INFO_LIST_RATE")]

\* vendors before version 15 take one protocol, chosen here, and no MVNO
setInitialAttachApn(version, mvnoKnown) ==
  LET first == <<"apn", "protocol", "username", "password">>
      since15 == <<"apn", "protocol", "roamingProtocol", "username", "password">>
      copies(fields) == [i \in DOMAIN fields |->
                           IF i = 1 THEN CopyOrEmpty("apn", {})
                           ELSE Copy(fields[i], {fields[j] : j \in 1 .. i - 1})]
  IN  IF version <= 14
      THEN Program("SET_INITIAL_ATTACH_APN",
                   <<Add>> \o copies(first) \o <<OnRequest, Free(Names(first))>>)
      ELSE Program("SET_INITIAL_ATTACH_APN",
                   <<Add>> \o copies(since15)
                   \o (IF mvnoKnown THEN <<>> ELSE <<FailFreeing("INVALID_ARGUMENTS", Names(since15))>>)
                   \o <<Copy("mvnoMatchData", Names(since15)), OnRequest,
                        Free(Names(since15) \cup {"mvnoMatchData"})>>)

\* of the two message formats the one of the technology must be there, once
sendImsSms(tech) ==
  CASE tech = "GSM" ->
         Program("IMS_SEND_SMS", <<
           Add,
           Check("INVALID_ARGUMENTS", {}),
           Calloc("pStrings", {}),
           Copy("s1", {"pStrings"}),
           Copy("s2", {"s1", "pStrings"}),
           OnRequest,
           Free({"s1", "s2", "pStrings"})>>)
    [] tech = "CDMA" -> Program("IMS_SEND_SMS", <<Add, Check("INVALID_ARGUMENTS", {}), OnRequest>>)
    [] OTHER -> Program("IMS_SEND_SMS", <<Add, Fail("INVALID_ARGUMENTS")>>)

ImsRequests(tech) == [
  getImsRegistrationState |-> dispatchVoid("IMS_REGISTRATION_STATE"),
  sendImsSms |-> sendImsSms(tech)]

IccChannelRequests(version) == [
  iccTransmitApduBasicChannel |-> dispatchIccApdu("SIM_TRANSMIT_APDU_BASIC"),
  iccOpenLogicalChannel |->
    IF version < 15 THEN dispatchString("SIM_OPEN_CHANNEL")
    ELSE Program("SIM_OPEN_CHANNEL", <<Add, Copy("aidPtr", {}), OnRequest, Free({"aidPtr"})>>),
  iccCloseLogicalChannel |-> dispatchInts("SIM_CLOSE_CHANNEL"),
  iccTransmitApduLogicalChannel |-> dispatchIccApdu("SIM_TRANSMIT_APDU_CHANNEL"),
  nvReadItem |-> Program("NV_READ_ITEM", <<Add, OnRequest>>)]

NvRequests == [
  nvWriteItem |-> Program("NV_WRITE_ITEM", <<Add, Copy("value", {}), OnRequest, Free({"value"})>>),
  nvWriteCdmaPrl |-> dispatchRaw("NV_WRITE_CDMA_PRL"),
  nvResetConfig |-> dispatchInts("NV_RESET_CONFIG"),
  setUiccSubscription |-> Program("SET_UICC_SUBSCRIPTION", <<Add, OnRequest>>),
  setDataAllowed |-> dispatchInts("ALLOW_DATA"),
  getHardwareConfig |-> dispatchVoid("GET_HARDWARE_CONFIG")]

requestIccSimAuthentication ==
  Program("SIM_AUTHENTICATION", <<
    Add,
    Copy("authData", {}),
    Copy("aid", {"authData"}),
    OnRequest,
    Free({"authData", "aid"})>>)

ProfileFields == <<
  <<"apn1", "protocol1", "roamingProtocol1", "user1", "password1", "mvnoMatchData1">>,
  <<"apn2", "protocol2", "roamingProtocol2", "user2", "password2", "mvnoMatchData2">>>>

\* every string of every profile, copied or still NULL, and the two arrays
freeSetDataProfileData(fields, n) ==
  {ProfileFields[i][f] : i \in 1 .. n, f \in fields} \cup {"dataProfiles", "dataProfilePtrs"}

setDataProfile(version, mvnoKnown, n) ==
  LET fields == IF version <= 14 THEN {1, 2, 4, 5} ELSE 1 .. 6
      frees == freeSetDataProfileData(fields, n)
      copy(i, f) == IF f \in fields
                    THEN <<IF version >= 15 /\ f = 2 THEN Copy(ProfileFields[i][f], frees)
                           ELSE CopyOrEmpty(ProfileFields[i][f], frees)>>
                    ELSE <<>>
      profile(i) == copy(i, 1) \o copy(i, 2) \o copy(i, 3) \o copy(i, 4) \o copy(i, 5) \o copy(i, 6)
                    \o (IF version <= 14 \/ mvnoKnown THEN <<>>
                        ELSE <<FailFreeing("INVALID_ARGUMENTS", frees)>>)
  IN  Program("SET_DATA_PROFILE",
        <<Add, Calloc("dataProfiles", {}), Calloc("dataProfilePtrs", {"dataProfiles"})>>
        \o (IF n >= 1 THEN profile(1) ELSE <<>>)
        \o (IF n >= 2 THEN profile(2) ELSE <<>>)
        \o <<OnRequest, Free(frees)>>)

CapabilityRequests == [
  requestShutdown |-> dispatchVoid("SHUTDOWN"),
  getRadioCapability |-> dispatchVoid("GET_RADIO_CAPABILITY"),
  setRadioCapability |-> Program("SET_RADIO_CAPABILITY", <<Add, OnRequest>>),
  startLceService |-> dispatchInts("START_LCE"),
  stopLceService |-> dispatchVoid("STOP_LCE"),
  pullLceData |-> dispatchVoid("PULL_LCEDATA"),
  getModemActivityInfo |-> dispatchVoid("GET_ACTIVITY_INFO")]

setAllowedCarriers ==
  Program("SET_CARRIER_RESTRICTIONS", <<
    Add,
    Calloc("allowedCarriers", {}),
    Calloc("excludedCarriers", {"allowedCarriers"}),
    OnRequest,
    Free({"allowedCarriers", "excludedCarriers"})>>)

\* older vendors know the screen state only
sendDeviceState(version, lowDataExpected) ==
  CASE version >= 15 -> dispatchInts("SEND_DEVICE_STATE")
    [] version < 15 /\ lowDataExpected -> dispatchInts("SCREEN_STATE")
    [] OTHER -> Program("SEND_DEVICE_STATE", <<AddUnchecked, Fail("REQUEST_NOT_SUPPORTED")>>)

setIndicationFilter(version) ==
  IF version >= 15 THEN dispatchInts("SET_UNSOLICITED_RESPONSE_FILTER")
  ELSE Program("SET_UNSOLICITED_RESPONSE_FILTER", <<AddUnchecked, Fail("REQUEST_NOT_SUPPORTED")>>)

DeviceStateRequests(version, lowDataExpected) == [
  getAllowedCarriers |-> dispatchVoid("GET_CARRIER_RESTRICTIONS"),
  sendDeviceState |-> sendDeviceState(version, lowDataExpected),
  setIndicationFilter |-> setIndicationFilter(version),
  setSimCardPower |-> dispatchInts("SET_SIM_CARD_POWER"),
  setSimCardPower_1_1 |-> dispatchInts("SET_SIM_CARD_POWER")]

\* only the key is freed after the call
setCarrierInfoForImsiEncryption ==
  Program("SET_CARRIER_INFO_IMSI_ENCRYPTION", <<
    Add,
    Copy("mnc", {}),
    Copy("mcc", {"mnc"}),
    Copy("keyIdentifier", {"mnc", "mcc"}),
    New("carrierKey"),
    OnRequest,
    Free({"carrierKey"})>>)

\* the type, and the lengths of the two addresses it asks for
KeepaliveRequests == [
  startKeepalive |->
    Program("START_KEEPALIVE", <<Add, Check("INVALID_ARGUMENTS", {}), OnRequest>>),
  stopKeepalive |-> Program("STOP_KEEPALIVE", <<Add, OnRequest>>)]

OemHookRequests(n) == [
  sendRequestRaw |-> dispatchRaw("OEM_HOOK_RAW"),
  sendRequestStrings |-> dispatchStringVector("OEM_HOOK_STRINGS", n)]

-----------------------------------------------------------------------------
(* The methods a client can call *)

LongRequests(version, known, n) ==
  [dial |-> dial,
   setupDataCall |-> setupDataCall(version, known),
   iccIOForApp |-> iccIOForApp,
   startNetworkScan |-> startNetworkScan,
   writeSmsToSim |-> writeSmsToSim,
   setInitialAttachApn |-> setInitialAttachApn(version, known),
   requestIccSimAuthentication |-> requestIccSimAuthentication,
   setDataProfile |-> setDataProfile(version, known, n),
   setAllowedCarriers |-> setAllowedCarriers,
   setCarrierInfoForImsiEncryption |-> setCarrierInfoForImsiEncryption]

\* known: an MVNO or device state type of the enumeration; n: the length of a
\* vector argument; tech: the technology of an IMS message
Methods(version, known, n, tech) == Table(<<
  SimPinRequests, CallRequests, SupplementaryRequests, NetworkSelectionRequests,
  ToneAndMuteRequests, StkAndCdmaRequests, CdmaSmsRequests, BroadcastRequests, DeviceRequests,
  ImsRequests(tech), IccChannelRequests(version), NvRequests, CapabilityRequests,
  DeviceStateRequests(version, known), KeepaliveRequests, OemHookRequests(n),
  LongRequests(version, known, n)>>)
============================================================================
