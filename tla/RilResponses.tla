---------------------------- MODULE RilResponses ----------------------------
(***************************************************************************)
(* The response functions of ril/libril/ril_service.cpp, which turn the    *)
(* vendor's answer to a request into a call of the client, and the table   *)
(* that says which one answers which request (ril_commands.h).  Names are  *)
(* those of the source without "Response".                                 *)
(***************************************************************************)
EXTENDS RilPayload

\* A response function: the method of the client it calls, what it expects of
\* the payload, and the client's interface it needs.
Fn(callback, shape, iface) == [callback |-> callback, shape |-> shape, iface |-> iface]

Own(shape, names) == [f \in names |-> Fn(f, shape, "V1_0")]
OwnV1_1(shape, names) == [f \in names |-> Fn(f, shape, "V1_1")]
OwnOemHook(shape, names) == [f \in names |-> Fn(f, shape, "OemHook")]

-----------------------------------------------------------------------------
(* In the order of the source *)

SimStatusResponses == Table(<<
  Own(CardStatus, {"getIccCardStatus"}),
  Own(IntOrEmpty, {"supplyIccPinForApp", "supplyIccPukForApp", "supplyIccPin2ForApp",
        "supplyIccPuk2ForApp"})>>)

SimPinResponses == Table(<<
  Own(IntOrEmpty, {"changeIccPinForApp", "changeIccPin2ForApp", "supplyNetworkDepersonalization"}),
  Own(ListOf({Words(1)}), {"getCurrentCalls"}),
  Own(Nothing, {"dial"})>>)

\* a bug: rejectCall calls the callback of the function it was copied from
CallResponsesCopied == Table(<<
  Own(Text, {"getIMSIForApp"}),
  Own(Nothing, {"hangupConnection", "hangupWaitingOrBackground",
        "switchWaitingOrHoldingAndActive", "conference"}),
  Row("rejectCall", Fn("conference", Nothing, "V1_0")),
  Row("hangupForegroundResumeBackground", Fn("hangupWaitingOrBackground", Nothing, "V1_0"))>>)

CallResponses == Table(<<
  Own(Text, {"getIMSIForApp"}),
  Own(Nothing, {"hangupConnection", "hangupWaitingOrBackground",
        "switchWaitingOrHoldingAndActive", "conference", "rejectCall"}),
  Row("hangupForegroundResumeBackground", Fn("hangupWaitingOrBackground", Nothing, "V1_0"))>>)

CallStateResponses == Table(<<
  Own(FailCause, {"getLastCallFailCause"}),
  Own(OneOf({RIL_SignalStrength_v8, RIL_SignalStrength_v10}), {"getSignalStrength"})>>)

RegistrationResponses(version) == Table(<<
  Own(RegistrationState(version, 15, RIL_VoiceRegistrationStateResponse), {"getVoiceRegistrationState"}),
  Own(RegistrationState(version, 6, RIL_DataRegistrationStateResponse), {"getDataRegistrationState"})>>)

SmsResponses == Table(<<
  Own(Strings(3), {"getOperator"}),
  Own(Nothing, {"setRadioPower", "sendDtmf"}),
  Own(SendSmsResult, {"sendSms", "sendSMSExpectMore"})>>)

DataCallResponses == Table(<<
  Own(DataCall, {"setupDataCall"}),
  Own(IccIo, {"iccIOForApp"}),
  Own(Nothing, {"sendUssd", "cancelPendingUssd"})>>)

ClirResponses == Table(<<
  Own(Ints(2), {"getClir", "getCallWaiting"}),
  Own(Nothing, {"setClir", "setCallForward"}),
  Own(ListOf({Words(1)}), {"getCallForwardStatus"})>>)

CallWaitingResponses == Table(<<
  Own(Nothing, {"setCallWaiting", "acknowledgeLastIncomingGsmSms", "acceptCall",
        "deactivateDataCall", "setBarringPassword"}),
  Own(OneInt, {"getFacilityLockForApp"}),
  Own(IntOrEmpty, {"setFacilityLockForApp"})>>)

NetworkSelectionResponses == Table(<<
  Own(OneInt, {"getNetworkSelectionMode"}),
  Own(Nothing, {"setNetworkSelectionModeAutomatic", "setNetworkSelectionModeManual"}),
  Own(Networks, {"getAvailableNetworks"})>>)

ToneResponses == Table(<<
  Own(Nothing, {"startDtmf", "stopDtmf", "separateConnection", "setMute"}),
  Own(Text, {"getBasebandVersion"}),
  Own(OneInt, {"getMute", "getClip"})>>)

DataListResponses == Table(<<
  Own(ListOf(DataCallLayouts), {"getDataCallList"}),
  Own(Nothing, {"setSuppServiceNotifications", "deleteSmsOnSim", "setBandMode"}),
  Own(OneInt, {"writeSmsToSim"}),
  Own(ListOf({Words(1)}), {"getAvailableBandModes"})>>)

StkResponses == Table(<<
  Own(Text, {"sendEnvelope"}),
  Own(Nothing, {"sendTerminalResponseToSim", "handleStkCallSetupRequestFromSim",
        "explicitCallTransfer", "setPreferredNetworkType"}),
  Own(OneInt, {"getPreferredNetworkType"})>>)

CdmaPreferenceResponses == Table(<<
  Own(ListOf({Words(1)}), {"getNeighboringCids"}),
  Own(Nothing, {"setLocationUpdates", "setCdmaSubscriptionSource", "setCdmaRoamingPreference",
        "setTTYMode"}),
  Own(OneInt, {"getCdmaRoamingPreference"})>>)

TtyResponses == Table(<<
  Own(OneInt, {"getTTYMode"}),
  Own(Nothing, {"setPreferredVoicePrivacy", "sendCDMAFeatureCode", "sendBurstDtmf"}),
  Own(Ints(1), {"getPreferredVoicePrivacy"}),
  Own(SendSmsResult, {"sendCdmaSms"})>>)

BroadcastResponses == Table(<<
  Own(Nothing, {"acknowledgeLastIncomingCdmaSms", "setGsmBroadcastConfig",
        "setGsmBroadcastActivation"}),
  Own(ListOf({Words(1)}), {"getGsmBroadcastConfig", "getCdmaBroadcastConfig"})>>)

CdmaSubscriptionResponses == Table(<<
  Own(Nothing, {"setCdmaBroadcastConfig", "setCdmaBroadcastActivation", "deleteSmsOnRuim"}),
  Own(Strings(5), {"getCDMASubscription"}),
  Own(OneInt, {"writeSmsToRuim"})>>)

DeviceIdentityResponses == Table(<<
  Own(Strings(4), {"getDeviceIdentity"}),
  Own(Nothing, {"exitEmergencyCallbackMode", "setSmscAddress", "reportSmsMemoryStatus",
        "reportStkServiceIsRunning"}),
  Own(Text, {"getSmscAddress"})>>)

CellInfoResponses == Table(<<
  Own(OneInt, {"getCdmaSubscriptionSource", "getVoiceRadioTechnology"}),
  Own(Text, {"requestIsimAuthentication"}),
  Own(Nothing, {"acknowledgeIncomingGsmSmsWithPdu"}),
  Own(IccIo, {"sendEnvelopeWithStatus"}),
  Own(ListOf({RIL_CellInfo_v12}), {"getCellInfoList"})>>)

ImsResponses == Table(<<
  Own(Nothing, {"setCellInfoListRate", "setInitialAttachApn"}),
  Own(Ints(2), {"getImsRegistrationState"}),
  Own(SendSmsResult, {"sendImsSms"}),
  Own(IccIo, {"iccTransmitApduBasicChannel"})>>)

IccChannelResponses == Table(<<
  Own(ChannelId, {"iccOpenLogicalChannel"}),
  Own(Nothing, {"iccCloseLogicalChannel", "nvWriteItem", "nvWriteCdmaPrl"}),
  Own(IccIo, {"iccTransmitApduLogicalChannel"}),
  Own(Text, {"nvReadItem"})>>)

NvResponses == Table(<<
  Own(Nothing, {"nvResetConfig", "setUiccSubscription", "setDataAllowed", "setDataProfile"}),
  Own(ListOf({RIL_HardwareConfig}), {"getHardwareConfig"}),
  Own(IccIo, {"requestIccSimAuthentication"})>>)

CapabilityResponses == Table(<<
  Own(Nothing, {"requestShutdown"}),
  Own(OneOf({RIL_RadioCapability}), {"getRadioCapability", "setRadioCapability"}),
  Own(OneOf({RIL_LceStatusInfo}), {"startLceService", "stopLceService"})>>)

LceAndCarrierResponses == Table(<<
  Own(OneOf({RIL_LceDataInfo}), {"pullLceData"}),
  Own(OneOf({RIL_ActivityStatsInfo}), {"getModemActivityInfo"}),
  Own(OneInt, {"setAllowedCarriers"}),
  Own(OneOfOrNull({RIL_CarrierRestrictions}), {"getAllowedCarriers"})>>)

DeviceStateResponses(client) == Table(<<
  Own(Nothing, {"sendDeviceState", "setIndicationFilter"}),
  OwnV1_1(Nothing, {"setCarrierInfoForImsiEncryption", "startNetworkScan", "stopNetworkScan"}),
  Row("setSimCardPower", Fn(IF client = "V1_1" THEN "setSimCardPower_1_1"
        ELSE "setSimCardPower", Nothing, "V1_0"))>>)

KeepaliveResponses == Table(<<
  OwnV1_1(OneOf({RIL_KeepaliveStatus}), {"startKeepalive"}),
  OwnV1_1(Nothing, {"stopKeepalive"}),
  OwnOemHook(Bytes, {"sendRequestRaw"}),
  OwnOemHook(ListOf({Words(1)}), {"sendRequestStrings"})>>)

-----------------------------------------------------------------------------

ResponseFunctions(version, client) == Table(<<
  SimStatusResponses, SimPinResponses, CallResponses, CallStateResponses,
  RegistrationResponses(version), SmsResponses, DataCallResponses, ClirResponses,
  CallWaitingResponses, NetworkSelectionResponses, ToneResponses, DataListResponses,
  StkResponses, CdmaPreferenceResponses, TtyResponses, BroadcastResponses,
  CdmaSubscriptionResponses, DeviceIdentityResponses, CellInfoResponses, ImsResponses,
  IccChannelResponses, NvResponses, CapabilityResponses, LceAndCarrierResponses,
  DeviceStateResponses(client), KeepaliveResponses>>)

\* The rows of s_commands; the requests no client can make have no function.
s_commands == [
  GET_SIM_STATUS |-> "getIccCardStatus", ENTER_SIM_PIN |-> "supplyIccPinForApp",
  ENTER_SIM_PUK |-> "supplyIccPukForApp", ENTER_SIM_PIN2 |-> "supplyIccPin2ForApp",
  ENTER_SIM_PUK2 |-> "supplyIccPuk2ForApp", CHANGE_SIM_PIN |-> "changeIccPinForApp",
  CHANGE_SIM_PIN2 |-> "changeIccPin2ForApp",
  ENTER_NETWORK_DEPERSONALIZATION |-> "supplyNetworkDepersonalization",
  GET_CURRENT_CALLS |-> "getCurrentCalls", DIAL |-> "dial", GET_IMSI |-> "getIMSIForApp",
  HANGUP |-> "hangupConnection", HANGUP_WAITING_OR_BACKGROUND |-> "hangupWaitingOrBackground",
  HANGUP_FOREGROUND_RESUME_BACKGROUND |-> "hangupForegroundResumeBackground",
  SWITCH_WAITING_OR_HOLDING_AND_ACTIVE |-> "switchWaitingOrHoldingAndActive",
  CONFERENCE |-> "conference", UDUB |-> "rejectCall",
  LAST_CALL_FAIL_CAUSE |-> "getLastCallFailCause", SIGNAL_STRENGTH |-> "getSignalStrength",
  VOICE_REGISTRATION_STATE |-> "getVoiceRegistrationState",
  DATA_REGISTRATION_STATE |-> "getDataRegistrationState", OPERATOR |-> "getOperator",
  RADIO_POWER |-> "setRadioPower", DTMF |-> "sendDtmf", SEND_SMS |-> "sendSms",
  SEND_SMS_EXPECT_MORE |-> "sendSMSExpectMore", SETUP_DATA_CALL |-> "setupDataCall",
  SIM_IO |-> "iccIOForApp", SEND_USSD |-> "sendUssd", CANCEL_USSD |-> "cancelPendingUssd",
  GET_CLIR |-> "getClir", SET_CLIR |-> "setClir",
  QUERY_CALL_FORWARD_STATUS |-> "getCallForwardStatus", SET_CALL_FORWARD |-> "setCallForward",
  QUERY_CALL_WAITING |-> "getCallWaiting", SET_CALL_WAITING |-> "setCallWaiting",
  SMS_ACKNOWLEDGE |-> "acknowledgeLastIncomingGsmSms", ANSWER |-> "acceptCall",
  DEACTIVATE_DATA_CALL |-> "deactivateDataCall",
  QUERY_FACILITY_LOCK |-> "getFacilityLockForApp",
  SET_FACILITY_LOCK |-> "setFacilityLockForApp",
  CHANGE_BARRING_PASSWORD |-> "setBarringPassword",
  QUERY_NETWORK_SELECTION_MODE |-> "getNetworkSelectionMode",
  SET_NETWORK_SELECTION_AUTOMATIC |-> "setNetworkSelectionModeAutomatic",
  SET_NETWORK_SELECTION_MANUAL |-> "setNetworkSelectionModeManual",
  QUERY_AVAILABLE_NETWORKS |-> "getAvailableNetworks", DTMF_START |-> "startDtmf",
  DTMF_STOP |-> "stopDtmf", BASEBAND_VERSION |-> "getBasebandVersion",
  SEPARATE_CONNECTION |-> "separateConnection", SET_MUTE |-> "setMute", GET_MUTE |-> "getMute",
  QUERY_CLIP |-> "getClip", DATA_CALL_LIST |-> "getDataCallList",
  OEM_HOOK_RAW |-> "sendRequestRaw", OEM_HOOK_STRINGS |-> "sendRequestStrings",
  SCREEN_STATE |-> "sendDeviceState",
  SET_SUPP_SVC_NOTIFICATION |-> "setSuppServiceNotifications",
  WRITE_SMS_TO_SIM |-> "writeSmsToSim", DELETE_SMS_ON_SIM |-> "deleteSmsOnSim",
  SET_BAND_MODE |-> "setBandMode", QUERY_AVAILABLE_BAND_MODE |-> "getAvailableBandModes",
  STK_SEND_ENVELOPE_COMMAND |-> "sendEnvelope",
  STK_SEND_TERMINAL_RESPONSE |-> "sendTerminalResponseToSim",
  STK_HANDLE_CALL_SETUP_REQUESTED_FROM_SIM |-> "handleStkCallSetupRequestFromSim",
  EXPLICIT_CALL_TRANSFER |-> "explicitCallTransfer",
  SET_PREFERRED_NETWORK_TYPE |-> "setPreferredNetworkType",
  GET_PREFERRED_NETWORK_TYPE |-> "getPreferredNetworkType",
  GET_NEIGHBORING_CELL_IDS |-> "getNeighboringCids",
  SET_LOCATION_UPDATES |-> "setLocationUpdates",
  CDMA_SET_SUBSCRIPTION_SOURCE |-> "setCdmaSubscriptionSource",
  CDMA_SET_ROAMING_PREFERENCE |-> "setCdmaRoamingPreference",
  CDMA_QUERY_ROAMING_PREFERENCE |-> "getCdmaRoamingPreference", SET_TTY_MODE |-> "setTTYMode",
  QUERY_TTY_MODE |-> "getTTYMode",
  CDMA_SET_PREFERRED_VOICE_PRIVACY_MODE |-> "setPreferredVoicePrivacy",
  CDMA_QUERY_PREFERRED_VOICE_PRIVACY_MODE |-> "getPreferredVoicePrivacy",
  CDMA_FLASH |-> "sendCDMAFeatureCode", CDMA_BURST_DTMF |-> "sendBurstDtmf",
  CDMA_SEND_SMS |-> "sendCdmaSms", CDMA_SMS_ACKNOWLEDGE |-> "acknowledgeLastIncomingCdmaSms",
  GSM_GET_BROADCAST_SMS_CONFIG |-> "getGsmBroadcastConfig",
  GSM_SET_BROADCAST_SMS_CONFIG |-> "setGsmBroadcastConfig",
  GSM_SMS_BROADCAST_ACTIVATION |-> "setGsmBroadcastActivation",
  CDMA_GET_BROADCAST_SMS_CONFIG |-> "getCdmaBroadcastConfig",
  CDMA_SET_BROADCAST_SMS_CONFIG |-> "setCdmaBroadcastConfig",
  CDMA_SMS_BROADCAST_ACTIVATION |-> "setCdmaBroadcastActivation",
  CDMA_SUBSCRIPTION |-> "getCDMASubscription", CDMA_WRITE_SMS_TO_RUIM |-> "writeSmsToRuim",
  CDMA_DELETE_SMS_ON_RUIM |-> "deleteSmsOnRuim", DEVICE_IDENTITY |-> "getDeviceIdentity",
  EXIT_EMERGENCY_CALLBACK_MODE |-> "exitEmergencyCallbackMode",
  GET_SMSC_ADDRESS |-> "getSmscAddress", SET_SMSC_ADDRESS |-> "setSmscAddress",
  REPORT_SMS_MEMORY_STATUS |-> "reportSmsMemoryStatus",
  REPORT_STK_SERVICE_IS_RUNNING |-> "reportStkServiceIsRunning",
  CDMA_GET_SUBSCRIPTION_SOURCE |-> "getCdmaSubscriptionSource",
  ISIM_AUTHENTICATION |-> "requestIsimAuthentication",
  ACKNOWLEDGE_INCOMING_GSM_SMS_WITH_PDU |-> "acknowledgeIncomingGsmSmsWithPdu",
  STK_SEND_ENVELOPE_WITH_STATUS |-> "sendEnvelopeWithStatus",
  VOICE_RADIO_TECH |-> "getVoiceRadioTechnology", GET_CELL_INFO_LIST |-> "getCellInfoList",
  SET_UNSOL_CELL_INFO_LIST_RATE |-> "setCellInfoListRate",
  SET_INITIAL_ATTACH_APN |-> "setInitialAttachApn",
  IMS_REGISTRATION_STATE |-> "getImsRegistrationState", IMS_SEND_SMS |-> "sendImsSms",
  SIM_TRANSMIT_APDU_BASIC |-> "iccTransmitApduBasicChannel",
  SIM_OPEN_CHANNEL |-> "iccOpenLogicalChannel", SIM_CLOSE_CHANNEL |-> "iccCloseLogicalChannel",
  SIM_TRANSMIT_APDU_CHANNEL |-> "iccTransmitApduLogicalChannel", NV_READ_ITEM |-> "nvReadItem",
  NV_WRITE_ITEM |-> "nvWriteItem", NV_WRITE_CDMA_PRL |-> "nvWriteCdmaPrl",
  NV_RESET_CONFIG |-> "nvResetConfig", SET_UICC_SUBSCRIPTION |-> "setUiccSubscription",
  ALLOW_DATA |-> "setDataAllowed", GET_HARDWARE_CONFIG |-> "getHardwareConfig",
  SIM_AUTHENTICATION |-> "requestIccSimAuthentication", SET_DATA_PROFILE |-> "setDataProfile",
  SHUTDOWN |-> "requestShutdown", GET_RADIO_CAPABILITY |-> "getRadioCapability",
  SET_RADIO_CAPABILITY |-> "setRadioCapability", START_LCE |-> "startLceService",
  STOP_LCE |-> "stopLceService", PULL_LCEDATA |-> "pullLceData",
  GET_ACTIVITY_INFO |-> "getModemActivityInfo",
  SET_CARRIER_RESTRICTIONS |-> "setAllowedCarriers",
  GET_CARRIER_RESTRICTIONS |-> "getAllowedCarriers", SEND_DEVICE_STATE |-> "sendDeviceState",
  SET_UNSOLICITED_RESPONSE_FILTER |-> "setIndicationFilter",
  SET_SIM_CARD_POWER |-> "setSimCardPower",
  SET_CARRIER_INFO_IMSI_ENCRYPTION |-> "setCarrierInfoForImsiEncryption",
  START_NETWORK_SCAN |-> "startNetworkScan", STOP_NETWORK_SCAN |-> "stopNetworkScan",
  START_KEEPALIVE |-> "startKeepalive", STOP_KEEPALIVE |-> "stopKeepalive"]

-----------------------------------------------------------------------------

\* Which of the service's callback objects are set: a client that passed a V1_1
\* object has its V1_0 face too; IOemHook is registered apart.
Reached(iface, client, oemHook) ==
  CASE iface = "V1_0" -> client \in {"V1_0", "V1_1"}
    [] iface = "V1_1" -> client = "V1_1"
    [] iface = "OemHook" -> oemHook

\* The error the client is told: an invalid payload spoils a success only.
responseError(sh, e, p) == IF e = "SUCCESS" /\ Refuses(sh, p) THEN "INVALID_RESPONSE" ELSE e
============================================================================
