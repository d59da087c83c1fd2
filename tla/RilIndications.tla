--------------------------- MODULE RilIndications ---------------------------
(***************************************************************************)
(* The indication functions of ril/libril/ril_service.cpp, which turn what *)
(* the vendor reports unasked into a call of the client, and the table     *)
(* that says which one serves which report (ril_unsol_commands.h).  Names  *)
(* are those of the source without "Ind".                                  *)
(***************************************************************************)
EXTENDS RilPayload

\* An indication function calls the method of its own name; a payload that it
\* refuses is dropped.
Ind(shape, names) == [f \in names |-> [shape |-> shape, iface |-> "V1_0"]]
IndV1_1(shape, names) == [f \in names |-> [shape |-> shape, iface |-> "V1_1"]]
IndOemHook(shape, names) == [f \in names |-> [shape |-> shape, iface |-> "OemHook"]]

-----------------------------------------------------------------------------
(* In the order of the source *)

StateIndications ==
  Ind(Nothing, {"radioStateChanged", "callStateChanged", "networkStateChanged"})

SmsIndications == Table(<<
  Ind(HexString, {"newSms", "newSmsStatusReport"}),
  Ind(OneInt, {"newSmsOnSim"}),
  Ind(Strings(2), {"onUssd"}),
  Ind(NonEmpty(1), {"nitzTimeReceived"})>>)

SignalIndications == Ind(OneOf({RIL_SignalStrength_v8, RIL_SignalStrength_v10}), {"currentSignalStrength"})

DataCallIndications == Table(<<
  Ind(ListOf(DataCallLayouts), {"dataCallListChanged"}),
  Ind(OneOf({RIL_SuppSvcNotification}), {"suppSvcNotify"})>>)

StkIndications == Table(<<
  Ind(Nothing, {"stkSessionEnd", "simSmsStorageFull"}),
  Ind(NonEmpty(1), {"stkProactiveCommand", "stkEventNotify"}),
  Ind(OneInt, {"stkCallSetup"}),
  Ind(OneOf({RIL_SimRefreshResponse_v7}), {"simRefresh"})>>)

RingIndications == Table(<<
  Ind(Ring, {"callRing"}),
  Ind(Nothing, {"simStatusChanged", "cdmaRuimSmsStorageFull"}),
  Ind(OneOf({RIL_CDMA_SMS_Message}), {"cdmaNewSms"}),
  Ind(NonEmpty(1), {"newBroadcastSms"})>>)

CdmaIndications == Table(<<
  Ind(OneInt, {"restrictedStateChanged", "cdmaOtaProvisionStatus"}),
  Ind(Nothing, {"enterEmergencyCallbackMode"}),
  Ind(OneOf({RIL_CDMA_CallWaiting_v6}), {"cdmaCallWaiting"})>>)

InfoRecIndications == Ind(InfoRecords, {"cdmaInfoRec"})

SubscriptionIndications == Table(<<
  Ind(OneInt, {"indicateRingbackTone", "cdmaSubscriptionSourceChanged", "cdmaPrlChanged",
        "voiceRadioTechChanged"}),
  Ind(Nothing, {"resendIncallMute", "exitEmergencyCallbackMode", "rilConnected"})>>)

CellInfoIndications == Table(<<
  Ind(ListOf({RIL_CellInfo_v12}), {"cellInfoList"}),
  Ind(Nothing, {"imsNetworkStateChanged"}),
  Ind(OneInt, {"subscriptionStatusChanged", "srvccStateNotify"})>>)

CapabilityIndications == Table(<<
  Ind(ListOf({RIL_HardwareConfig}), {"hardwareConfigChanged"}),
  Ind(OneOf({RIL_RadioCapability}), {"radioCapabilityIndication"})>>)

SupplementaryIndications == Table(<<
  Ind(OneOf({RIL_StkCcUnsolSsResponse}), {"onSupplementaryServiceIndication"}),
  Ind(NonEmpty(1), {"stkCallControlAlphaNotify"})>>)

ModemIndications == Table(<<
  Ind(OneOf({RIL_LceDataInfo}), {"lceData"}),
  Ind(OneOf({RIL_PCO_Data}), {"pcoData"}),
  Ind(NonEmpty(1), {"modemReset"}),
  IndV1_1(NonEmpty(RIL_NetworkScanResult), {"networkScanResult"}),
  IndV1_1(NonEmpty(0), {"carrierInfoForImsiEncryption"})>>)

KeepaliveIndications == Table(<<
  IndV1_1(OneOf({RIL_KeepaliveStatus}), {"keepaliveStatus"}),
  IndOemHook(NonEmpty(1), {"oemHookRaw"})>>)

-----------------------------------------------------------------------------

IndicationFunctions == Table(<<
  StateIndications, SmsIndications, SignalIndications, DataCallIndications, StkIndications,
  RingIndications, CdmaIndications, InfoRecIndications, SubscriptionIndications,
  CellInfoIndications, CapabilityIndications, SupplementaryIndications, ModemIndications,
  KeepaliveIndications>>)

\* The rows of s_unsolResponses; "none" is the row without a function.
s_unsolResponses == [
  RESPONSE_RADIO_STATE_CHANGED |-> "radioStateChanged",
  RESPONSE_CALL_STATE_CHANGED |-> "callStateChanged",
  RESPONSE_VOICE_NETWORK_STATE_CHANGED |-> "networkStateChanged",
  RESPONSE_NEW_SMS |-> "newSms", RESPONSE_NEW_SMS_STATUS_REPORT |-> "newSmsStatusReport",
  RESPONSE_NEW_SMS_ON_SIM |-> "newSmsOnSim", ON_USSD |-> "onUssd", ON_USSD_REQUEST |-> "onUssd",
  NITZ_TIME_RECEIVED |-> "nitzTimeReceived", SIGNAL_STRENGTH |-> "currentSignalStrength",
  DATA_CALL_LIST_CHANGED |-> "dataCallListChanged", SUPP_SVC_NOTIFICATION |-> "suppSvcNotify",
  STK_SESSION_END |-> "stkSessionEnd", STK_PROACTIVE_COMMAND |-> "stkProactiveCommand",
  STK_EVENT_NOTIFY |-> "stkEventNotify", STK_CALL_SETUP |-> "stkCallSetup",
  SIM_SMS_STORAGE_FULL |-> "simSmsStorageFull", SIM_REFRESH |-> "simRefresh",
  CALL_RING |-> "callRing", RESPONSE_SIM_STATUS_CHANGED |-> "simStatusChanged",
  RESPONSE_CDMA_NEW_SMS |-> "cdmaNewSms", RESPONSE_NEW_BROADCAST_SMS |-> "newBroadcastSms",
  CDMA_RUIM_SMS_STORAGE_FULL |-> "cdmaRuimSmsStorageFull",
  RESTRICTED_STATE_CHANGED |-> "restrictedStateChanged",
  ENTER_EMERGENCY_CALLBACK_MODE |-> "enterEmergencyCallbackMode",
  CDMA_CALL_WAITING |-> "cdmaCallWaiting", CDMA_OTA_PROVISION_STATUS |-> "cdmaOtaProvisionStatus",
  CDMA_INFO_REC |-> "cdmaInfoRec", OEM_HOOK_RAW |-> "oemHookRaw",
  RINGBACK_TONE |-> "indicateRingbackTone", RESEND_INCALL_MUTE |-> "resendIncallMute",
  CDMA_SUBSCRIPTION_SOURCE_CHANGED |-> "cdmaSubscriptionSourceChanged",
  CDMA_PRL_CHANGED |-> "cdmaPrlChanged",
  EXIT_EMERGENCY_CALLBACK_MODE |-> "exitEmergencyCallbackMode",
  RIL_CONNECTED |-> "rilConnected", VOICE_RADIO_TECH_CHANGED |-> "voiceRadioTechChanged",
  CELL_INFO_LIST |-> "cellInfoList",
  RESPONSE_IMS_NETWORK_STATE_CHANGED |-> "imsNetworkStateChanged",
  UICC_SUBSCRIPTION_STATUS_CHANGED |-> "subscriptionStatusChanged",
  SRVCC_STATE_NOTIFY |-> "srvccStateNotify",
  HARDWARE_CONFIG_CHANGED |-> "hardwareConfigChanged", DC_RT_INFO_CHANGED |-> "none",
  RADIO_CAPABILITY |-> "radioCapabilityIndication",
  ON_SS |-> "onSupplementaryServiceIndication",
  STK_CC_ALPHA_NOTIFY |-> "stkCallControlAlphaNotify", LCEDATA_RECV |-> "lceData",
  PCO_DATA |-> "pcoData", MODEM_RESTART |-> "modemReset",
  CARRIER_INFO_IMSI_ENCRYPTION |-> "carrierInfoForImsiEncryption",
  NETWORK_SCAN_RESULT |-> "networkScanResult"]
============================================================================
