----------------------------- MODULE RilStructs -----------------------------
(***************************************************************************)
(* The sizes in bytes of the structures of ril/include/telephony/ril.h     *)
(* that the vendor's payloads are made of, on the 32-bit build: an int, an *)
(* enumeration and a pointer have 4 bytes, and every structure is padded   *)
(* to a multiple of 4.  The functions of ril_service.cpp know a payload by *)
(* nothing but its length, so the sizes decide what is taken for what.     *)
(***************************************************************************)
EXTENDS Naturals

Words(n) == 4 * n
\* a structure of bytes at the end of words
Padded(bytes) == 4 * ((bytes + 3) \div 4)
Larger(a, b) == IF a > b THEN a ELSE b

MAX_UUID_LENGTH == 64

RIL_RadioCapability == Words(4) + MAX_UUID_LENGTH + Words(1)
RIL_CDMA_SignalInfoRecord == Padded(4)

\* each layout adds one word: pcscf in v9, mtu in v11
RIL_Data_Call_Response_v6 == Words(9)
RIL_Data_Call_Response_v9 == RIL_Data_Call_Response_v6 + Words(1)
RIL_Data_Call_Response_v11 == RIL_Data_Call_Response_v9 + Words(1)

\* the extended one has Samsung's retry count
RIL_SMS_Response == Words(3)
RIL_SMS_Response_Ext == RIL_SMS_Response + Words(1)

\* start and end time are Samsung's
RIL_CallForwardInfo == Words(6) + Words(2)
RIL_SIM_IO_Response == Words(3)
RIL_LceStatusInfo == Padded(1) + Words(1)
RIL_LceDataInfo == Words(1) + Padded(2)
RIL_CarrierRestrictions == Words(4)
RIL_LastCallFailCauseInfo == Words(2)
RIL_SuppSvcNotification == Words(5)

\* Samsung's five retry counters follow the state of the PINs
RIL_AppStatus == Words(8) + Words(5)
RIL_CardStatus_v6 == Words(6) + 8 * RIL_AppStatus

RIL_SimRefreshResponse_v7 == Words(3)
RIL_CDMA_CallWaiting_v6 == Words(3) + RIL_CDMA_SignalInfoRecord + Words(2)

RIL_CDMA_SignalStrength == Words(2)
RIL_EVDO_SignalStrength == Words(3)
RIL_LTE_SignalStrength_v8 == Words(6)
RIL_SignalStrength_v8 ==
  Words(2) + RIL_CDMA_SignalStrength + RIL_EVDO_SignalStrength + RIL_LTE_SignalStrength_v8
RIL_SignalStrength_v10 == RIL_SignalStrength_v8 + Words(1)

\* an identity has at most six words, that of LTE and WCDMA
RIL_CellIdentity_v12 == Words(6)
\* the time stamp is aligned to 8 bytes; LTE is the longest variant
RIL_CellInfo_v12 == Words(4) + 8 + RIL_CellIdentity_v12 + RIL_LTE_SignalStrength_v8
RIL_CellIdentity_v16 == Words(1) + RIL_CellIdentity_v12
RIL_VoiceRegistrationStateResponse == Words(7) + RIL_CellIdentity_v16
RIL_DataRegistrationStateResponse == Words(4) + RIL_CellIdentity_v16

\* the longest record is a redirecting number: length, 81 digits, 4 attributes
RIL_CDMA_InformationRecord == Words(1) + Padded(1 + 81 + 4) + Words(1)
RIL_CDMA_MAX_NUMBER_OF_INFO_RECS == 10
RIL_CDMA_InformationRecords ==
  Padded(1) + RIL_CDMA_MAX_NUMBER_OF_INFO_RECS * RIL_CDMA_InformationRecord

RIL_HardwareConfig == Words(1) + MAX_UUID_LENGTH + Words(1) + Larger(Words(5), MAX_UUID_LENGTH)

NUM_SERVICE_CLASSES == 7
RIL_CfData == Words(1) + NUM_SERVICE_CLASSES * RIL_CallForwardInfo
RIL_StkCcUnsolSsResponse == Words(5) + RIL_CfData

RIL_ActivityStatsInfo == Words(8)
RIL_NetworkScanResult == Words(3)
RIL_PCO_Data == Words(5)
RIL_KeepaliveStatus == Words(2)

\* sAddress, sSubAddress and the bearer data
RIL_CDMA_SMS_Message ==
  Words(3) + (Words(4) + Padded(1 + 36)) + (Words(1) + Padded(2 + 36)) + Words(1) + Padded(255)
============================================================================
