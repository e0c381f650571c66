--------------------------- MODULE CreditControl ---------------------------
(***************************************************************************)
(* The fields of the CCR and CCA classes (Source_/CCR), twice: what the    *)
(* setters and Create functions write (XWrites) and what the constructors  *)
(* that take the octets of a received message read (XReads).  The source   *)
(* states the AVP codes and formats in both places, for every class.       *)
(*                                                                         *)
(* A row of a writer names the field, the code of its AVP, whether the     *)
(* AVP carries a vendor id, and how the value is laid out.  A child is an  *)
(* object of another class in a grouped AVP of its own; its rule says what *)
(* Create does when there is one already: "once" refuses, "replace" makes  *)
(* it anew, "keep" returns it, and a "set" takes any number.  A row of a   *)
(* reader has the code it looks for, the layout it assumes, and for a      *)
(* child whether it takes the first AVP or all of them.                    *)
(***************************************************************************)
EXTENDS Integers, Sequences

Vendor == 1
Plain == 0

Value(name, code, vendor, form) ==
  [name |-> name, code |-> code, vendor |-> vendor, form |-> form, class |-> "none", rule |-> "none"]
Child(name, code, vendor, class, rule) ==
  [name |-> name, code |-> code, vendor |-> vendor, form |-> "group", class |-> class, rule |-> rule]
Read(name, code, form) ==
  [name |-> name, code |-> code, form |-> form, class |-> "none", rule |-> "none"]
First(name, code, class) ==
  [name |-> name, code |-> code, form |-> "group", class |-> class, rule |-> "first"]
All(name, code, class) ==
  [name |-> name, code |-> code, form |-> "group", class |-> class, rule |-> "all"]

----------------------------------------------------------------------------
CCRWrites == {
  Value("SessionId", 263, Plain, "text"), Value("SubscriptionIdLocation", 1074, Vendor, "text"),
  Value("OriginHost", 264, Plain, "text"), Value("OriginRealm", 296, Plain, "text"),
  Value("DestinationHost", 293, Plain, "text"), Value("DestinationRealm", 283, Plain, "text"),
  Value("AuthApplicationId", 258, Plain, "int"), Value("ServiceContextId", 461, Plain, "text"),
  Value("RequestNumber", 415, Plain, "int"), Value("ServiceIdentifier", 439, Plain, "int"),
  Value("RequestType", 416, Plain, "int"), Value("TrafficCase", 1082, Vendor, "int"),
  Value("EventTimestamp", 55, Plain, "int"), Value("TerminationCause", 295, Plain, "int"),
  Value("Timezone", 23, Vendor, "zone"), Value("RequestedAction", 436, Plain, "int"),
  Child("OtherPartyId", 1075, Vendor, "OtherPartyId", "once"),
  Child("SubscriptionId", 443, Plain, "SubscriptionId", "set"),
  Child("UserEquipmentInfo", 458, Plain, "UserEquipmentInfo", "once"),
  Child("MSCC", 456, Plain, "MSCC", "set"), Child("SPI", 440, Plain, "SPI", "set"),
  Child("ServiceInformation", 873, Vendor, "ServiceInformation", "once"),
  Child("RequestedServiceUnits", 437, Plain, "Units", "replace"),
  Child("UsedServiceUnits", 446, Plain, "Units", "replace") }

CCRReads == {
  Read("SessionId", 263, "text"), Read("OriginHost", 264, "text"), Read("Timezone", 23, "int"),
  Read("OriginRealm", 296, "text"), Read("DestinationHost", 293, "text"),
  Read("DestinationRealm", 283, "text"), Read("SubscriptionIdLocation", 1074, "text"),
  Read("AuthApplicationId", 258, "int"), Read("ServiceContextId", 461, "text"),
  Read("RequestType", 416, "int"), Read("TrafficCase", 1082, "int"), Read("RequestNumber", 415, "int"),
  Read("EventTimestamp", 55, "int"), Read("TerminationCause", 295, "int"),
  Read("RequestedAction", 436, "int"), Read("ServiceIdentifier", 439, "int"),
  First("OtherPartyId", 1075, "OtherPartyId"), All("SubscriptionId", 443, "SubscriptionId"),
  First("UserEquipmentInfo", 458, "UserEquipmentInfo"), First("RequestedServiceUnits", 437, "Units"),
  First("UsedServiceUnits", 446, "Units"), All("MSCC", 456, "MSCC"), All("SPI", 440, "SPI"),
  First("ServiceInformation", 873, "ServiceInformation") }

(* SetResultCodeExt writes AVP 268, the Result-Code.                       *)
CCAWrites == {
  Value("SessionId", 263, Plain, "text"), Value("ErrorMessage", 281, Plain, "text"),
  Value("ResultCode", 268, Plain, "int"), Value("ResultCodeExt", 268, Plain, "int"),
  Value("OriginHost", 264, Plain, "text"), Value("OriginRealm", 296, Plain, "text"),
  Value("AuthApplicationId", 258, Plain, "int"), Value("ServiceContextId", 461, Plain, "text"),
  Value("RequestNumber", 415, Plain, "int"), Value("RequestType", 416, Plain, "int"),
  Child("MSCC", 456, Plain, "MSCC", "set") }

CCAReads == {
  Read("SessionId", 263, "text"), Read("ErrorMessage", 281, "text"), Read("ResultCode", 268, "int"),
  Read("ResultCodeExt", 1067, "int"), Read("OriginHost", 264, "text"), Read("OriginRealm", 296, "text"),
  Read("AuthApplicationId", 258, "int"), Read("ServiceContextId", 461, "text"),
  Read("RequestType", 416, "int"), Read("RequestNumber", 415, "int"), All("MSCC", 456, "MSCC") }

(* The service identifiers and the trigger types are written by operations *)
(* of their own (module Messages).                                         *)
MSCCWrites == {
  Child("GrantedServiceUnits", 431, Plain, "Units", "replace"),
  Child("RequestedServiceUnits", 437, Plain, "Units", "replace"),
  Child("UsedServiceUnits", 446, Plain, "Units", "replace"),
  Value("RatingGroup", 432, Plain, "int"), Value("ValidityTime", 448, Plain, "int"),
  Child("FinalUnitIndication", 430, Plain, "FinalUnitIndication", "replace"),
  Value("ReportingReason", 872, Vendor, "int"),
  Child("ServiceSpecificInfo", 1249, Vendor, "ServiceSpecificInfo", "set"),
  Child("PSFurnishChargingInformation", 865, Vendor, "PSFurnishChargingInformation", "keep"),
  Value("ResultCode", 268, Plain, "int") }

MSCCReads == {
  First("GrantedServiceUnits", 431, "Units"), First("RequestedServiceUnits", 437, "Units"),
  First("UsedServiceUnits", 446, "Units"), Read("ResultCode", 268, "int"),
  Read("ServiceIdentifier", 439, "ints"), Read("RatingGroup", 432, "int"),
  Read("ValidityTime", 448, "int"), First("FinalUnitIndication", 430, "FinalUnitIndication"),
  Read("ReportingReason", 872, "int"), All("ServiceSpecificInfo", 1249, "ServiceSpecificInfo"),
  Read("TriggerTypes", 1264, "triggers") }

(* CreateMoney makes AVP 420, the code of CC-Time.                         *)
UnitsWrites == {
  Value("Time", 420, Plain, "int"), Child("Money", 420, Plain, "Money", "replace"),
  Value("TotalOctets", 421, Plain, "long"), Value("InputOctets", 412, Plain, "long"),
  Value("OutputOctets", 414, Plain, "long"), Value("ServiceSpecificUnits", 417, Plain, "long"),
  Value("EventChargingTimeStamp", 1258, Vendor, "int") }

UnitsReads == {
  Read("Time", 420, "int"), First("Money", 413, "Money"), Read("TotalOctets", 421, "long"),
  Read("InputOctets", 412, "long"), Read("OutputOctets", 414, "long"),
  Read("ServiceSpecificUnits", 417, "long"), Read("EventChargingTimeStamp", 1258, "int") }

(* The value is written as two integers, digits (447) and exponent (429),  *)
(* outside of the Unit-Value group (445) the reader looks into.            *)
MoneyWrites == { Value("UnitValue", 447, Plain, "int"), Value("CurrencyCode", 425, Plain, "int") }

MoneyReads == { Read("CurrencyCode", 425, "int"), Read("UnitValue", 445, "unitValue") }

SubscriptionIdWrites ==
  { Value("SubscriptionIdType", 450, Plain, "int"), Value("SubscriptionIdData", 444, Plain, "text") }

SubscriptionIdReads == { Read("SubscriptionIdType", 450, "int"), Read("SubscriptionIdData", 444, "text") }

OtherPartyIdWrites ==
  { Value("OtherPartyIdType", 1078, Vendor, "int"), Value("OtherPartyIdNature", 1076, Vendor, "int"),
    Value("OtherPartyIdData", 1077, Vendor, "text") }

OtherPartyIdReads ==
  { Read("OtherPartyIdType", 1078, "int"), Read("OtherPartyIdNature", 1076, "int"),
    Read("OtherPartyIdData", 1077, "text") }

(* Written by one operation, which chooses the layout (module Messages).   *)
SPIReads == { Read("ServiceParameterInfoType", 441, "int"), Read("ServiceParameterInfoValue", 442, "parameter") }

UserEquipmentInfoWrites ==
  { Value("UserEquipmentInfoType", 459, Plain, "int"), Value("UserEquipmentInfoValue", 460, Plain, "text") }

UserEquipmentInfoReads ==
  { Read("UserEquipmentInfoType", 459, "int"), Read("UserEquipmentInfoValue", 460, "text") }

----------------------------------------------------------------------------
ServiceInformationWrites == {
  Child("IMSInformation", 876, Vendor, "IMSInformation", "once"),
  Child("SMSInformation", 2000, Vendor, "SMSInformation", "once"),
  Child("PSInformation", 874, Vendor, "PSInformation", "once"),
  Child("MMSInformation", 877, Vendor, "MMSInformation", "once") }

ServiceInformationReads == {
  First("IMSInformation", 876, "IMSInformation"), First("SMSInformation", 2000, "SMSInformation"),
  First("PSInformation", 874, "PSInformation"), First("MMSInformation", 877, "MMSInformation") }

PSInformationWrites == {
  Value("ChargingId", 2, Vendor, "chargingId"), Value("NodeId", 2064, Vendor, "text"),
  Value("PDPType", 3, Vendor, "int"), Value("PDPAddress", 1227, Vendor, "address"),
  Value("DynamicAddressFlag", 2051, Vendor, "int"), Value("SGSNAddress", 1228, Vendor, "address"),
  Value("GGSNAddress", 847, Vendor, "address"), Value("IMSI_MCCMNC", 8, Vendor, "text"),
  Value("GGSN_MCCMNC", 9, Vendor, "text"), Value("CalledStationId", 30, Plain, "text"),
  Value("SGSN_MCCMNC", 18, Vendor, "text"), Value("UserLocationInfo", 22, Vendor, "location"),
  Value("RATType", 21, Vendor, "octet"), Value("StartTime", 2041, Vendor, "int"),
  Value("StopTime", 2042, Plain, "int") }

PSInformationReads == {
  Read("ChargingId", 2, "chargingId"), Read("NodeId", 2064, "text"), Read("PDPType", 3, "int"),
  Read("PDPAddress", 1227, "address"), Read("DynamicAddressFlag", 2051, "int"),
  Read("SGSNAddress", 1228, "address"), Read("GGSNAddress", 847, "address"),
  Read("IMSI_MCCMNC", 8, "text"), Read("GGSN_MCCMNC", 9, "text"), Read("CalledStationId", 30, "text"),
  Read("SGSN_MCCMNC", 18, "text"), Read("UserLocationInfo", 22, "location"),
  Read("RATType", 21, "octet"), Read("StartTime", 2041, "int"), Read("StopTime", 2042, "int") }

IMSInformationWrites == {
  Child("EventType", 823, Vendor, "EventType", "once"), Value("NodeFunctionality", 862, Vendor, "int"),
  Value("CallingPartyAddress", 831, Vendor, "text"), Value("CalledPartyAddress", 832, Vendor, "text"),
  Value("RequestedPartyAddress", 1251, Vendor, "text"), Child("TimeStamps", 833, Vendor, "TimeStamps", "once"),
  Child("ApplicationServerInformation", 850, Vendor, "ApplicationServerInformation", "once"),
  Value("BearerService", 854, Vendor, "text"), Value("ServiceId", 855, Vendor, "text"),
  Child("ServiceSpecificInfo", 1249, Vendor, "ServiceSpecificInfo", "set") }

(* GetNodeFunctionality returns -1 whatever the constructor has read.      *)
IMSInformationReads == {
  First("EventType", 823, "EventType"), Read("NodeFunctionality", 862, "hidden"),
  Read("CallingPartyAddress", 831, "text"), Read("CalledPartyAddress", 832, "text"),
  Read("RequestedPartyAddress", 1251, "text"), First("TimeStamps", 833, "TimeStamps"),
  First("ApplicationServerInformation", 850, "ApplicationServerInformation"),
  Read("BearerService", 854, "text"), Read("ServiceId", 855, "text"),
  All("ServiceSpecificInfo", 1249, "ServiceSpecificInfo") }

(* SetSIPMethod changes the member and no AVP.                             *)
EventTypeWrites == {
  Value("SIPMethod", 824, Vendor, "none"), Value("Event", 825, Vendor, "text"),
  Value("Expires", 888, Vendor, "int") }

EventTypeReads == { Read("SIPMethod", 824, "text"), Read("Event", 825, "text"), Read("Expires", 888, "int") }

TimeStampsWrites == { Value("SIPResponseTimeStamp", 835, Vendor, "int") }

TimeStampsReads == { Read("SIPResponseTimeStamp", 835, "int") }

ApplicationServerInformationWrites == {
  Value("ApplicationServer", 836, Vendor, "text"),
  Value("ApplicationProvidedCalledPartyAddress", 837, Vendor, "text") }

ApplicationServerInformationReads == {
  Read("ApplicationServer", 836, "text"), Read("ApplicationProvidedCalledPartyAddress", 837, "text") }

ServiceSpecificInfoWrites == {
  Value("ServiceSpecificInfoType", 1257, Vendor, "int"), Value("ServiceSpecificInfoData", 863, Vendor, "text") }

ServiceSpecificInfoReads == {
  Read("ServiceSpecificInfoType", 1257, "int"), Read("ServiceSpecificInfoData", 863, "text") }

SMSInformationWrites == {
  Value("SMSNode", 2016, Vendor, "int"), Value("SMSCAddress", 2017, Vendor, "address"),
  Value("OriginatorSCCPAddress", 2008, Vendor, "text"),
  Child("RecipientInfo", 2026, Vendor, "RecipientInfo", "set"),
  Child("OriginatorReceivedAddress", 2027, Vendor, "OriginatorReceivedAddress", "once") }

SMSInformationReads == {
  Read("SMSNode", 2016, "int"), Read("SMSCAddress", 2017, "address"),
  Read("OriginatorSCCPAddress", 2008, "text"), All("RecipientInfo", 2026, "RecipientInfo"),
  First("OriginatorReceivedAddress", 2027, "OriginatorReceivedAddress") }

RecipientInfoWrites == {
  Child("RecipientAddress", 1201, Vendor, "RecipientAddress", "set"),
  Value("RecipientSCCPAddress", 2010, Vendor, "text") }

RecipientInfoReads == {
  Read("RecipientSCCPAddress", 2010, "text"), All("RecipientAddress", 1201, "RecipientAddress") }

RecipientAddressWrites == { Value("AddressType", 899, Vendor, "int"), Value("AddressData", 897, Vendor, "text") }

RecipientAddressReads == { Read("AddressData", 897, "text"), Read("AddressType", 899, "int") }

OriginatorReceivedAddressWrites ==
  { Value("AddressType", 899, Vendor, "int"), Value("AddressData", 897, Vendor, "text") }

OriginatorReceivedAddressReads == { Read("AddressData", 897, "text"), Read("AddressType", 899, "int") }

MMSInformationWrites == {
  Child("OriginatorAddress", 886, Vendor, "OriginatorAddress", "replace"),
  Child("RecipientAddress", 1201, Vendor, "RecipientAddress", "set"), Value("MessageId", 1210, Vendor, "text"),
  Value("MessageType", 1211, Vendor, "int"), Value("MessageSize", 1212, Vendor, "int"),
  Child("MessageClass", 1213, Vendor, "MessageClass", "replace") }

MMSInformationReads == {
  First("OriginatorAddress", 886, "OriginatorAddress"), All("RecipientAddress", 1201, "RecipientAddress"),
  Read("MessageId", 1210, "text"), Read("MessageType", 1211, "int"), Read("MessageSize", 1212, "int"),
  First("MessageClass", 1213, "MessageClass") }

OriginatorAddressWrites == { Value("AddressType", 899, Vendor, "int"), Value("AddressData", 897, Vendor, "text") }

OriginatorAddressReads == { Read("AddressData", 897, "text"), Read("AddressType", 899, "int") }

MessageClassWrites == { Value("ClassIdentifier", 1214, Vendor, "int") }

MessageClassReads == { Read("ClassIdentifier", 1214, "int") }

FinalUnitIndicationWrites == {
  Value("FinalUnitAction", 449, Plain, "int"), Child("RedirectServer", 434, Plain, "RedirectServer", "replace") }

FinalUnitIndicationReads == {
  Read("FinalUnitAction", 449, "int"), First("RedirectServer", 434, "RedirectServer") }

RedirectServerWrites == {
  Value("RedirectAddressType", 433, Plain, "int"), Value("RedirectServerAddress", 435, Plain, "text") }

RedirectServerReads == { Read("RedirectAddressType", 433, "int"), Read("RedirectServerAddress", 435, "text") }

PSFurnishChargingInformationWrites == {
  Value("GPRSChargingId", 2, Vendor, "text"), Value("PSFreeFormatData", 866, Vendor, "text"),
  Value("PSAppendFreeFormatData", 867, Vendor, "int") }

PSFurnishChargingInformationReads == {
  Read("GPRSChargingId", 2, "text"), Read("PSFreeFormatData", 866, "text"),
  Read("PSAppendFreeFormatData", 867, "int") }

----------------------------------------------------------------------------
(* The classes by name.                                                    *)
Writes == [
  CCR |-> CCRWrites, CCA |-> CCAWrites, MSCC |-> MSCCWrites, Units |-> UnitsWrites, Money |-> MoneyWrites,
  SubscriptionId |-> SubscriptionIdWrites, OtherPartyId |-> OtherPartyIdWrites, SPI |-> {}, Trigger |-> {},
  UserEquipmentInfo |-> UserEquipmentInfoWrites, ServiceInformation |-> ServiceInformationWrites,
  PSInformation |-> PSInformationWrites, IMSInformation |-> IMSInformationWrites,
  EventType |-> EventTypeWrites, TimeStamps |-> TimeStampsWrites,
  ApplicationServerInformation |-> ApplicationServerInformationWrites,
  ServiceSpecificInfo |-> ServiceSpecificInfoWrites, SMSInformation |-> SMSInformationWrites,
  RecipientInfo |-> RecipientInfoWrites, RecipientAddress |-> RecipientAddressWrites,
  OriginatorReceivedAddress |-> OriginatorReceivedAddressWrites, MMSInformation |-> MMSInformationWrites,
  OriginatorAddress |-> OriginatorAddressWrites, MessageClass |-> MessageClassWrites,
  FinalUnitIndication |-> FinalUnitIndicationWrites, RedirectServer |-> RedirectServerWrites,
  PSFurnishChargingInformation |-> PSFurnishChargingInformationWrites ]

Reads == [
  CCR |-> CCRReads, CCA |-> CCAReads, MSCC |-> MSCCReads, Units |-> UnitsReads, Money |-> MoneyReads,
  SubscriptionId |-> SubscriptionIdReads, OtherPartyId |-> OtherPartyIdReads, SPI |-> SPIReads, Trigger |-> {},
  UserEquipmentInfo |-> UserEquipmentInfoReads, ServiceInformation |-> ServiceInformationReads,
  PSInformation |-> PSInformationReads, IMSInformation |-> IMSInformationReads,
  EventType |-> EventTypeReads, TimeStamps |-> TimeStampsReads,
  ApplicationServerInformation |-> ApplicationServerInformationReads,
  ServiceSpecificInfo |-> ServiceSpecificInfoReads, SMSInformation |-> SMSInformationReads,
  RecipientInfo |-> RecipientInfoReads, RecipientAddress |-> RecipientAddressReads,
  OriginatorReceivedAddress |-> OriginatorReceivedAddressReads, MMSInformation |-> MMSInformationReads,
  OriginatorAddress |-> OriginatorAddressReads, MessageClass |-> MessageClassReads,
  FinalUnitIndication |-> FinalUnitIndicationReads, RedirectServer |-> RedirectServerReads,
  PSFurnishChargingInformation |-> PSFurnishChargingInformationReads ]
============================================================================
