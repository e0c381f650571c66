--------------------------- MODULE RequestMapping ---------------------------
(***************************************************************************)
(* What becomes of a request on its way to the OCS and back: the JSON      *)
(* message (parseJsonMessage), the OCSRequest made of it, the CCR          *)
(* (DiameterAdapter::sendCCR, with the objects and AVPs of Objects), the   *)
(* CCA (OnReceiveCCA) and the JSON response (createJsonResponseMessage).   *)
(* Threads, timers and failures of sending are the subject of Charging.    *)
(*                                                                         *)
(* A JSON message is a function from the members it has to their values.   *)
(* Numbers and texts are numbers, Unset the empty text; a negative number  *)
(* in an AVP of 64 bits is 2^64 more.  The OCS is external: it answers     *)
(* what it has read.                                                       *)
(***************************************************************************)
EXTENDS Objects

CONSTANTS
  Types,            \* message types that open a session or debit directly
  Services,         \* values of ocs_si
  Given,            \* optional member -> the value requesters give it
  MaxOptional       \* bound: optional members of an opening message

VARIABLES
  holding,          \* requestHoldingMap: Session-Id -> OCSRequest
  sent,             \* history: the CCRs, as the OCS reads them, with their messages
  answers,          \* history: the answers of the OCS, one for each CCR
  responses         \* history: the JSON responses

mappingVars == <<holding, sent, answers, responses>>

Mandatory == {"msg_type_id", "ocs_si", "id", "operation", "tube_resp", "msisdn"}

ASSUME GivenAssumption ==
  /\ Types \subseteq Int /\ Services \subseteq Int
  /\ Given \in [DOMAIN Given -> Int \ {Unset}]
  /\ DOMAIN Given \cap (Mandatory \cup {"session_id"}) = {}

----------------------------------------------------------------------------
(* Message types and services, by their numbers.                           *)

Timed == {0, 1, 2}          \* VOICE, FAX, VOICE_CHANNEL
Volume == {8, 9, 13}        \* MMS, WIFI, DATA
OneUnit == {3, 5}           \* SINGLE_CHARGE, PERIODIC_CHARGE
MONEY_REFUND == 14
Release == {118, 119, 120}

msgTypetoRequestType(type) ==
  CASE type \in {100, 101, 102, 105, 108, 109, 110, 111, 114, 115, 116, 117} -> "DIRECT_DEBIT"
    [] type \in {103, 106, 112} -> "QUOTE"
    [] type \in {104, 107, 113} \cup Release -> "CHARGE"
    [] OTHER -> "UNDEFINED"

(* The optional members that become a Service-Parameter-Info, in the order *)
(* they are looked for: for which services, and under which number; 200    *)
(* and 400 are added for texts and addresses.                              *)
Parameter(name, services, number) == [name |-> name, services |-> services, number |-> number]

Parameters ==
  <<Parameter("event_id", {17}, 0), Parameter("service_id", {3, 5, 15}, 0), Parameter("tariff_id", {9}, 0),
    Parameter("apn", {13}, 200), Parameter("mccmnc", {0, 1, 2, 4, 13}, 0), Parameter("sgsn", {13}, 400),
    Parameter("dattim", Services, 201), Parameter("rg", {13}, 1), Parameter("overdraft_flag", {3, 5, 14}, 1),
    Parameter("rat_type", {13}, 2), Parameter("periodic_charge_part_size", {5}, 2),
    Parameter("discount_percent1", OneUnit, 3), Parameter("discount_percent2", OneUnit, 4),
    Parameter("discount_percent3", OneUnit, 5), Parameter("discount_percent4", OneUnit, 6),
    Parameter("discount_percent5", OneUnit, 7), Parameter("discount_descr1", OneUnit, 203),
    Parameter("discount_descr2", OneUnit, 204), Parameter("discount_descr3", OneUnit, 205),
    Parameter("discount_descr4", OneUnit, 206), Parameter("discount_descr5", OneUnit, 207)>>

(* The part size and the percentages are 100 unless given.                 *)
HasDefault(number) == number \in 2..7

----------------------------------------------------------------------------
(* parseJsonMessage.                                                       *)

Refused(json) ==
  \/ ~{"msg_type_id", "ocs_si", "id", "operation", "tube_resp"} \subseteq DOMAIN json
  \/ msgTypetoRequestType(json.msg_type_id) = "UNDEFINED"
  \/ json.ocs_si = -1
  \/ "msisdn" \notin DOMAIN json /\ msgTypetoRequestType(json.msg_type_id) # "CHARGE"

Get(json, name, default) == IF name \in DOMAIN json THEN json[name] ELSE default

(* faulty: the Session-Id is always made of the request's own number *)
sessionIdStr_OwnId(json) == 1000 * json.ocs_si + json.id

(* "service;number;SCAPv2", one text for each pair (numbers below 1000).   *)
sessionIdStr(json) ==
  1000 * json.ocs_si + (IF Get(json, "session_id", 0) # 0 THEN json.session_id ELSE json.id)

(* A refund's quote asks for one unit and has its amount as a parameter.   *)
QuotesRefund(json) ==
  /\ "units" \in DOMAIN json /\ json.ocs_si = MONEY_REFUND
  /\ msgTypetoRequestType(json.msg_type_id) = "QUOTE"

(* faulty: a release is charged as what it releases *)
Units_ReleaseCharged(json) ==
  IF json.ocs_si \in OneUnit THEN 1 ELSE Get(json, "units", 0)

Units(json) ==
  CASE json.ocs_si \in OneUnit -> IF json.msg_type_id \in Release THEN 0 ELSE 1
    [] QuotesRefund(json) -> 1
    [] OTHER -> Get(json, "units", 0)

(* A parameter is put into the map when the message has the member, or a   *)
(* default stands for it.                                                  *)
Presets(json, p) == HasDefault(p.number) /\ json.ocs_si \in OneUnit

Told(json) ==
  {k \in DOMAIN Parameters :
     /\ json.ocs_si \in Parameters[k].services
     /\ Parameters[k].name \in DOMAIN json \/ Presets(json, Parameters[k])}

ParameterOf(json, number) == Max({k \in Told(json) : Parameters[k].number = number})

SPINumbers(json) ==
  {Parameters[k].number : k \in Told(json)} \cup (IF QuotesRefund(json) THEN {2} ELSE {})

(* faulty: a default replaces the value that was given *)
SPIMap_DefaultWins(json) ==
  [number \in SPINumbers(json) |->
     IF \A k \in Told(json) : Parameters[k].number # number THEN json.units
     ELSE LET p == Parameters[ParameterOf(json, number)]
          IN  IF Presets(json, p) THEN 100 ELSE json[p.name]]

(* The three SPI maps in one, by number: the last one put is what counts.  *)
SPIMap(json) ==
  [number \in SPINumbers(json) |->
     IF \A k \in Told(json) : Parameters[k].number # number THEN json.units
     ELSE Get(json, Parameters[ParameterOf(json, number)].name, 100)]

(* What the compiler leaves in isIncoming when traffic_case is missing is  *)
(* not known: it is never assigned.                                        *)
parseJsonMessage(json, incoming) ==
  [id |-> json.id, sessionId |-> Get(json, "session_id", 0), msisdn |-> Get(json, "msisdn", Unset),
   requestType |-> msgTypetoRequestType(json.msg_type_id), serviceType |-> json.ocs_si,
   units |-> Units(json), isIncoming |-> incoming, sessionIdStr |-> sessionIdStr(json),
   spi |-> SPIMap(json), responseTube |-> json.tube_resp, otherNum |-> Get(json, "other_num", Unset),
   location |-> Get(json, "location", Unset), operation |-> json.operation,
   msgTypeId |-> json.msg_type_id]

Incoming(json) == IF "traffic_case" \in DOMAIN json THEN {json.traffic_case = 1} ELSE BOOLEAN

----------------------------------------------------------------------------
(* DiameterAdapter::sendCCR.                                               *)

UnitsName(request) ==
  IF request.requestType = "CHARGE" THEN "UsedServiceUnits" ELSE "RequestedServiceUnits"

UnitName(service) ==
  IF service \in Volume THEN "TotalOctets" ELSE IF service \in Timed THEN "Time" ELSE "ServiceSpecificUnits"

(* A child of the CCR to be: what its setters are called with, or a        *)
(* parameter's type and value.                                             *)
NewChild(name, with) == [name |-> name, with |-> with]

WithChild(msg, child) ==
  LET made == Create(msg, 1, Row("CCR", child.name))
      o == Len(msg.objects) + 1
  IN  IF child.name = "SPI" THEN SetParameter(made, o, child.with[1], child.with[2])
      ELSE SetValues(made, o, child.with)

(* A request that is neither is a REFUND, which no message type stands for.*)
TypeAVPs(request) ==
  CASE request.requestType = "DIRECT_DEBIT" ->
         <<<<"RequestedAction", 0>>, <<"RequestType", 4>>, <<"RequestNumber", 0>>>>
    [] request.requestType = "QUOTE" -> <<<<"RequestType", 1>>, <<"RequestNumber", 0>>>>
    [] request.requestType = "CHARGE" -> <<<<"RequestType", 3>>, <<"RequestNumber", 1>>>>

(* Members first, then children: AVPs are sent in the order of their codes. *)
OwnAVPs(request) ==
  <<<<"SessionId", request.sessionIdStr>>, <<"ServiceIdentifier", request.serviceType>>,
    <<"AuthApplicationId", 4>>, <<"Timezone", 5>>>>
  \o TypeAVPs(request)
  \o (IF request.serviceType \in Timed
      THEN <<<<"TrafficCase", IF request.isIncoming THEN 21 ELSE 20>>>> ELSE <<>>)
  \o (IF request.location # Unset THEN <<<<"SubscriptionIdLocation", request.location>>>> ELSE <<>>)

Children(request) ==
  LET numbers == Ascending(DOMAIN request.spi)
      subscriber == <<<<"SubscriptionIdType", IF request.serviceType = 9 THEN 4 ELSE 0>>,
                      <<"SubscriptionIdData", request.msisdn>>>>
      units == IF request.units > 0 \/ request.requestType = "CHARGE"
               THEN <<<<UnitName(request.serviceType), request.units>>>> ELSE <<>>
      otherParty == <<<<"OtherPartyIdType", 0>>, <<"OtherPartyIdNature", 1>>,
                      <<"OtherPartyIdData", request.otherNum>>>>
  IN  <<NewChild("SubscriptionId", subscriber)>>
      \o [i \in DOMAIN numbers |-> NewChild("SPI", <<numbers[i], request.spi[numbers[i]]>>)]
      \o <<NewChild(UnitsName(request), units)>>
      \o (IF request.otherNum = Unset THEN <<>> ELSE <<NewChild("OtherPartyId", otherParty)>>)

CCR(request) ==
  LET kids == Children(request)
      made[i \in 0..Len(kids)] ==
        IF i = 0 THEN SetValues(NewMessage("CCR"), 1, OwnAVPs(request)) ELSE WithChild(made[i - 1], kids[i])
  IN  made[Len(kids)]

(* The whole way of a message: into the holding map, and to the OCS, which *)
(* reads the octets.                                                       *)
handleMQMessage(json) ==
  /\ ~Refused(json)
  /\ \E incoming \in Incoming(json) :
       LET request == parseJsonMessage(json, incoming)
       IN  /\ holding' = [s \in DOMAIN holding \cup {request.sessionIdStr} |->
                           IF s = request.sessionIdStr THEN request ELSE holding[s]]
           /\ sent' = Append(sent, [json |-> json, read |-> Received(CCR(request))])
  /\ UNCHANGED <<answers, responses>>

----------------------------------------------------------------------------
(* The OCS answers what it has read with the Session-Id of it.             *)
Answer ==
  /\ Len(answers) < Len(sent)
  /\ LET session == sent[Len(sent)].read.vals["SessionId"]
     IN  \E cca \in {[SessionId |-> session, ResultCode |-> 2001, ResultCodeExt |-> Unset, ErrorMessage |-> Unset],
                     [SessionId |-> session, ResultCode |-> 4012, ResultCodeExt |-> 7, ErrorMessage |-> 1]} :
           answers' = Append(answers, cca)
  /\ UNCHANGED <<holding, sent, responses>>

(* The members of f, and of g where f has none.                            *)
Beside(f, g) == [n \in DOMAIN f \cup DOMAIN g |-> IF n \in DOMAIN f THEN f[n] ELSE g[n]]

Reply(request, cca, result) ==
  [id |-> request.id, session_id |-> request.sessionId, tube_resp |-> request.responseTube,
   operation |-> request.operation, msg_type_id |-> request.msgTypeId,
   result_code |-> cca.ResultCode, result |-> result]

createJsonResponseMessage_AllWell(request, cca) == Reply(request, cca, 0)   \* faulty: every result is a success

createJsonResponseMessage(request, cca) ==
  Beside(Beside(Reply(request, cca, IF cca.ResultCode = 2001 THEN 0 ELSE cca.ResultCode),
                IF cca.ResultCodeExt > 0 THEN [result_code_extended |-> cca.ResultCodeExt] ELSE <<>>),
         IF cca.ErrorMessage = Unset THEN <<>> ELSE [error_msg |-> cca.ErrorMessage])

OnReceiveCCA ==
  LET cca == answers[Len(answers)]
  IN  /\ Len(responses) < Len(answers)
      /\ cca.SessionId \in DOMAIN holding
      /\ responses' = Append(responses, createJsonResponseMessage(holding[cca.SessionId], cca))
      /\ holding' = Restrict(holding, DOMAIN holding \ {cca.SessionId})
      /\ UNCHANGED <<sent, answers>>

----------------------------------------------------------------------------
(* The requester opens a session or debits directly; after the answer to a *)
(* quote it charges or releases the session, once, with the quote's number *)
(* as session_id and a number of its own.                                  *)

Base(type, service) ==
  [msg_type_id |-> type, ocs_si |-> service, id |-> 1, operation |-> 8, tube_resp |-> 9, msisdn |-> 6]

Openings ==
  {Beside(Restrict(Given, names), Base(type, service)) :
     names \in UNION {kSubset(k, DOMAIN Given) : k \in 0..MaxOptional}, type \in Types, service \in Services}

(* A member that must be there is missing.                                 *)
Incomplete ==
  {Restrict(Base(type, service), Mandatory \ {name}) : name \in Mandatory, type \in Types, service \in Services}

Charges(quote) ==
  {Beside([msg_type_id |-> type, ocs_si |-> quote.ocs_si, id |-> 2, session_id |-> quote.id,
           operation |-> 8, tube_resp |-> 9], units) :
     type \in CASE quote.msg_type_id = 103 -> {104, 118} [] quote.msg_type_id = 106 -> {107, 119}
               [] quote.msg_type_id = 112 -> {113, 120},
     units \in {<<>>} \cup {[units |-> u] : u \in {-5, 3}}}

MappingInit == holding = <<>> /\ sent = <<>> /\ answers = <<>> /\ responses = <<>>

(* What requesters may send by now.                                        *)
Due == CASE sent = <<>> -> Openings \cup Incomplete
         [] Len(sent) = 1 /\ Len(responses) = 1 /\ responses[1].result = 0
            /\ msgTypetoRequestType(sent[1].json.msg_type_id) = "QUOTE" -> Charges(sent[1].json)
         [] OTHER -> {}

Request == \E json \in Due : handleMQMessage(json)

MappingNext == Request \/ Answer \/ OnReceiveCCA

MappingSpec == MappingInit /\ [][MappingNext]_mappingVars

----------------------------------------------------------------------------
(* What the OCS reads and the requester is told.                           *)

(* The holding map is keyed by the Session-Ids of its requests, and every  *)
(* CCR is answered at most once.                                           *)
MappingTypeOK ==
  /\ \A s \in DOMAIN holding : holding[s].sessionIdStr = s
  /\ Len(sent) <= 2 /\ Len(responses) <= Len(answers) /\ Len(answers) <= Len(sent)

Parsed(number, read) == {i \in DOMAIN read.kids["SPI"] :
                           read.kids["SPI"][i].vals["ServiceParameterInfoType"] = number}

(* The texts the reader of a parameter cannot give back (module Messages).  *)
Unreadable(number, v) == number >= 400 \/ (number >= 200 /\ (v + 2) % 4 = 0)

(* Each optional member that means something for the service of a request  *)
(* reaches the OCS as a parameter of its own with the value it had, beside *)
(* the defaults and nothing else: no two members of one service meet in    *)
(* one number (the three SPI maps of OCSRequest and the SPI loops).        *)
ParametersReachOCS ==
  \A i \in DOMAIN sent :
    LET json == sent[i].json
        read == sent[i].read
        told == {k \in DOMAIN Parameters :
                   json.ocs_si \in Parameters[k].services /\ Parameters[k].name \in DOMAIN json}
        preset == {k \in DOMAIN Parameters :
                     /\ json.ocs_si \in Parameters[k].services \cap OneUnit
                     /\ HasDefault(Parameters[k].number) /\ Parameters[k].name \notin DOMAIN json}
    IN  /\ Len(read.kids["SPI"]) =
              Cardinality(told) + Cardinality(preset) + (IF QuotesRefund(json) THEN 1 ELSE 0)
        /\ \A k \in told :
             LET number == Parameters[k].number
                 v == json[Parameters[k].name]
             IN  \E n \in Parsed(number, read) :
                   Unreadable(number, v) \/ read.kids["SPI"][n].vals["ServiceParameterInfoValue"] = v

(* The CCRs of a quote and of the charge that follows are one session to   *)
(* the OCS: the same Session-Id and service, INITIAL 0 then TERMINATION 1, *)
(* and the same kind of unit, reserved by the first, which has used none   *)
(* (what its reader finds there is a forgotten pointer), and used by the   *)
(* second (sessionIdStr, which is the only tie between the two messages).  *)
OneSession ==
  Len(sent) = 2 =>
    LET quote == sent[1].read
        charge == sent[2].read
        Kinds(units) == {n \in {"Time", "TotalOctets", "ServiceSpecificUnits"} : units.vals[n] # Unset}
        reserved == quote.kids["RequestedServiceUnits"]
        used == charge.kids["UsedServiceUnits"]
    IN  /\ \A n \in {"SessionId", "ServiceIdentifier"} : quote.vals[n] = charge.vals[n]
        /\ <<quote.vals["RequestType"], quote.vals["RequestNumber"]>> = <<1, 0>>
        /\ <<charge.vals["RequestType"], charge.vals["RequestNumber"]>> = <<3, 1>>
        /\ Len(reserved) = 1 /\ Len(used) = 1
        /\ \A units \in Range(quote.kids["UsedServiceUnits"]) : units = Unknown
        /\ Cardinality(Kinds(used[1])) = 1 /\ Kinds(reserved[1]) \subseteq Kinds(used[1])

(* A session of a one-unit service that was quoted is charged with no more *)
(* than was reserved, whatever units the messages name, and released with  *)
(* none (parseJsonMessage sets the units of these services by itself).     *)
UsedWithinReserved ==
  Len(sent) = 2 /\ sent[1].json.ocs_si \in OneUnit =>
    LET reserved == sent[1].read.kids["RequestedServiceUnits"][1].vals["ServiceSpecificUnits"]
        used == sent[2].read.kids["UsedServiceUnits"][1].vals["ServiceSpecificUnits"]
    IN  used <= reserved /\ (sent[2].json.msg_type_id \in Release => used = 0)

(* A response goes to the requester and the request it answers, and its    *)
(* result is 0 when and only when the OCS granted the CCR of that request  *)
(* (the CCA carries none of it: all but the codes comes from the map).     *)
ResponseFits ==
  \A i \in DOMAIN responses :
    LET json == sent[i].json
    IN  /\ \A n \in {"id", "tube_resp", "operation", "msg_type_id"} : responses[i][n] = json[n]
        /\ responses[i].session_id = Get(json, "session_id", 0)
        /\ answers[i].SessionId = sent[i].read.vals["SessionId"]
        /\ (responses[i].result = 0) <=> (answers[i].ResultCode = 2001)
============================================================================
