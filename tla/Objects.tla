------------------------------ MODULE Objects ------------------------------
(***************************************************************************)
(* The CCR and CCA objects of the library: what their setters and Create   *)
(* functions do to the members and to the AVPs, and what the constructors  *)
(* that read a received message make of the octets.                        *)
(*                                                                         *)
(* A message has objects and a heap: objects[i] holds the members of an    *)
(* object (values, and the children by name) and heap[i] the node of its   *)
(* m_pAVP.  Object 1 is the CCR or CCA itself.  A value is a number; a     *)
(* text with the value v has v + 2 octets, so texts with and without       *)
(* filler occur.                                                           *)
(***************************************************************************)
EXTENDS Avp, CreditControl

Unset == -1       \* the default of a member, which its constructor gives it
Misread == -2     \* whatever reading an unexpected layout yields
Joined == -3      \* a member that was appended to
Undefined == -4   \* whatever the memory of a member holds that no one has written

----------------------------------------------------------------------------
(* Values and their layout.                                                *)

Size(form, v) ==
  CASE form = "int" -> 4 [] form = "long" -> 8 [] form = "octet" -> 1 [] form = "zone" -> 2
    [] form = "octets" -> 4 [] form = "chargingId" -> 6 [] form = "address" -> 6
    [] form = "text" -> (IF v = Unset THEN 0 ELSE v + 2) [] form = "location" -> v + 3

(* SetTimezone writes the octets 2 and 0 whatever its argument is.         *)
Layout(form, v) == [form |-> form, size |-> Size(form, v), value |-> IF form = "zone" THEN 0 ELSE v]

ReadAs(form, data) == IF data.form = form THEN data.value ELSE Misread

(* The text of a service parameter is read up to a NUL, which the filler   *)
(* provides when there is one.                                             *)
ReadParameter(type, data) ==
  IF type < 200 THEN ReadAs("int", data)
  ELSE IF data.size % 4 # 0 THEN ReadAs("text", data) ELSE Misread

----------------------------------------------------------------------------
(* Objects.                                                                *)

IsValue(row) == row.class = "none"
ValueRows(class) == {row \in Writes[class] : IsValue(row)}
ChildRows(class) == {row \in Writes[class] : ~IsValue(row)}
ListNames(class) == {row.name : row \in {r \in Reads[class] : r.form \in {"ints", "triggers"}}}
ValueNames(class) ==
  {row.name : row \in {r \in Writes[class] \cup Reads[class] : IsValue(r)}} \ ListNames(class)
ChildNames(class) == {row.name : row \in ChildRows(class)}

(* The members a constructor forgets, when it makes an object to be sent   *)
(* and when it reads a received one.                                       *)
MadeWithout ==
  {<<"CCR", "Timezone">>, <<"MSCC", "ResultCode">>, <<"PSInformation", "RATType">>,
   <<"SPI", "ServiceParameterInfoType">>, <<"ServiceSpecificInfo", "ServiceSpecificInfoType">>,
   <<"OtherPartyId", "OtherPartyIdNature">>, <<"UserEquipmentInfo", "UserEquipmentInfoType">>,
   <<"TimeStamps", "SIPResponseTimeStamp">>}

ReadWithout ==
  {<<"PSInformation", "RATType">>, <<"SPI", "ServiceParameterInfoType">>,
   <<"ServiceSpecificInfo", "ServiceSpecificInfoType">>, <<"OtherPartyId", "OtherPartyIdNature">>,
   <<"UserEquipmentInfo", "UserEquipmentInfoType">>, <<"OtherPartyId", "OtherPartyIdType">>,
   <<"SubscriptionId", "SubscriptionIdType">>, <<"CCR", "UsedServiceUnits">>}

Initial(without, class, name) == IF <<class, name>> \in without THEN Undefined ELSE Unset

NewObject(class) ==
  [class |-> class,
   vals |-> [n \in ValueNames(class) |-> Initial(MadeWithout, class, n)],
   lists |-> [n \in ListNames(class) |-> <<>>],
   kids |-> [n \in ChildNames(class) |-> <<>>]]

(* The constructors put the empty sets into the node.                      *)
NewNode(class) ==
  [c \in {row.code : row \in {r \in ChildRows(class) : r.rule = "set"}} |-> GroupedSet(c, <<>>)]

NewMessage(class) == [objects |-> <<NewObject(class)>>, heap |-> <<NewNode(class)>>]

Row(class, name) == CHOOSE row \in Writes[class] : row.name = name

(* SetBearerService and SetOriginatorSCCPAddress append to their vector.   *)
Member(row, old, v) ==
  IF row.form = "zone" THEN old
  ELSE IF row.name \in {"BearerService", "OriginatorSCCPAddress"} /\ old # Unset THEN Joined
  ELSE v

SetValue(msg, o, row, v) ==
  [msg EXCEPT
     !.objects[o].vals[row.name] = Member(row, @, v),
     !.heap[o] = IF row.form = "none" THEN @
                 ELSE SetAVP(@, Basic(row.code, row.vendor, Layout(row.form, v)))]

(* Create: a set takes a child at the index that follows its last one.     *)
Refuses(msg, o, row) == row.rule \in {"once", "keep"} /\ msg.objects[o].kids[row.name] # <<>>

Create(msg, o, row) ==
  LET id == Len(msg.objects) + 1
      avp == Grouped(row.code, row.vendor, id)
      kids == msg.objects[o].kids[row.name]
      object == [msg.objects[o] EXCEPT !.kids[row.name] = IF row.rule = "set" THEN Append(@, id) ELSE <<id>>]
      node == IF row.rule = "set"
              THEN [msg.heap[o] EXCEPT ![row.code].items = SetInGroup(@, avp, Len(kids))]
              ELSE SetAVP(msg.heap[o], avp)
  IN  [objects |-> Append([msg.objects EXCEPT ![o] = object], NewObject(row.class)),
       heap |-> Append([msg.heap EXCEPT ![o] = node], NewNode(row.class))]

(* DeleteMSCC takes an object, or with the index -1 all of them, out of    *)
(* the vector and leaves the AVPs.                                         *)
DeleteMSCC(msg, index) ==
  [msg EXCEPT !.objects[1].kids["MSCC"] = IF index = -1 THEN <<>> ELSE RemoveAt(@, index + 1)]

(* Several setters of an object, one after the other: with[i] is the name  *)
(* of a member and what its setter is called with.                         *)
SetValues(msg, o, with) ==
  LET set[i \in 0..Len(with)] ==
        IF i = 0 THEN msg
        ELSE SetValue(set[i - 1], o, Row(msg.objects[o].class, with[i][1]), with[i][2])
  IN  set[Len(with)]

----------------------------------------------------------------------------
(* The operations of CMSCCImpl and CServiceParameterInfoImpl that are not  *)
(* plain setters.                                                          *)

IntAVP(code, vendor, v) == Basic(code, vendor, Layout("int", v))

Put(list, index, v) == IF index = Len(list) THEN Append(list, v) ELSE [list EXCEPT ![index + 1] = v]

SetServiceIdentifier(msg, o, v, index) ==
  LET items == IF 439 \in DOMAIN msg.heap[o] THEN msg.heap[o][439].items ELSE <<>>
  IN  [msg EXCEPT
         !.objects[o].lists["ServiceIdentifier"] = Put(@, index, v),
         !.heap[o] = SetAVP(@, GroupedSet(439, SetInGroup(items, IntAVP(439, Plain, v), index)))]

(* The node of AVP 1264, made by the first AddTriggerType.                 *)
HasTriggers(msg, o) == 1264 \in DOMAIN msg.heap[o]

WithTriggers(msg, o) ==
  IF HasTriggers(msg, o) THEN msg
  ELSE [objects |-> Append(msg.objects, NewObject("Trigger")),
        heap |-> Append([msg.heap EXCEPT ![o] = SetAVP(@, Grouped(1264, Vendor, Len(msg.heap) + 1))],
                        [c \in {870} |-> GroupedSet(870, <<>>)])]

TriggerNode(msg, o) == msg.heap[o][1264].node
TriggerItems(msg, o) == msg.heap[TriggerNode(msg, o)][870].items

(* getTriggerTypeGroupIndex, or -1.                                        *)
GroupIndex(items, t) ==
  LET found == {i \in DOMAIN items : items[i].data.value = t}
  IN  IF found = {} THEN -1 ELSE Min(found) - 1

SetTriggerItem(msg, o, t, index) ==
  [msg EXCEPT !.heap[TriggerNode(msg, o)][870].items = SetInGroup(@, IntAVP(870, Vendor, t), index)]

(* The item and the member, once the node is there.                        *)
AddItem(msg, o, t) ==
  LET items == TriggerItems(msg, o)
  IN  IF GroupIndex(items, t) < 0 THEN SetTriggerItem(msg, o, t, Len(items)) ELSE msg

AddType(msg, o, t) ==
  [msg EXCEPT !.objects[o].lists["TriggerTypes"] =
     IF \E i \in DOMAIN @ : @[i] = t THEN @ ELSE Append(@, t)]

AddTriggerType(msg, o, t) == AddType(AddItem(WithTriggers(msg, o), o, t), o, t)

SetTriggerType(msg, o, index, t) ==
  LET types == msg.objects[o].lists["TriggerTypes"]
      at == GroupIndex(TriggerItems(msg, o), types[index + 1])
      listed == [msg EXCEPT !.objects[o].lists["TriggerTypes"][index + 1] = t]
  IN  IF at >= 0 THEN SetTriggerItem(listed, o, t, at) ELSE listed

(* SetServiceParameterInfoValue: the type's range chooses the layout.      *)
ParameterForm(type) == IF type < 200 THEN "int" ELSE IF type < 400 THEN "text" ELSE "octets"

SetParameter(msg, o, type, v) ==
  [msg EXCEPT
     !.objects[o].vals["ServiceParameterInfoType"] = type,
     !.objects[o].vals["ServiceParameterInfoValue"] = v,
     !.heap[o] = SetAVP(SetAVP(@, IntAVP(441, Plain, type)),
                        Basic(442, Plain, Layout(ParameterForm(type), v)))]

----------------------------------------------------------------------------
(* The constructors that read a message, each for one object: its children *)
(* are the stretches of octets that it hands to their constructors.        *)

ReadRow(class, name) == CHOOSE row \in Reads[class] : row.name = name

ReadList(row, wire, avps) ==
  LET inner == GetAVPData(avps, row.code)
      found == IF row.form = "ints" THEN AllAVPData(avps, row.code)
               ELSE IF inner = <<>> THEN <<>> ELSE AllAVPData(wire[inner[1].sub], 870)
  IN  [i \in DOMAIN found |-> ReadAs("int", found[i].data)]

(* A member whose AVP is missing stays what it was.  The Node-             *)
(* Functionality is read, but no getter gives it away.                     *)
ReadValue(row, avps, initial) ==
  LET avp == GetAVPData(avps, row.code)
      type == GetAVPData(avps, 441)
  IN  CASE row.form = "hidden" -> Unset
        [] row.form # "hidden" /\ avp = <<>> -> initial
        [] avp # <<>> /\ row.form = "parameter" -> ReadParameter(type[1].data.value, avp[1].data)
        [] OTHER -> ReadAs(row.form, avp[1].data)

(* A forgotten pointer is not NULL: there is a child, and it is anywhere.  *)
InitialKids(class, name) == IF <<class, name>> \in ReadWithout THEN <<Undefined>> ELSE <<>>

ReadKids(row, avps, initial) ==
  LET found == IF row.rule = "all" THEN AllAVPData(avps, row.code) ELSE GetAVPData(avps, row.code)
  IN  IF found = <<>> THEN initial ELSE [i \in DOMAIN found |-> found[i].sub]

ReadObject(class, wire, n) ==
  LET avps == wire[n]
      Names(rows) == {row.name : row \in rows}
  IN  [vals |-> [name \in Names({r \in Reads[class] : IsValue(r)}) \ ListNames(class) |->
                   ReadValue(ReadRow(class, name), avps, Initial(ReadWithout, class, name))],
       lists |-> [name \in ListNames(class) |-> ReadList(ReadRow(class, name), wire, avps)],
       kids |-> [name \in Names({r \in Reads[class] : ~IsValue(r)}) |->
                   ReadKids(ReadRow(class, name), avps, InitialKids(class, name))]]

(* What a pointer to anywhere points to: nothing is known of it.           *)
Unknown == [vals |-> <<>>, lists |-> <<>>, kids |-> <<>>]

ReadChild(class, wire, n) == IF n = Undefined THEN Unknown ELSE ReadObject(class, wire, n)

(* A received CCR or CCA and its children.                                 *)
WithChildren(root, class, wire) ==
  [vals |-> root.vals,
   kids |-> [name \in DOMAIN root.kids |->
               [i \in DOMAIN root.kids[name] |->
                  ReadChild(ReadRow(class, name).class, wire, root.kids[name][i])]]]

ReadMessage(class, wire) == WithChildren(ReadObject(class, wire, 1), class, wire)

Received(msg) == ReadMessage(msg.objects[1].class, EncodeAVPs(msg.heap))

----------------------------------------------------------------------------
(* The CCA that answers a CCR.                                             *)

(* faulty: every service identifier of the request is put at index 0 *)
EchoServices_FirstIndex(msg, o, services) ==
  LET put[i \in 0..Len(services)] ==
        IF i = 0 THEN msg ELSE SetServiceIdentifier(put[i - 1], o, services[i], 0)
  IN  put[Len(services)]

EchoServices(msg, o, services) ==
  LET put[i \in 0..Len(services)] ==
        IF i = 0 THEN msg ELSE SetServiceIdentifier(put[i - 1], o, services[i], i - 1)
  IN  put[Len(services)]

EchoRating(msg, o, mscc) ==
  IF mscc.vals["RatingGroup"] = Unset THEN msg
  ELSE SetValue(msg, o, Row("MSCC", "RatingGroup"), mscc.vals["RatingGroup"])

EchoMSCC(msg, mscc) ==
  LET o == Len(msg.objects) + 1
  IN  EchoServices(EchoRating(Create(msg, 1, Row("CCA", "MSCC")), o, mscc), o,
                   mscc.lists["ServiceIdentifier"])

(* The constructor of CCCAMessageImpl that answers a request, without a    *)
(* host name of its own: the request's Destination-Host is the answer's    *)
(* Origin-Host.  The service identifiers end at the first -1, which no     *)
(* request carries.                                                        *)
AnswerTo(request) ==
  LET asked == request.vals
      msccs == request.kids["MSCC"]
      copied == SetValues(NewMessage("CCA"), 1,
                  << <<"SessionId", asked["SessionId"]>>, <<"ResultCode", 2001>>,
                     <<"OriginHost", asked["DestinationHost"]>>,
                     <<"OriginRealm", asked["DestinationRealm"]>>,
                     <<"ServiceContextId", asked["ServiceContextId"]>>,
                     <<"RequestType", asked["RequestType"]>>,
                     <<"RequestNumber", asked["RequestNumber"]>>,
                     <<"AuthApplicationId", asked["AuthApplicationId"]>> >>)
      coded == [copied EXCEPT !.heap[1] = SetAVP(@, IntAVP(1067, Plain, Unset))]
      echoed[i \in 0..Len(msccs)] == IF i = 0 THEN coded ELSE EchoMSCC(echoed[i - 1], msccs[i])
  IN  echoed[Len(msccs)]
============================================================================
