----------------------------- MODULE Messages ------------------------------
(***************************************************************************)
(* A CCR or CCA is built, call by call, with the operations of module      *)
(* Objects; at any time it may be encoded, and read by the constructors    *)
(* that take octets.                                                       *)
(***************************************************************************)
EXTENDS Objects

CONSTANTS Values,       \* the arguments the setters are called with
          MaxCalls      \* bound: calls on a message before it is sent

ASSUME MessagesAssumption == Values \subseteq Nat /\ MaxCalls \in Nat

VARIABLES m,            \* the message being built
          focus,        \* the object it is built from here on
          calls,        \* the number of calls so far
          deleted       \* history: DeleteMSCC has been called

vars == <<m, focus, calls, deleted>>

Init ==
  /\ m \in {NewMessage("CCR"), NewMessage("CCA")}
  /\ focus = 1
  /\ calls = 0
  /\ deleted = FALSE

(* The objects below o: the pointers the caller of Create still has.       *)
Below(msg, o) ==
  LET kids(p) == UNION {{msg.objects[p].kids[n][i] : i \in DOMAIN msg.objects[p].kids[n]} :
                          n \in DOMAIN msg.objects[p].kids}
      below[p \in DOMAIN msg.objects] == {p} \cup UNION {below[k] : k \in kids(p)}
  IN  below[o] \cap DOMAIN msg.objects

----------------------------------------------------------------------------
(* The way to an object: a chain of Create calls, before any other call.   *)
Descend ==
  /\ calls = 0
  /\ \E row \in ChildRows(m.objects[focus].class) :
       /\ m' = Create(m, focus, row)
       /\ focus' = Len(m'.objects)
  /\ UNCHANGED <<calls, deleted>>

Call(msg) == m' = msg /\ calls' = calls + 1 /\ UNCHANGED focus

Set(o) == \E row \in ValueRows(m.objects[o].class), v \in Values : Call(SetValue(m, o, row, v))

MakeChild(o) == \E row \in ChildRows(m.objects[o].class) :
                  ~Refuses(m, o, row) /\ Call(Create(m, o, row))

List(o) ==
  /\ m.objects[o].class = "MSCC"
  /\ \E v \in Values : \E index \in 0..Len(m.objects[o].lists["ServiceIdentifier"]) :
       Call(SetServiceIdentifier(m, o, v, index))

AddTrigger(o) == m.objects[o].class = "MSCC" /\ \E t \in Values : Call(AddTriggerType(m, o, t))

(* SetTriggerType is refused for a type the list has already.              *)
ChangeTrigger(o) ==
  LET types == m.objects[o].lists["TriggerTypes"]
  IN  /\ m.objects[o].class = "MSCC"
      /\ \E t \in Values : \E i \in DOMAIN types :
           (\A j \in DOMAIN types : types[j] # t) /\ Call(SetTriggerType(m, o, i - 1, t))

SetSPI(o) ==
  /\ m.objects[o].class = "SPI"
  /\ \E type \in {1, 200, 400}, v \in Values : Call(SetParameter(m, o, type, v))

Delete ==
  \E index \in -1..Len(m.objects[1].kids["MSCC"]) - 1 :
     /\ focus \in Below(DeleteMSCC(m, index), 1)
     /\ Call(DeleteMSCC(m, index))

Next ==
  \/ Descend
  \/ /\ calls < MaxCalls
     /\ \/ /\ \E o \in Below(m, focus) :
                Set(o) \/ MakeChild(o) \/ List(o) \/ AddTrigger(o) \/ ChangeTrigger(o) \/ SetSPI(o)
           /\ UNCHANGED deleted
        \/ Delete /\ deleted' = TRUE

Spec == Init /\ [][Next]_vars

----------------------------------------------------------------------------
(* The members and the AVPs of a message.                                  *)

(* Every object has a node, every pointer one that exists, and an AVP is   *)
(* filed under its own code.                                               *)
TypeOK ==
  /\ Len(m.objects) = Len(m.heap)
  /\ focus \in DOMAIN m.objects /\ calls \in 0..MaxCalls /\ deleted \in BOOLEAN
  /\ \A o \in DOMAIN m.heap : \A c \in DOMAIN m.heap[o] :
       /\ m.heap[o][c].code = c
       /\ m.heap[o][c].type = "GROUPED" => m.heap[o][c].node \in DOMAIN m.heap
       /\ \A i \in DOMAIN m.heap[o][c].items : m.heap[o][c].items[i].code = c

(* What the code spoils on the way, whatever its caller does: a value that *)
(* no AVP carries or no getter returns, whose AVP another setter           *)
(* overwrites, or that is read from another AVP or in another layout than  *)
(* it is written.                                                          *)
Spoils(object, name) ==
  \/ name \in {"Timezone", "SIPMethod", "Money", "UnitValue", "PSFurnishChargingInformation",
               "ResultCodeExt", "NodeFunctionality"}
  \/ object.class = "CCA" /\ name = "ResultCode" /\ object.vals["ResultCodeExt"] # Unset
  \/ object.class = "Units" /\ name = "Time" /\ object.kids["Money"] # <<>>
  \/ name \in {"BearerService", "OriginatorSCCPAddress"} /\ object.vals[name] = Joined
  \/ /\ name = "ServiceParameterInfoValue" /\ object.vals["ServiceParameterInfoType"] >= 200
     /\ \/ object.vals["ServiceParameterInfoType"] >= 400
        \/ Size("text", object.vals[name]) % 4 = 0

(* A member that was not set and that a constructor forgets: the receiver  *)
(* may find in it whatever its memory holds.                               *)
Forgotten(object, name) ==
  /\ <<object.class, name>> \in MadeWithout \cup ReadWithout
  /\ IF name \in DOMAIN object.vals THEN object.vals[name] \in {Unset, Undefined}
     ELSE object.kids[name] = <<>>

Loses(object, name) == Spoils(object, name) \/ Forgotten(object, name)

(* An object read is the object that was written; its children are read    *)
(* from their own octets, as the class they are of.                        *)
Agrees(object, read) ==
  /\ \A n \in DOMAIN object.vals : Loses(object, n) \/ read.vals[n] = object.vals[n]
  /\ read.lists = object.lists
  /\ \A n \in DOMAIN object.kids : Loses(object, n) \/ read.kids[n] = object.kids[n]

(* Reading an encoded message gives back what was last set, in every       *)
(* field of every object, list and set of it, and the default of what was  *)
(* not set, save what the code is known to lose (Spoils, and what is not   *)
(* set and Forgotten) and after DeleteMSCC.                                *)
ReadsBack ==
  ~deleted =>
    LET wire == Encode(m.heap).avps
    IN  \A o \in DOMAIN m.objects :
          LET object == m.objects[o]
          IN  /\ Agrees(object, ReadObject(object.class, wire, o))
              /\ \A n \in DOMAIN object.kids : \A i \in DOMAIN object.kids[n] :
                   Loses(object, n) \/ m.objects[object.kids[n][i]].class = ReadRow(object.class, n).class

(* The decoder accepts every message that was built: the Length of the     *)
(* message, which is counted, is the number of octets written, and what    *)
(* it takes for groups are groups (Coder and Decoder keep separate books). *)
Decodable == Decodes(Encode(m.heap))

(* The answer a server builds from a received request is read by the       *)
(* client as the answer to that request: the same session, request and     *)
(* service, and the same service identifiers and rating group in every     *)
(* MSCC (CCCAMessageImpl's constructor from a CCR).                        *)
Answers(request, answer) ==
  /\ \A n \in {"SessionId", "RequestNumber", "RequestType", "ServiceContextId", "AuthApplicationId"} :
       answer.vals[n] = request.vals[n]
  /\ answer.vals["OriginHost"] = request.vals["DestinationHost"]
  /\ answer.vals["ResultCode"] = 2001
  /\ Len(answer.kids["MSCC"]) = Len(request.kids["MSCC"])
  /\ \A i \in DOMAIN request.kids["MSCC"] :
       LET asked == request.kids["MSCC"][i]
           given == answer.kids["MSCC"][i]
       IN  /\ given.vals["RatingGroup"] = asked.vals["RatingGroup"]
           /\ given.lists["ServiceIdentifier"] = asked.lists["ServiceIdentifier"]

AnsweredBy(request) == Answers(request, Received(AnswerTo(request)))

AnswerEchoes == m.objects[1].class = "CCR" => AnsweredBy(Received(m))
============================================================================
