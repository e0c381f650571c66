-------------------------------- MODULE Avp --------------------------------
(***************************************************************************)
(* AVPs and their encoding: CDiameterAVP, CDiameterAVPGroup,               *)
(* CDiameterCoder, CDiameterDecoder and GetAVPData.                        *)
(*                                                                         *)
(* A message is built on a heap of nodes, one for every grouped AVP, since *)
(* the classes of the library keep pointers to them; node 1 is that of the *)
(* message.  A node is a function from AVP codes to AVPs, as m_mapAVPs is; *)
(* an AVP is a leaf, a pointer to a node (GROUPED) or a sequence of AVPs   *)
(* of one code (GROUPEDSET).  The octets of the values are abstracted to   *)
(* what tells them apart: how they are laid out, how many there are and    *)
(* which value they hold.  Encoded, an AVP keeps its code, its Length      *)
(* field and its data, and a group is a stretch of octets that holds AVPs: *)
(* sub is the number of that stretch, which is the number of the node it   *)
(* was written from.                                                       *)
(***************************************************************************)
EXTENDS Integers, Sequences, FiniteSets, SequencesExt

NoData == [form |-> "none", size |-> 0, value |-> 0]

Basic(code, vendor, data) ==
  [type |-> "BASIC", code |-> code, vendor |-> vendor, data |-> data, node |-> 0, items |-> <<>>]
Grouped(code, vendor, node) ==
  [type |-> "GROUPED", code |-> code, vendor |-> vendor, data |-> NoData, node |-> node, items |-> <<>>]
GroupedSet(code, items) ==
  [type |-> "GROUPEDSET", code |-> code, vendor |-> 0, data |-> NoData, node |-> 0, items |-> items]

----------------------------------------------------------------------------
(* Building.                                                               *)

(* CDiameterAVP::SetAVP: one AVP of a code, the last one set.              *)
SetAVP(node, avp) ==
  [c \in DOMAIN node \cup {avp.code} |-> IF c = avp.code THEN avp ELSE node[c]]

(* faulty: an index inside the set adds another AVP *)
SetInGroup_Appends(items, avp, index) == Append(items, avp)

(* CDiameterAVPGroup::SetAVP, with its index counted from 0: the index     *)
(* that follows the last one appends, a larger one is refused.             *)
SetInGroup(items, avp, index) ==
  IF index = Len(items) THEN Append(items, avp)
  ELSE IF index > Len(items) THEN items
  ELSE [items EXCEPT ![index + 1] = avp]

----------------------------------------------------------------------------
(* Encoding.                                                               *)

(* The order of a map's keys: the i-th has i - 1 below it.                 *)
Ascending(codes) ==
  [i \in 1..Cardinality(codes) |->
     CHOOSE c \in codes : Cardinality({d \in codes : d < c}) = i - 1]

(* CDiameterAVP::ResetList and GetNextAVP: by ascending code; a message    *)
(* starts with its Session-Id, and nowhere else is one returned at all.    *)
InOrder(node, isMessage) ==
  LET codes == Ascending(DOMAIN node \ {263})
      first == IF isMessage /\ 263 \in DOMAIN node THEN <<node[263]>> ELSE <<>>
  IN  first \o [i \in DOMAIN codes |-> node[codes[i]]]

(* A set has no AVP of its own, only its items.                            *)
Members(avp) == IF avp.type = "GROUPEDSET" THEN avp.items ELSE <<avp>>

(* The AVPs that are written for a node, each as Members leaves it.        *)
Written(heap, n) ==
  LET avps == InOrder(heap[n], n = 1)
  IN  FlattenSeq([i \in DOMAIN avps |-> Members(avps[i])])

Total(numbers) ==
  LET sum[i \in 0..Len(numbers)] == IF i = 0 THEN 0 ELSE sum[i - 1] + numbers[i]
  IN  sum[Len(numbers)]

HeaderSize(vendor) == 8 + 4 * vendor

Padded(n) == 4 * ((n + 3) \div 4)

(* The Length of an AVP: that of a leaf leaves out the filler, that of a   *)
(* group is the distance the pointer has moved.                            *)
LengthOf(avp, octets) ==
  HeaderSize(avp.vendor) + (IF avp.type = "GROUPED" THEN octets[avp.node] ELSE avp.data.size)

(* The octets a node takes, up to the pointer after its last AVP.          *)
OctetsOf(heap) ==
  LET octets[n \in DOMAIN heap] ==
        LET avps == Written(heap, n)
        IN  Total([i \in DOMAIN avps |-> Padded(LengthOf(avps[i], octets))])
  IN  octets

(* CDiameterCoder::EncodeAVPs of every node.                               *)
EncodeAVPs(heap) ==
  LET octets == OctetsOf(heap)
  IN  [n \in DOMAIN heap |->
         LET avps == Written(heap, n)
         IN  [i \in DOMAIN avps |->
                [code |-> avps[i].code, data |-> avps[i].data, sub |-> avps[i].node,
                 length |-> LengthOf(avps[i], octets)]]]

CountOf(avp, counted, leaf) ==
  HeaderSize(avp.vendor) + (IF avp.type = "GROUPED" THEN counted[avp.node] ELSE leaf)

(* faulty: the filler octets are not counted *)
CountedSize_NoFiller(heap) ==
  LET counted[n \in DOMAIN heap] ==
        LET avps == Written(heap, n)
        IN  Total([i \in DOMAIN avps |-> CountOf(avps[i], counted, avps[i].data.size)])
  IN  counted

(* _Size, which becomes the Length of the message: it is counted up on     *)
(* the way and independent of the pointer.                                 *)
CountedSize(heap) ==
  LET counted[n \in DOMAIN heap] ==
        LET avps == Written(heap, n)
        IN  Total([i \in DOMAIN avps |-> CountOf(avps[i], counted, Padded(avps[i].data.size))])
  IN  counted

Encode(heap) == [length |-> 20 + CountedSize(heap)[1], avps |-> EncodeAVPs(heap)]

----------------------------------------------------------------------------
(* Decoding and reading.                                                   *)

GetAVPType(code) ==
  CASE code \in {440, 431, 446, 443, 456, 1249} -> "GROUPEDSET"
    [] code \in {437, 873, 876, 823, 833, 413, 458, 430, 874, 865, 2000, 2026, 877, 886, 1201,
                 1213, 2027} -> "GROUPED"
    [] OTHER -> "BASIC"

(* CDiameterDecoder::DecodeAVPS: the data of an AVP whose code is that of  *)
(* a group must be AVPs again; what follows a leaf is found by its length. *)
(* Groups nothing points to any more are not in the octets, but would be   *)
(* decoded too.                                                            *)
DecodesAVPs(wire) ==
  \A n \in DOMAIN wire : \A i \in DOMAIN wire[n] :
     GetAVPType(wire[n][i].code) # "BASIC" => wire[n][i].data.form = "none"

(* The octets of what was received, each AVP with its filler.              *)
Octets(avps) == Total([i \in DOMAIN avps |-> Padded(avps[i].length)])

(* CDiameterDecoder::Decode of all the octets that were sent.              *)
Decodes(message) ==
  message.length = 20 + Octets(message.avps[1]) /\ DecodesAVPs(message.avps)

(* GetAVPData, called again from where it stopped: every AVP of the code   *)
(* at this level.                                                          *)
AllAVPData(avps, code) ==
  FlattenSeq([i \in DOMAIN avps |-> IF avps[i].code = code THEN <<avps[i]>> ELSE <<>>])

(* GetAVPData: the first of them, if there is one.                         *)
GetAVPData(avps, code) ==
  LET found == AllAVPData(avps, code)
  IN  IF found = <<>> THEN <<>> ELSE <<found[1]>>
============================================================================
