---------------------------- MODULE ServerProofs ----------------------------
(***************************************************************************)
(* What the Diameter server guarantees for any number of clients, handles, *)
(* requests and threads of the application, and any length of its lists.   *)
(***************************************************************************)
EXTENDS Server, FiniteSetTheorems, TLAPS

Breaking == {"EraseSessions", "overload", "DelConnection"}

(* Clients, connections and what the receiving thread is about to change.
   A number that has been given is not given again, clients leave the maps of
   the callbacks before those of the transport, and Disconnect tells only
   clients that are there.                                                  *)
Net ==
  /\ lastId \in 0 .. MaxId
  /\ DOMAIN idHandle \subseteq 1 .. lastId
  /\ DOMAIN overload \subseteq 1 .. lastId
  /\ DOMAIN handleId \subseteq Handles
  /\ \A h \in DOMAIN handleId : handleId[h] \in DOMAIN idHandle /\ idHandle[handleId[h]] = h
  /\ \A c \in DOMAIN idHandle : idHandle[c] \in DOMAIN handleId /\ handleId[idHandle[c]] = c
  /\ DOMAIN handleId = DOMAIN packets /\ DOMAIN packets = setHandles
  /\ \A h \in DOMAIN handleId : h \in DOMAIN sockets /\ sockets[h] = handleId[h]
  /\ clients \subseteq DOMAIN idHandle
  /\ ClientsLocked => disconnect.left \subseteq clients

Receiving ==
  /\ rx = Listening \/ rx.at \in {"OnConnect", "close"} \cup Breaking
  /\ rx.at = "OnConnect" => rx.client = lastId /\ rx.client \notin DOMAIN overload
  /\ rx.at \in {"OnConnect"} \cup Breaking =>
       /\ rx.client \in DOMAIN idHandle
       /\ idHandle[rx.client] = rx.handle
       /\ rx.client \notin clients
  /\ rx.at = "close" => rx.handle \in DOMAIN sockets \ DOMAIN handleId
  /\ \A c \in DOMAIN idHandle :
       \/ c \in clients /\ c \in DOMAIN overload
       \/ rx.at \in {"OnConnect"} \cup Breaking /\ rx.client = c

(* The lists: a packet is in that of its client's connection, unless it came
   late, and the packets are counted.                                       *)
PacketType == [to : Ids, late : BOOLEAN]

Lists ==
  /\ packets \in [DOMAIN packets -> Seq(PacketType)]
  /\ \A h \in DOMAIN packets : Len(packets[h]) <= MaxQueueSize
  /\ \A h \in DOMAIN packets : \A i \in DOMAIN packets[h] :
       packets[h][i].late \/ packets[h][i].to = handleId[h]
  /\ IsFiniteSet(Places)
  /\ UnsentCounted

(* The calls of Send: the handle that one has found is still that of its
   client, or the client has gone for ever.                                 *)
Labels == {"idle", "lookup", "push", "signal", "overload", "report", "rollback"}
Task == [sid : Sids, type : {r.type : r \in Requests}, client : Ids]
Call == [at : Labels, req : Task \cup {None}, client : Ids \cup {None},
         handle : Handles \cup {None}, errNo : Nat]

CallOK(q) ==
  /\ q.at \in {"lookup", "push"} => q.client \in Ids
  /\ q.at = "push" =>
       /\ q.client \in 1 .. lastId
       /\ q.client \in DOMAIN idHandle => idHandle[q.client] = q.handle

Calls ==
  /\ todo \subseteq Task
  /\ tx \in [Threads -> Call]
  /\ \A p \in Threads : CallOK(tx[p])

(* The sessions, none of which has a timer. *)
Sessions ==
  /\ mapSessions \in [DOMAIN mapSessions -> SM!SessionInfo]
  /\ KeptAnswered

IInv == Net /\ Receiving /\ Lists /\ Calls /\ Sessions /\ ToItsClient

-----------------------------------------------------------------------------
(* Maps and lists *)

(* An entry is added, or replaced. *)
LEMMA WithFacts ==
  ASSUME NEW f, NEW x, NEW v
  PROVE  /\ DOMAIN With(f, x, v) = DOMAIN f \cup {x}
         /\ With(f, x, v)[x] = v
         /\ \A y \in DOMAIN f : y # x => With(f, x, v)[y] = f[y]
BY DEF With

(* An entry is taken out. *)
LEMMA WithoutFacts ==
  ASSUME NEW f, NEW x
  PROVE  /\ DOMAIN Without(f, x) = DOMAIN f \ {x}
         /\ \A y \in DOMAIN f : y # x => Without(f, x)[y] = f[y]
BY DEF Without

(* A list has one place for each of its packets. *)
LEMMA ListPlaces ==
  ASSUME NEW h, NEW n \in Nat
  PROVE  IsFiniteSet({h} \X (1 .. n)) /\ Cardinality({h} \X (1 .. n)) = n
<1>1. IsFiniteSet({h}) /\ Cardinality({h}) = 1
  BY FS_Singleton
<1>2. IsFiniteSet(1 .. n) /\ Cardinality(1 .. n) = n
  BY FS_Interval
<1>3. /\ IsFiniteSet({h} \X (1 .. n))
      /\ Cardinality({h} \X (1 .. n)) = Cardinality({h}) * Cardinality(1 .. n)
  BY <1>1, <1>2, FS_Product
<1> QED  BY <1>1, <1>2, <1>3

(* A packet is put at the end of a list that is not full. *)
LEMMA PushLists ==
  ASSUME Lists, NEW h, CanPush(h), NEW c \in Ids, NEW late \in BOOLEAN,
         late \/ c = handleId[h],
         Push(h, Packet(c, late)), handleId' = handleId
  PROVE  Lists' /\ DOMAIN packets' = DOMAIN packets
<1> DEFINE q == packets[h]
           n == Len(q)
           new == Packet(c, late)
<1>1. h \in DOMAIN packets /\ n < MaxQueueSize /\ MaxQueueSize \in Nat
  BY ServerAssumption DEF CanPush
<1>2. q \in Seq(PacketType) /\ n \in Nat /\ DOMAIN q = 1 .. n
  BY <1>1 DEF Lists
<1>3. new \in PacketType /\ (new.late \/ new.to = handleId[h])
  BY DEF Packet, PacketType
<1>4. packets' = [packets EXCEPT ![h] = Append(q, new)] /\ unsent' = unsent + 1
  BY DEF Push
<1> HIDE DEF q, new
<1> DEFINE r == Append(q, new)
<1>5. /\ r \in Seq(PacketType)
      /\ Len(r) = n + 1
      /\ DOMAIN r = 1 .. n + 1
      /\ \A i \in 1 .. n : r[i] = q[i]
      /\ r[n + 1] = new
  BY <1>2, <1>3
<1> HIDE DEF r
<1>6. /\ DOMAIN packets' = DOMAIN packets
      /\ packets'[h] = r
      /\ \A g \in DOMAIN packets : g # h => packets'[g] = packets[g]
  BY <1>1, <1>4 DEF r
<1>7. packets' \in [DOMAIN packets' -> Seq(PacketType)]
  <2>1. \A g \in DOMAIN packets : packets'[g] \in Seq(PacketType)
    BY <1>5, <1>6 DEF Lists
  <2>2. packets' = [g \in DOMAIN packets |-> packets'[g]]
    BY <1>4
  <2> QED  BY <1>6, <2>1, <2>2
<1>8. \A g \in DOMAIN packets' : Len(packets'[g]) <= MaxQueueSize
  <2>1. Len(r) <= MaxQueueSize
    <3> HIDE DEF n
    <3> QED  BY <1>1, <1>2, <1>5
  <2> QED  BY <1>6, <2>1 DEF Lists
<1>9. ASSUME NEW g \in DOMAIN packets', NEW i \in DOMAIN packets'[g]
      PROVE  packets'[g][i].late \/ packets'[g][i].to = handleId'[g]
  <2>1. CASE g # h
    BY <1>6, <1>9, <2>1 DEF Lists
  <2>2. CASE g = h
    <3>1. CASE i = n + 1
      BY <1>3, <1>5, <1>6, <2>2, <3>1
    <3>2. CASE i # n + 1
      <4>1. i \in 1 .. n
        BY <1>2, <1>5, <1>6, <1>9, <2>2, <3>2
      <4>2. packets'[g][i] = packets[h][i] /\ i \in DOMAIN packets[h]
        BY <1>2, <1>5, <1>6, <2>2, <4>1 DEF q
      <4> QED  BY <1>1, <2>2, <4>2 DEF Lists
    <3> QED  BY <3>1, <3>2
  <2> QED  BY <2>1, <2>2
<1>10. Places' = Places \cup {<<h, n + 1>>} /\ <<h, n + 1>> \notin Places
  <2>1. ASSUME NEW g, NEW i
        PROVE  <<g, i>> \in Places' <=> <<g, i>> \in Places \cup {<<h, n + 1>>}
    <3>1. <<g, i>> \in Places' <=> g \in DOMAIN packets' /\ i \in DOMAIN packets'[g]
      BY DEF Places
    <3>2. <<g, i>> \in Places <=> g \in DOMAIN packets /\ i \in DOMAIN packets[g]
      BY DEF Places
    <3>3. CASE g = h
      BY <1>1, <1>2, <1>5, <1>6, <3>1, <3>2, <3>3 DEF q
    <3>4. CASE g # h
      BY <1>6, <3>1, <3>2, <3>4
    <3> QED  BY <3>3, <3>4
  <2>2. \A x \in Places : \E g, i : x = <<g, i>>
    BY DEF Places
  <2>3. \A x \in Places' : \E g, i : x = <<g, i>>
    BY DEF Places
  <2>4. <<h, n + 1>> \notin Places
    BY <1>2 DEF Places, q
  <2> QED  BY <2>1, <2>2, <2>3, <2>4
<1>11. IsFiniteSet(Places') /\ Cardinality(Places') = Cardinality(Places) + 1
  <2>1. IsFiniteSet(Places)
    BY DEF Lists
  <2> QED  BY <1>10, <2>1, FS_AddElement
<1>12. UnsentCounted'
  BY <1>4, <1>11 DEF Lists, UnsentCounted
<1> QED  BY <1>6, <1>7, <1>8, <1>9, <1>11, <1>12 DEF Lists

(* The first packet of a list is written. *)
LEMMA PopLists ==
  ASSUME Lists, NEW h \in DOMAIN packets, packets[h] # <<>>,
         packets' = [packets EXCEPT ![h] = Tail(@)], unsent' = unsent - 1,
         handleId' = handleId
  PROVE  Lists' /\ DOMAIN packets' = DOMAIN packets
<1> DEFINE q == packets[h]
           n == Len(q)
           r == Tail(q)
<1>1. q \in Seq(PacketType)
  BY DEF Lists
<1>2. /\ n \in Nat \ {0}
      /\ DOMAIN q = 1 .. n
      /\ r \in Seq(PacketType)
      /\ Len(r) = n - 1
      /\ DOMAIN r = 1 .. n - 1
      /\ \A i \in 1 .. n - 1 : r[i] = q[i + 1]
  BY <1>1
<1> HIDE DEF r
<1>3. /\ DOMAIN packets' = DOMAIN packets
      /\ packets'[h] = r
      /\ \A g \in DOMAIN packets : g # h => packets'[g] = packets[g]
  BY DEF r
<1>4. packets' \in [DOMAIN packets' -> Seq(PacketType)]
  <2>1. \A g \in DOMAIN packets : packets'[g] \in Seq(PacketType)
    BY <1>2, <1>3 DEF Lists
  <2>2. packets' = [g \in DOMAIN packets |-> packets'[g]]
    OBVIOUS
  <2> QED  BY <1>3, <2>1, <2>2
<1>5. \A g \in DOMAIN packets' : Len(packets'[g]) <= MaxQueueSize
  <2>1. n <= MaxQueueSize /\ MaxQueueSize \in Nat
    BY ServerAssumption DEF Lists
  <2>2. Len(r) <= MaxQueueSize
    <3> HIDE DEF n
    <3> QED  BY <1>2, <2>1
  <2> QED  BY <1>3, <2>2 DEF Lists
<1>6. ASSUME NEW g \in DOMAIN packets', NEW i \in DOMAIN packets'[g]
      PROVE  packets'[g][i].late \/ packets'[g][i].to = handleId'[g]
  <2>1. CASE g # h
    BY <1>3, <1>6, <2>1 DEF Lists
  <2>2. CASE g = h
    <3>1. i \in 1 .. n - 1 /\ packets'[g][i] = packets[h][i + 1]
      BY <1>2, <1>3, <1>6, <2>2
    <3>2. i + 1 \in DOMAIN packets[h]
      BY <1>2, <3>1
    <3> QED  BY <2>2, <3>1, <3>2 DEF Lists
  <2> QED  BY <2>1, <2>2
<1> HIDE DEF q
<1>7. Places' = Places \ {<<h, n>>} /\ <<h, n>> \in Places
  <2>1. ASSUME NEW g, NEW i
        PROVE  <<g, i>> \in Places' <=> <<g, i>> \in Places \ {<<h, n>>}
    <3>1. <<g, i>> \in Places' <=> g \in DOMAIN packets' /\ i \in DOMAIN packets'[g]
      BY DEF Places
    <3>2. <<g, i>> \in Places <=> g \in DOMAIN packets /\ i \in DOMAIN packets[g]
      BY DEF Places
    <3>3. CASE g = h
      BY <1>2, <1>3, <3>1, <3>2, <3>3 DEF q
    <3>4. CASE g # h
      BY <1>3, <3>1, <3>2, <3>4
    <3> QED  BY <3>3, <3>4
  <2>2. \A x \in Places : \E g, i : x = <<g, i>>
    BY DEF Places
  <2>3. \A x \in Places' : \E g, i : x = <<g, i>>
    BY DEF Places
  <2>4. <<h, n>> \in Places
    BY <1>2 DEF Places, q
  <2> QED  BY <2>1, <2>2, <2>3, <2>4
<1>8. IsFiniteSet(Places') /\ Cardinality(Places') = Cardinality(Places) - 1
  <2>1. IsFiniteSet(Places)
    BY DEF Lists
  <2> QED  BY <1>7, <2>1, FS_RemoveElement
<1>9. UnsentCounted'
  BY <1>8 DEF Lists, UnsentCounted
<1> QED  BY <1>3, <1>4, <1>5, <1>6, <1>8, <1>9 DEF Lists

(* A list is thrown away with its connection. *)
LEMMA DelLists ==
  ASSUME Lists, NEW h \in DOMAIN packets,
         packets' = Without(packets, h), unsent' = unsent - Len(packets[h]),
         \A g \in DOMAIN packets : g # h => handleId'[g] = handleId[g]
  PROVE  Lists'
<1> DEFINE n == Len(packets[h])
<1>1. packets[h] \in Seq(PacketType)
  BY DEF Lists
<1>2. n \in Nat /\ DOMAIN packets[h] = 1 .. n
  BY <1>1
<1>3. /\ DOMAIN packets' = DOMAIN packets \ {h}
      /\ \A g \in DOMAIN packets : g # h => packets'[g] = packets[g]
  BY WithoutFacts
<1>4. packets' \in [DOMAIN packets' -> Seq(PacketType)]
  BY DEF Lists, Without
<1>5. \A g \in DOMAIN packets' : Len(packets'[g]) <= MaxQueueSize
  BY <1>3 DEF Lists
<1>6. \A g \in DOMAIN packets' : \A i \in DOMAIN packets'[g] :
        packets'[g][i].late \/ packets'[g][i].to = handleId'[g]
  BY <1>3 DEF Lists
<1> DEFINE gone == {h} \X (1 .. n)
<1> HIDE DEF n
<1>7. Places' = Places \ gone /\ gone \subseteq Places
  <2>1. ASSUME NEW g, NEW i
        PROVE  <<g, i>> \in Places' <=> <<g, i>> \in Places \ gone
    <3>1. <<g, i>> \in Places' <=> g \in DOMAIN packets' /\ i \in DOMAIN packets'[g]
      BY DEF Places
    <3>2. <<g, i>> \in Places <=> g \in DOMAIN packets /\ i \in DOMAIN packets[g]
      BY DEF Places
    <3>3. <<g, i>> \in gone <=> g = h /\ i \in 1 .. n
      OBVIOUS
    <3> QED  BY <1>2, <1>3, <3>1, <3>2, <3>3
  <2>2. \A x \in Places : \E g, i : x = <<g, i>>
    BY DEF Places
  <2>3. \A x \in Places' : \E g, i : x = <<g, i>>
    BY DEF Places
  <2>4. gone \subseteq Places
    BY <1>2 DEF Places
  <2> QED  BY <2>1, <2>2, <2>3, <2>4
<1>8. IsFiniteSet(gone) /\ Cardinality(gone) = n
  BY <1>2, ListPlaces
<1> HIDE DEF gone
<1>9. IsFiniteSet(Places') /\ Cardinality(Places') = Cardinality(Places) - n
  <2>1. IsFiniteSet(Places)
    BY DEF Lists
  <2>2. Places \cap gone = gone
    BY <1>7
  <2>3. Cardinality(Places \ gone) = Cardinality(Places) - Cardinality(Places \cap gone)
        /\ IsFiniteSet(Places \ gone)
    BY <2>1, FS_Difference
  <2> QED  BY <1>7, <1>8, <2>2, <2>3
<1>10. UnsentCounted'
  BY <1>9 DEF Lists, UnsentCounted, n
<1> QED  BY <1>4, <1>5, <1>6, <1>9, <1>10 DEF Lists

(* A new connection has an empty list. *)
LEMMA NewLists ==
  ASSUME Lists, NEW h, h \notin DOMAIN packets,
         packets' = With(packets, h, <<>>), unsent' = unsent,
         \A g \in DOMAIN packets : handleId'[g] = handleId[g]
  PROVE  Lists'
<1>1. /\ DOMAIN packets' = DOMAIN packets \cup {h}
      /\ packets'[h] = <<>>
      /\ \A g \in DOMAIN packets : packets'[g] = packets[g]
  <2> DEFINE e == <<>>
  <2>1. packets' = With(packets, h, e)
    OBVIOUS
  <2> HIDE DEF e
  <2>2. /\ DOMAIN packets' = DOMAIN packets \cup {h}
        /\ packets'[h] = e
        /\ \A g \in DOMAIN packets : g # h => packets'[g] = packets[g]
    BY <2>1 DEF With
  <2> QED  BY <2>2 DEF e
<1>2. <<>> \in Seq(PacketType) /\ Len(<<>>) = 0 /\ DOMAIN <<>> = {}
  OBVIOUS
<1>3. packets' \in [DOMAIN packets' -> Seq(PacketType)]
  BY <1>2 DEF Lists, With
<1>4. \A g \in DOMAIN packets' : Len(packets'[g]) <= MaxQueueSize
  BY <1>1, <1>2, ServerAssumption DEF Lists
<1>5. \A g \in DOMAIN packets' : \A i \in DOMAIN packets'[g] :
        packets'[g][i].late \/ packets'[g][i].to = handleId'[g]
  BY <1>1, <1>2 DEF Lists
<1>6. Places' = Places
  <2>1. ASSUME NEW g, NEW i
        PROVE  <<g, i>> \in Places' <=> <<g, i>> \in Places
    <3>1. <<g, i>> \in Places' <=> g \in DOMAIN packets' /\ i \in DOMAIN packets'[g]
      BY DEF Places
    <3>2. <<g, i>> \in Places <=> g \in DOMAIN packets /\ i \in DOMAIN packets[g]
      BY DEF Places
    <3> QED  BY <1>1, <1>2, <3>1, <3>2
  <2>2. \A x \in Places : \E g, i : x = <<g, i>>
    BY DEF Places
  <2>3. \A x \in Places' : \E g, i : x = <<g, i>>
    BY DEF Places
  <2> QED  BY <2>1, <2>2, <2>3
<1> QED  BY <1>3, <1>4, <1>5, <1>6 DEF Lists, UnsentCounted

-----------------------------------------------------------------------------
(* Clients and connections *)

(* A step that changes neither the maps nor the receiving thread. *)
LEMMA NetSame ==
  ASSUME Net, Receiving, UNCHANGED <<netVars, setHandles, rx, disconnect>>,
         DOMAIN packets' = DOMAIN packets, DOMAIN overload' = DOMAIN overload
  PROVE  Net' /\ Receiving'
<1> USE DEF netVars, ClientsLocked
<1>1. Net'
  BY DEF Net
<1>2. Receiving'
  BY DEF Receiving
<1> QED  BY <1>1, <1>2

(* accept() gives a number that nobody has had, and a handle that is not open. *)
LEMMA AcceptNet ==
  ASSUME Net, Receiving, NEW h \in Handles, Accept(h)
  PROVE  Net' /\ Receiving'
<1>1. /\ rx = Listening /\ rx.at = "select"
      /\ h \notin DOMAIN sockets
      /\ lastId \in Nat /\ lastId' = lastId + 1 /\ lastId' \in 0 .. MaxId
      /\ MaxId \in Nat
      /\ clients' = clients /\ overload' = overload /\ disconnect' = disconnect
      /\ setHandles' = setHandles \cup {h}
  BY ServerAssumption DEF Accept, Net, Listening, stopVars
<1>2. /\ rx'.at = "OnConnect" /\ rx'.client = lastId' /\ rx'.handle = h
  BY DEF Accept
<1> DEFINE c == lastId'
<1>3. /\ c \notin 1 .. lastId
      /\ c \in 1 .. c
      /\ 1 .. lastId \subseteq 1 .. c
  BY <1>1
<1>4. /\ sockets' = With(sockets, h, c)
      /\ idHandle' = With(idHandle, c, h)
      /\ handleId' = With(handleId, h, c)
      /\ packets' = With(packets, h, <<>>)
  BY DEF Accept
<1> HIDE DEF c
<1>5. c \notin DOMAIN idHandle /\ h \notin DOMAIN handleId
  BY <1>1, <1>3 DEF Net
<1>6. /\ DOMAIN sockets' = DOMAIN sockets \cup {h} /\ sockets'[h] = c
      /\ \A g \in DOMAIN sockets : sockets'[g] = sockets[g]
  BY <1>1, <1>4 DEF With
<1>7. /\ DOMAIN idHandle' = DOMAIN idHandle \cup {c} /\ idHandle'[c] = h
      /\ \A d \in DOMAIN idHandle : idHandle'[d] = idHandle[d]
  BY <1>4, <1>5 DEF With
<1>8. /\ DOMAIN handleId' = DOMAIN handleId \cup {h} /\ handleId'[h] = c
      /\ \A g \in DOMAIN handleId : handleId'[g] = handleId[g]
  BY <1>4, <1>5 DEF With
<1>9. DOMAIN packets' = DOMAIN packets \cup {h}
  BY <1>4 DEF With
<1>10. Net'
  <2>1. lastId' \in 0 .. MaxId
    BY <1>1
  <2>2. DOMAIN idHandle' \subseteq 1 .. lastId' /\ DOMAIN overload' \subseteq 1 .. lastId'
    BY <1>1, <1>3, <1>7 DEF Net, c
  <2>3. DOMAIN handleId' \subseteq Handles
    BY <1>8 DEF Net
  <2>4. /\ \A g \in DOMAIN handleId' :
             handleId'[g] \in DOMAIN idHandle' /\ idHandle'[handleId'[g]] = g
        /\ \A d \in DOMAIN idHandle' :
             idHandle'[d] \in DOMAIN handleId' /\ handleId'[idHandle'[d]] = d
    BY <1>7, <1>8 DEF Net
  <2>5. DOMAIN handleId' = DOMAIN packets' /\ DOMAIN packets' = setHandles'
    BY <1>1, <1>8, <1>9 DEF Net
  <2>6. \A g \in DOMAIN handleId' : g \in DOMAIN sockets' /\ sockets'[g] = handleId'[g]
    BY <1>1, <1>6, <1>8 DEF Net
  <2>7. clients' \subseteq DOMAIN idHandle'
    BY <1>1, <1>7 DEF Net
  <2>8. ClientsLocked' => disconnect'.left \subseteq clients'
    BY <1>1 DEF Net, ClientsLocked
  <2> QED  BY <2>1, <2>2, <2>3, <2>4, <2>5, <2>6, <2>7, <2>8 DEF Net
<1>11. Receiving'
  <2>1. c \notin clients' /\ c \notin DOMAIN overload'
    BY <1>1, <1>3, <1>5 DEF Net
  <2>2. \A d \in DOMAIN idHandle' :
          (d \in clients' /\ d \in DOMAIN overload') \/ d = c
    BY <1>1, <1>7 DEF Receiving, Breaking
  <2> QED  BY <1>2, <1>7, <2>1, <2>2 DEF Receiving, Breaking, c
<1> QED  BY <1>10, <1>11

(* OnConnect enters the client of the connection that has just been accepted. *)
LEMMA OnConnectNet ==
  ASSUME Net, Receiving, OnConnect
  PROVE  Net' /\ Receiving'
<1> USE DEF stopVars, queueVars
<1>1. /\ rx.at = "OnConnect" /\ ~ClientsLocked
      /\ clients' = clients \cup {rx.client}
      /\ rx' = Listening
      /\ disconnect' = disconnect /\ setHandles' = setHandles /\ packets' = packets
      /\ sockets' = sockets /\ lastId' = lastId /\ idHandle' = idHandle
      /\ handleId' = handleId
      /\ overload' = With(overload, rx.client, FALSE)
  BY DEF OnConnect
<1>2. rx.client \in DOMAIN idHandle
  BY <1>1 DEF Receiving
<1>3. DOMAIN overload' = DOMAIN overload \cup {rx.client}
  BY <1>1 DEF With
<1>4. Net'
  BY <1>1, <1>2, <1>3 DEF Net, ClientsLocked
<1>5. Receiving'
  BY <1>1, <1>2, <1>3 DEF Net, Receiving, Listening, Breaking
<1> QED  BY <1>4, <1>5

(* OnBreak first takes the client out of the map that Disconnect reads. *)
LEMMA BreakNet ==
  ASSUME Net, Receiving, NEW h \in Handles, Break(h)
  PROVE  Net' /\ Receiving'
<1> USE DEF stopVars, queueVars
<1>1. /\ rx = Listening /\ rx.at = "select" /\ ~ClientsLocked
      /\ h \in DOMAIN handleId
      /\ clients' = clients \ {handleId[h]}
      /\ rx'.at = "EraseSessions" /\ rx'.client = handleId[h] /\ rx'.handle = h
      /\ disconnect' = disconnect /\ setHandles' = setHandles /\ packets' = packets
      /\ sockets' = sockets /\ lastId' = lastId /\ idHandle' = idHandle
      /\ handleId' = handleId /\ overload' = overload
  BY DEF Break, Listening
<1>2. Net'
  BY <1>1 DEF Net, ClientsLocked
<1>3. Receiving'
  BY <1>1 DEF Net, Receiving, Breaking
<1> QED  BY <1>2, <1>3

(* Its sessions and its entry in the overload map go next, ... *)
LEMMA EraseNet ==
  ASSUME Net, Receiving, EraseSessions \/ EraseOverload
  PROVE  Net' /\ Receiving'
<1> USE DEF stopVars, queueVars, netVars, Breaking
<1>1. /\ rx.at \in {"EraseSessions", "overload"}
      /\ rx'.at \in {"overload", "DelConnection"}
      /\ rx'.client = rx.client /\ rx'.handle = rx.handle
  <2>1. CASE rx = Listening
    BY <2>1 DEF EraseSessions, EraseOverload, Listening
  <2>2. CASE rx' = [rx EXCEPT !.at = "overload"] /\ EraseSessions
    BY <2>2 DEF EraseSessions
  <2>3. CASE EraseOverload
    BY <2>3 DEF EraseOverload
  <2> QED  BY <2>2, <2>3 DEF EraseSessions
<1>2. /\ clients' = clients
      /\ disconnect' = disconnect /\ setHandles' = setHandles /\ packets' = packets
      /\ sockets' = sockets /\ lastId' = lastId /\ idHandle' = idHandle
      /\ handleId' = handleId
  BY DEF EraseSessions, EraseOverload
<1>3. /\ DOMAIN overload' \subseteq DOMAIN overload
      /\ \A d \in DOMAIN overload : d # rx.client => d \in DOMAIN overload'
  <2>1. CASE overload' = overload
    BY <2>1
  <2>2. CASE overload' = Without(overload, rx.client)
    BY <2>2 DEF Without
  <2> QED  BY <2>1, <2>2 DEF EraseSessions, EraseOverload
<1>4. Net'
  BY <1>2, <1>3 DEF Net, ClientsLocked
<1>5. Receiving'
  BY <1>1, <1>2, <1>3 DEF Receiving
<1> QED  BY <1>4, <1>5

(* ... then the connection, of which only the socket is left, ... *)
LEMMA DelConnectionNet ==
  ASSUME Net, Receiving, DelConnection
  PROVE  Net' /\ Receiving'
<1> USE DEF stopVars, queueVars, netVars, Breaking
<1> DEFINE c == rx.client
           h == rx.handle
<1>1. /\ c \in DOMAIN idHandle /\ idHandle[c] = h /\ c \notin clients
      /\ h \in DOMAIN handleId /\ handleId[h] = c
      /\ rx.at = "DelConnection"
  BY DEF Net, Receiving, DelConnection
<1>2. /\ idHandle' = Without(idHandle, c)
      /\ handleId' = Without(handleId, h)
      /\ packets' = Without(packets, h)
      /\ setHandles' = setHandles \ {h}
      /\ clients' = clients /\ overload' = overload /\ disconnect' = disconnect
      /\ sockets' = sockets /\ lastId' = lastId
  BY DEF DelConnection
<1>3. rx'.at = "close" /\ rx'.handle = h
  <2>1. rx' = [rx EXCEPT !.at = "close"]
    BY DEF DelConnection
  <2> QED  BY <1>1, <2>1
<1> HIDE DEF c, h
<1>4. /\ DOMAIN idHandle' = DOMAIN idHandle \ {c}
      /\ \A d \in DOMAIN idHandle : d # c => idHandle'[d] = idHandle[d]
  BY <1>2, WithoutFacts
<1>5. /\ DOMAIN handleId' = DOMAIN handleId \ {h}
      /\ \A g \in DOMAIN handleId : g # h => handleId'[g] = handleId[g]
  BY <1>2, WithoutFacts
<1>6. DOMAIN packets' = DOMAIN packets \ {h}
  BY <1>2, WithoutFacts
<1>7. Net'
  <2>1. /\ \A g \in DOMAIN handleId' :
             handleId'[g] \in DOMAIN idHandle' /\ idHandle'[handleId'[g]] = g
        /\ \A d \in DOMAIN idHandle' :
             idHandle'[d] \in DOMAIN handleId' /\ handleId'[idHandle'[d]] = d
    BY <1>1, <1>4, <1>5 DEF Net
  <2>2. DOMAIN handleId' = DOMAIN packets' /\ DOMAIN packets' = setHandles'
    BY <1>2, <1>5, <1>6 DEF Net
  <2>3. \A g \in DOMAIN handleId' : g \in DOMAIN sockets' /\ sockets'[g] = handleId'[g]
    BY <1>2, <1>5 DEF Net
  <2>4. clients' \subseteq DOMAIN idHandle'
    BY <1>1, <1>2, <1>4 DEF Net
  <2> QED  BY <1>2, <1>4, <1>5, <2>1, <2>2, <2>3, <2>4 DEF Net, ClientsLocked
<1>8. Receiving'
  <2>1. h \in DOMAIN sockets' \ DOMAIN handleId'
    BY <1>1, <1>2, <1>5 DEF Net
  <2>2. \A d \in DOMAIN idHandle' : d \in clients' /\ d \in DOMAIN overload'
    BY <1>2, <1>4 DEF Receiving, c
  <2> QED  BY <1>3, <2>1, <2>2 DEF Receiving
<1> QED  BY <1>7, <1>8

(* ... which is closed last. *)
LEMMA CloseNet ==
  ASSUME Net, Receiving, Close
  PROVE  Net' /\ Receiving'
<1> USE DEF stopVars, queueVars, Breaking
<1>1. /\ rx.at = "close" /\ rx.handle \notin DOMAIN handleId
      /\ sockets' = Without(sockets, rx.handle)
      /\ rx' = Listening
      /\ disconnect' = disconnect /\ setHandles' = setHandles /\ packets' = packets
      /\ clients' = clients /\ lastId' = lastId /\ idHandle' = idHandle
      /\ handleId' = handleId /\ overload' = overload
  BY DEF Close, Receiving
<1>2. /\ DOMAIN sockets' = DOMAIN sockets \ {rx.handle}
      /\ \A g \in DOMAIN sockets : g # rx.handle => sockets'[g] = sockets[g]
  BY <1>1, WithoutFacts
<1>3. Net'
  BY <1>1, <1>2 DEF Net, ClientsLocked
<1>4. Receiving'
  BY <1>1 DEF Receiving, Listening
<1> QED  BY <1>3, <1>4

(* Disconnect tells the clients there are when it starts, and forgets each one
   it has told; none can leave meanwhile.                                   *)
LEMMA DisconnectNet ==
  ASSUME Net, Receiving, Disconnect \/ SendDPR
  PROVE  Net' /\ Receiving'
<1> USE DEF netVars, queueVars
<1>1. UNCHANGED <<netVars, setHandles, rx, overload>> /\ DOMAIN packets' = DOMAIN packets
  BY DEF Disconnect, SendDPR, Push
<1>2. ClientsLocked' => disconnect'.left \subseteq clients'
  <2>1. CASE Disconnect
    BY <2>1 DEF Disconnect
  <2>2. CASE SendDPR
    <3>1. PICK c \in disconnect.left :
            disconnect' = [at |-> IF disconnect.left \ {c} = {} THEN "done" ELSE "SendDPR",
                           left |-> disconnect.left \ {c}]
      BY <2>2 DEF SendDPR
    <3> QED  BY <1>1, <2>2, <3>1 DEF SendDPR, Net
  <2> QED  BY <2>1, <2>2
<1>3. Net'
  BY <1>1, <1>2 DEF Net
<1>4. Receiving'
  BY <1>1 DEF Receiving
<1> QED  BY <1>3, <1>4

(* OnOverload changes no key of the overload map. *)
LEMMA SendingNet ==
  ASSUME Net, Receiving, NEW p \in Threads, OnAnswerMessage(p) \/ Sending(p)
  PROVE  Net' /\ Receiving'
<1> USE DEF netVars, queueVars, stopVars
<1>1. CASE OnAnswerMessage(p) \/ Lookup(p) \/ Signal(p) \/ Rollback(p) \/ CheckOverload(p)
  <2>1. UNCHANGED <<netVars, setHandles, rx, disconnect, packets, overload>>
    BY <1>1 DEF OnAnswerMessage, Lookup, Signal, Rollback, CheckOverload
  <2> QED  BY <2>1, NetSame
<1>2. CASE PushAnswer(p)
  <2>1. UNCHANGED <<netVars, setHandles, rx, disconnect, overload>>
    BY <1>2 DEF PushAnswer
  <2>2. DOMAIN packets' = DOMAIN packets
    BY <1>2 DEF PushAnswer, Push
  <2> QED  BY <2>1, <2>2, NetSame
<1>3. CASE OnOverload(p)
  <2>1. UNCHANGED <<netVars, setHandles, rx, disconnect, packets>>
    BY <1>3 DEF OnOverload
  <2>2. DOMAIN overload' = DOMAIN overload
    BY <1>3 DEF OnOverload
  <2> QED  BY <2>1, <2>2, NetSame
<1> QED  BY <1>1, <1>2, <1>3 DEF Sending

(* The send thread writes packets and changes neither maps nor clients. *)
LEMMA SendThreadNet ==
  ASSUME Net, Receiving, SendThread
  PROVE  Net' /\ Receiving'
<1> USE DEF netVars, queueVars, stopVars
<1>1. UNCHANGED <<netVars, setHandles, rx, disconnect, overload>> /\ DOMAIN packets' = DOMAIN packets
  <2>1. CASE Poll \/ RegisterWaiter \/ WaitReturns \/ FillConnectedSet \/ SelectNone \/ AllTried
    BY <2>1 DEF Poll, RegisterWaiter, WaitReturns, FillConnectedSet, SelectNone, AllTried, StepTo
  <2>2. CASE \E writable \in SUBSET vecHandles : SelectReady(writable)
    BY <2>2 DEF SelectReady, StepTo
  <2>3. CASE \E h \in Handles : SendFromQueue(h)
    BY <2>3 DEF SendFromQueue
  <2>4. CASE \E h \in Handles : SendNothing(h)
    BY <2>4 DEF SendNothing, StepTo
  <2> QED  BY <2>1, <2>2, <2>3, <2>4 DEF SendThread
<1> QED  BY <1>1, NetSame

(* Every step keeps the clients, the connections and what the receiving thread
   relies on.                                                               *)
LEMMA NetStep ==
  ASSUME Net, Receiving, [Next]_vars
  PROVE  Net' /\ Receiving'
<1> USE DEF netVars, queueVars, stopVars
<1>1. CASE UNCHANGED vars
  BY <1>1, NetSame DEF vars
<1>2. ASSUME NEW h \in Handles, HandleDefaultMessages(h)
      PROVE  Net' /\ Receiving'
  <2>1. UNCHANGED <<netVars, setHandles, rx, disconnect, overload>>
    BY <1>2 DEF HandleDefaultMessages
  <2>2. DOMAIN packets' = DOMAIN packets
    BY <1>2 DEF HandleDefaultMessages, Push
  <2> QED  BY <2>1, <2>2, NetSame
<1>3. ASSUME NEW h \in Handles, OnReceive(h)
      PROVE  Net' /\ Receiving'
  <2>1. UNCHANGED <<netVars, setHandles, rx, overload, packets>>
    BY <1>3 DEF OnReceive
  <2>2. disconnect' = disconnect
    BY <1>3 DEF OnReceive
  <2> QED  BY <2>1, <2>2, NetSame
<1>4. CASE StopInput
  <2>1. UNCHANGED <<netVars, setHandles, rx, overload, packets, disconnect>>
    BY <1>4 DEF StopInput
  <2> QED  BY <2>1, NetSame
<1>5. CASE Receiver
  BY <1>2, <1>3, <1>5, AcceptNet, OnConnectNet, BreakNet, EraseNet, DelConnectionNet, CloseNet
     DEF Receiver
<1>6. CASE Stopping
  BY <1>4, <1>6, DisconnectNet DEF Stopping
<1> QED  BY <1>1, <1>5, <1>6, SendingNet, SendThreadNet DEF Next

-----------------------------------------------------------------------------
(* Lists of packets *)

(* A step that leaves the lists alone. *)
LEMMA ListsSame ==
  ASSUME Lists, UNCHANGED <<packets, unsent, handleId>>
  PROVE  Lists'
BY DEF Lists, UnsentCounted, Places

(* The handle that a call of Send has found takes its packet, which is late if
   the client has gone: if not, the handle is still the client's.           *)
LEMMA PushAnswerLists ==
  ASSUME Net, Lists, Calls, NEW p \in Threads, PushAnswer(p)
  PROVE  Lists'
<1> USE DEF netVars, queueVars
<1> DEFINE h == tx[p].handle
           c == tx[p].client
<1>1. handleId' = handleId /\ tx[p].at = "push"
  BY DEF PushAnswer
<1>2. CASE CanPush(h)
  <2>1. Push(h, Packet(c, c \notin DOMAIN idHandle))
    BY <1>2 DEF PushAnswer
  <2>2. c \in 1 .. lastId /\ (c \in DOMAIN idHandle => idHandle[c] = h)
    BY <1>1 DEF Calls, CallOK
  <2>3. c \in Ids
    BY <2>2, ServerAssumption DEF Net, Ids
  <2>4. c \in DOMAIN idHandle => c = handleId[h]
    BY <2>2 DEF Net
  <2> DEFINE late == c \notin DOMAIN idHandle
  <2>5. late \in BOOLEAN /\ (late \/ c = handleId[h])
    BY <2>4
  <2> HIDE DEF late, c, h
  <2>6. Push(h, Packet(c, late))
    BY <2>1 DEF late
  <2> QED  BY <1>1, <1>2, <2>3, <2>5, <2>6, PushLists
<1>3. CASE ~CanPush(h)
  BY <1>1, <1>3, ListsSame DEF PushAnswer
<1> QED  BY <1>2, <1>3

(* The answer to a CER or a DWR goes to the client it came from, and a DPR to
   the client it is meant for.                                              *)
LEMMA OwnPacketLists ==
  ASSUME Net, Lists,
         SendDPR \/ (\E h \in Handles : HandleDefaultMessages(h))
  PROVE  Lists'
<1> USE DEF netVars, queueVars
<1>1. handleId' = handleId
  BY DEF SendDPR, HandleDefaultMessages
<1>2. ASSUME NEW h \in DOMAIN handleId, CanPush(h), Push(h, Packet(handleId[h], FALSE))
      PROVE  Lists'
  <2> DEFINE c == handleId[h]
  <2>1. c \in Ids
    BY ServerAssumption DEF Net, Ids
  <2> HIDE DEF c
  <2>2. Push(h, Packet(c, FALSE)) /\ c = handleId[h]
    BY <1>2 DEF c
  <2> QED  BY <1>1, <1>2, <2>1, <2>2, PushLists
<1>3. CASE SendDPR
  <2>1. PICK c \in disconnect.left :
          \/ CanPush(idHandle[c]) /\ Push(idHandle[c], Packet(c, FALSE))
          \/ UNCHANGED queueVars
    BY <1>3 DEF SendDPR
  <2>2. c \in DOMAIN idHandle
    BY <1>3 DEF Net, SendDPR
  <2>3. idHandle[c] \in DOMAIN handleId /\ handleId[idHandle[c]] = c
    BY <2>2 DEF Net
  <2> QED  BY <1>1, <1>2, <2>1, <2>3, ListsSame
<1>4. CASE \E h \in Handles : HandleDefaultMessages(h)
  <2>1. PICK h \in DOMAIN handleId :
          \/ CanPush(h) /\ Push(h, Packet(handleId[h], FALSE))
          \/ UNCHANGED queueVars
    BY <1>4 DEF HandleDefaultMessages
  <2> QED  BY <1>1, <1>2, <2>1, ListsSame
<1> QED  BY <1>3, <1>4

(* Every step keeps the packets counted, and each with its client. *)
LEMMA ListsStep ==
  ASSUME Net, Receiving, Lists, Calls, [Next]_vars
  PROVE  Lists'
<1> USE DEF netVars, queueVars, stopVars
<1>1. ASSUME NEW h \in Handles, Accept(h)
      PROVE  Lists'
  <2>1. h \notin DOMAIN packets
    BY <1>1 DEF Accept, Net
  <2>2. packets' = With(packets, h, <<>>) /\ unsent' = unsent
    BY <1>1 DEF Accept
  <2>3. \A g \in DOMAIN packets : handleId'[g] = handleId[g]
    BY <1>1, <2>1 DEF Accept, With, Net
  <2> QED  BY <2>1, <2>2, <2>3, NewLists
<1>2. CASE DelConnection
  <2>1. rx.handle \in DOMAIN packets
    BY <1>2 DEF DelConnection, Net, Receiving, Breaking
  <2>2. packets' = Without(packets, rx.handle) /\ unsent' = unsent - Len(packets[rx.handle])
    BY <1>2 DEF DelConnection
  <2>3. \A g \in DOMAIN packets : g # rx.handle => handleId'[g] = handleId[g]
    BY <1>2 DEF DelConnection, Without, Net
  <2> QED  BY <2>1, <2>2, <2>3, DelLists
<1>3. CASE SendDPR \/ (\E h \in Handles : HandleDefaultMessages(h))
  BY <1>3, OwnPacketLists
<1>4. ASSUME NEW p \in Threads, PushAnswer(p)
      PROVE  Lists'
  BY <1>4, PushAnswerLists
<1>5. ASSUME NEW h \in Handles, SendFromQueue(h)
      PROVE  Lists'
  BY <1>5, PopLists DEF SendFromQueue
<1>6. CASE \E h \in Handles : OnReceive(h) \/ Break(h)
  BY <1>6, ListsSame DEF OnReceive, Break
<1>7. CASE OnConnect \/ EraseSessions \/ EraseOverload \/ Close
  BY <1>7, ListsSame DEF OnConnect, EraseSessions, EraseOverload, Close
<1>8. CASE StopInput \/ Disconnect
  BY <1>8, ListsSame DEF StopInput, Disconnect
<1>9. ASSUME NEW p \in Threads,
             \/ OnAnswerMessage(p) \/ Lookup(p) \/ Signal(p) \/ Rollback(p)
             \/ CheckOverload(p) \/ OnOverload(p)
      PROVE  Lists'
  <2>1. UNCHANGED <<packets, unsent, handleId>>
    BY <1>9 DEF OnAnswerMessage, Lookup, Signal, Rollback, CheckOverload, OnOverload
  <2> QED  BY <2>1, ListsSame
<1>10. CASE \/ Poll \/ RegisterWaiter \/ WaitReturns \/ FillConnectedSet \/ SelectNone \/ AllTried
            \/ \E writable \in SUBSET vecHandles : SelectReady(writable)
            \/ \E h \in Handles : SendNothing(h)
  <2>1. UNCHANGED <<packets, unsent, handleId>>
    BY <1>10 DEF Poll, RegisterWaiter, WaitReturns, FillConnectedSet, SelectNone, AllTried,
                 SelectReady, SendNothing, StepTo
  <2> QED  BY <2>1, ListsSame
<1>11. CASE UNCHANGED vars
  BY <1>11, ListsSame DEF vars
<1>12. CASE Receiver
  BY <1>1, <1>2, <1>3, <1>6, <1>7, <1>12 DEF Receiver
<1>13. CASE \E p \in Threads : OnAnswerMessage(p) \/ Sending(p)
  BY <1>4, <1>9, <1>13 DEF Sending
<1>14. CASE SendThread
  BY <1>5, <1>10, <1>14 DEF SendThread
<1> QED  BY <1>3, <1>8, <1>11, <1>12, <1>13, <1>14 DEF Next, Stopping

-----------------------------------------------------------------------------
(* Calls of Send *)

(* Between calls, a thread has none. *)
LEMMA IdleCall == Idle \in Call
BY DEF Idle, Call, Labels

(* A thread makes a step of its call, and the others none. *)
LEMMA CallsOne ==
  ASSUME Calls, NEW p \in Threads, NEW q \in Call, tx' = [tx EXCEPT ![p] = q],
         UNCHANGED <<lastId, idHandle>>, CallOK(q), todo' \subseteq Task
  PROVE  Calls'
<1>1. tx' \in [Threads -> Call]
  BY DEF Calls
<1>2. ASSUME NEW r \in Threads
      PROVE  CallOK(tx[r])'
  <2>1. CASE r = p
    <3>1. tx'[r] = q
      BY <2>1 DEF Calls
    <3> QED  BY <3>1 DEF CallOK
  <2>2. CASE r # p
    <3>1. tx'[r] = tx[r]
      BY <2>2 DEF Calls
    <3> QED  BY <3>1 DEF CallOK, Calls
  <2> QED  BY <2>1, <2>2
<1> QED  BY <1>1, <1>2 DEF Calls, CallOK

(* The sessions' client is one that has been accepted. *)
LEMMA OnAnswerMessageCalls ==
  ASSUME Calls, Sessions, NEW p \in Threads, OnAnswerMessage(p)
  PROVE  Calls'
<1>1. PICK req \in todo, good \in BOOLEAN, told \in BOOLEAN :
        LET s == req.sid
            c == mapSessions[s].client
        IN  /\ todo' = todo \ {req}
            /\ IF ~SM!AwaitsAnswer(s) THEN UNCHANGED <<stopVars, smVars, tx, answered, misled>>
               ELSE /\ SM!OnAnswerMessage(s, req.type, good)
                    /\ answered' = answered \ {s}
                    /\ IF told /\ c # req.client
                       THEN misled' = misled \cup {s} /\ UNCHANGED tx
                       ELSE /\ misled' = misled \ {s}
                            /\ tx' = [tx EXCEPT ![p] = [@ EXCEPT !.at = "lookup", !.req = req, !.client = c]]
  BY DEF OnAnswerMessage
<1>2. req \in Task /\ todo' \subseteq Task
  BY <1>1 DEF Calls
<1>3. UNCHANGED <<lastId, idHandle>>
  BY DEF OnAnswerMessage, netVars
<1> DEFINE c == mapSessions[req.sid].client
           q == [tx[p] EXCEPT !.at = "lookup", !.req = req, !.client = c]
<1>4. CASE tx' = tx
  BY <1>2, <1>3, <1>4 DEF Calls, CallOK
<1>5. CASE SM!AwaitsAnswer(req.sid) /\ tx' = [tx EXCEPT ![p] = q]
  <2>1. c \in Ids
    <3>1. mapSessions[req.sid] \in SM!SessionInfo
      BY <1>5 DEF Sessions, SM!AwaitsAnswer
    <3> QED  BY <3>1 DEF SM!SessionInfo
  <2>2. tx[p] \in Call /\ "lookup" \in Labels
    BY DEF Calls, Labels
  <2>3. q.at = "lookup" /\ q.client = c
    BY <2>2 DEF Call
  <2> HIDE DEF c
  <2>4. q \in Call
    BY <1>2, <2>1, <2>2 DEF Call
  <2> HIDE DEF q
  <2>5. CallOK(q)
    BY <2>1, <2>3 DEF CallOK
  <2> QED  BY <1>2, <1>3, <1>5, <2>4, <2>5, CallsOne
<1> QED  BY <1>1, <1>4, <1>5

(* Lookup finds the handle that the client has at that moment. *)
LEMMA SendingCalls ==
  ASSUME Net, Lists, Calls, NEW p \in Threads, Sending(p)
  PROVE  Calls'
<1> USE DEF netVars, queueVars
<1>1. UNCHANGED <<lastId, idHandle>> /\ todo' \subseteq Task
  BY DEF Sending, Lookup, PushAnswer, Signal, Rollback, CheckOverload, OnOverload, Calls
<1>2. tx[p] \in Call /\ CallOK(tx[p])
  BY DEF Calls
<1>3. ASSUME NEW l \in Labels \ {"lookup", "push"}, tx' = [tx EXCEPT ![p].at = l]
      PROVE  Calls'
  <2> DEFINE q == [tx[p] EXCEPT !.at = l]
  <2>1. q \in Call /\ q.at = l
    BY <1>2 DEF Call
  <2>2. tx' = [tx EXCEPT ![p] = q]
    BY <1>3
  <2> HIDE DEF q
  <2>3. CallOK(q)
    BY <2>1 DEF CallOK
  <2> QED  BY <1>1, <2>1, <2>2, <2>3, CallsOne
<1>4. ASSUME tx' = [tx EXCEPT ![p] = Idle]
      PROVE  Calls'
  <2>1. CallOK(Idle)
    BY DEF CallOK, Idle
  <2> QED  BY <1>1, <1>4, <2>1, IdleCall, CallsOne
<1>5. CASE Lookup(p)
  <2> DEFINE c == tx[p].client
             h == idHandle[c]
             q == [tx[p] EXCEPT !.at = "push", !.handle = h]
  <2>1. CASE c \in DOMAIN idHandle
    <3>1. tx' = [tx EXCEPT ![p] = q]
      BY <1>5, <2>1 DEF Lookup
    <3>2. h \in Handles /\ c \in 1 .. lastId
      BY <2>1 DEF Net
    <3>3. c \in Ids
      BY <1>2, <1>5 DEF CallOK, Lookup
    <3>4. q.at = "push" /\ q.client = c /\ q.handle = h
      BY <1>2 DEF Call
    <3> HIDE DEF h, c
    <3>5. q \in Call
      BY <1>2, <3>2 DEF Call, Labels
    <3>6. CallOK(q)
      BY <3>2, <3>3, <3>4 DEF CallOK, h
    <3> HIDE DEF q
    <3> QED  BY <1>1, <3>1, <3>5, <3>6, CallsOne
  <2>2. CASE c \notin DOMAIN idHandle
    <3>1. tx' = [tx EXCEPT ![p].at = "rollback"]
      BY <1>5, <2>2 DEF Lookup
    <3> QED  BY <1>3, <3>1 DEF Labels
  <2> QED  BY <2>1, <2>2
<1>6. CASE PushAnswer(p)
  <2> DEFINE h == tx[p].handle
  <2>1. CASE CanPush(h)
    <3> DEFINE n == Len(packets'[h])
               l == IF unsent' = 1 /\ havingWaiters THEN "signal" ELSE "overload"
               q == [tx[p] EXCEPT !.at = l, !.errNo = n]
    <3>1. tx' = [tx EXCEPT ![p] = q]
      BY <1>6, <2>1 DEF PushAnswer
    <3>2. n \in Nat
      <4>1. Lists'
        BY <1>6, PushAnswerLists
      <4>2. h \in DOMAIN packets'
        BY <1>6, <2>1 DEF PushAnswer, CanPush, Push
      <4>3. packets'[h] \in Seq(PacketType)
        BY <4>1, <4>2 DEF Lists
      <4> QED  BY <4>3
    <3>3. l \in Labels \ {"lookup", "push"}
      BY DEF Labels
    <3> HIDE DEF n, l, h
    <3>4. q \in Call /\ q.at = l
      BY <1>2, <3>2, <3>3 DEF Call
    <3> HIDE DEF q
    <3>5. CallOK(q)
      BY <3>3, <3>4 DEF CallOK
    <3> QED  BY <1>1, <3>1, <3>4, <3>5, CallsOne
  <2>2. CASE ~CanPush(h)
    <3>1. tx' = [tx EXCEPT ![p].at = "rollback"]
      BY <1>6, <2>2 DEF PushAnswer
    <3> QED  BY <1>3, <3>1 DEF Labels
  <2> QED  BY <2>1, <2>2
<1>7. CASE Signal(p)
  BY <1>3, <1>7 DEF Signal, Labels
<1>8. CASE Rollback(p)
  BY <1>4, <1>8 DEF Rollback
<1>9. CASE CheckOverload(p)
  <2>1. CASE Overloads(p)
    <3>1. tx' = [tx EXCEPT ![p].at = "report"]
      BY <1>9, <2>1 DEF CheckOverload
    <3> QED  BY <1>3, <3>1 DEF Labels
  <2>2. CASE ~Overloads(p)
    BY <1>4, <1>9, <2>2 DEF CheckOverload
  <2> QED  BY <2>1, <2>2
<1>10. CASE OnOverload(p)
  BY <1>4, <1>10 DEF OnOverload
<1> QED  BY <1>5, <1>6, <1>7, <1>8, <1>9, <1>10 DEF Sending

(* The handle that a call has found stays its client's while the client has
   one: a number is given once.                                             *)
LEMMA CallsStep ==
  ASSUME Net, Receiving, Lists, Calls, Sessions, [Next]_vars
  PROVE  Calls'
<1> USE DEF netVars, queueVars, stopVars, appVars
<1>1. ASSUME UNCHANGED <<todo, tx>>, lastId' \in {lastId, lastId + 1},
             \A c \in 1 .. lastId : c \in DOMAIN idHandle' =>
               c \in DOMAIN idHandle /\ idHandle'[c] = idHandle[c]
      PROVE  Calls'
  <2>1. 1 .. lastId \subseteq 1 .. lastId'
    BY <1>1 DEF Net
  <2>2. ASSUME NEW p \in Threads
        PROVE  CallOK(tx[p])'
    <3>1. CallOK(tx[p]) /\ tx'[p] = tx[p]
      BY <1>1 DEF Calls
    <3> QED  BY <1>1, <2>1, <3>1 DEF CallOK
  <2> QED  BY <1>1, <2>2 DEF Calls
<1>2. ASSUME NEW h \in Handles, Accept(h)
      PROVE  Calls'
  <2>1. lastId' \notin 1 .. lastId /\ lastId' = lastId + 1
    BY <1>2 DEF Accept, Net
  <2>2. idHandle' = With(idHandle, lastId', h) /\ UNCHANGED <<todo, tx>>
    BY <1>2 DEF Accept
  <2>3. \A c \in 1 .. lastId : c \in DOMAIN idHandle' =>
          c \in DOMAIN idHandle /\ idHandle'[c] = idHandle[c]
    BY <2>1, <2>2 DEF With
  <2> QED  BY <1>1, <2>1, <2>2, <2>3
<1>3. CASE DelConnection
  BY <1>1, <1>3 DEF DelConnection, Without
<1>4. ASSUME NEW h \in Handles, OnReceive(h)
      PROVE  Calls'
  <2>1. handleId[h] \in Ids /\ UNCHANGED <<lastId, idHandle, tx>>
    BY <1>4, ServerAssumption DEF OnReceive, Net, Ids
  <2>2. todo' \subseteq Task
    <3>1. PICK r \in Requests :
            \/ todo' = todo
            \/ todo' = todo \cup {[sid |-> r.sid, type |-> r.type, client |-> handleId[h]]}
      BY <1>4 DEF OnReceive
    <3>2. [sid |-> r.sid, type |-> r.type, client |-> handleId[h]] \in Task
      BY <2>1 DEF Task, Sids
    <3> QED  BY <3>1, <3>2 DEF Calls
  <2> QED  BY <2>1, <2>2 DEF Calls, CallOK
<1>5. CASE \E h \in Handles : HandleDefaultMessages(h) \/ Break(h)
  BY <1>1, <1>5 DEF HandleDefaultMessages, Break
<1>6. CASE OnConnect \/ EraseSessions \/ EraseOverload \/ Close
  BY <1>1, <1>6 DEF OnConnect, EraseSessions, EraseOverload, Close
<1>7. CASE Stopping
  BY <1>1, <1>7 DEF Stopping, StopInput, Disconnect, SendDPR
<1>8. CASE SendThread
  <2>1. UNCHANGED <<todo, tx, lastId, idHandle>>
    BY <1>8 DEF SendThread, Poll, RegisterWaiter, WaitReturns, FillConnectedSet, SelectNone, AllTried,
                SelectReady, SendFromQueue, SendNothing, StepTo
  <2> QED  BY <1>1, <2>1
<1>9. CASE UNCHANGED vars
  BY <1>1, <1>9 DEF vars
<1>10. CASE Receiver
  BY <1>2, <1>3, <1>4, <1>5, <1>6, <1>10 DEF Receiver
<1> QED  BY <1>7, <1>8, <1>9, <1>10, OnAnswerMessageCalls, SendingCalls DEF Next

-----------------------------------------------------------------------------
(* Sessions *)

SessionsTyped == mapSessions \in [DOMAIN mapSessions -> SM!SessionInfo]

(* A request opens its session, or makes it await an answer again. *)
LEMMA RequestStored ==
  ASSUME SessionsTyped, NEW s, NEW c \in Ids, NEW type, SM!OnRequestMessage(s, c, type)
  PROVE  /\ SessionsTyped'
         /\ DOMAIN mapSessions' = DOMAIN mapSessions \cup {s}
         /\ mapSessions'[s].response
         /\ \A t \in DOMAIN mapSessions : t # s => mapSessions'[t] = mapSessions[t]
<1> DEFINE info == IF type \in SM!Opening THEN SM!NewSession(c)
                   ELSE [mapSessions[s] EXCEPT !.response = TRUE]
           stored == [info EXCEPT !.timer = NullTimer]
<1>1. mapSessions' = SM!Put(mapSessions, s, stored)
  BY DEF SM!OnRequestMessage, SM!StoreUntimed
<1>2. stored \in SM!SessionInfo /\ stored.response
  <2>1. CASE type \in SM!Opening
    BY <2>1 DEF SM!NewSession, SM!SessionInfo
  <2>2. CASE type \notin SM!Opening
    <3>1. mapSessions[s] \in SM!SessionInfo
      BY <2>2 DEF SM!OnRequestMessage, SM!SkipsPacket, SessionsTyped
    <3> QED  BY <2>2, <3>1 DEF SM!SessionInfo
  <2> QED  BY <2>1, <2>2
<1> HIDE DEF stored
<1>3. SessionsTyped'
  BY <1>1, <1>2 DEF SM!Put, SessionsTyped
<1> QED  BY <1>1, <1>2, <1>3 DEF SM!Put

(* An answer closes its session's turn, or the session. *)
LEMMA AnswerStored ==
  ASSUME SessionsTyped, NEW s, NEW type, NEW good \in BOOLEAN,
         SM!OnAnswerMessage(s, type, good)
  PROVE  /\ SessionsTyped'
         /\ DOMAIN mapSessions' \subseteq DOMAIN mapSessions
         /\ \A t \in DOMAIN mapSessions' : t # s => mapSessions'[t] = mapSessions[t]
<1>1. s \in DOMAIN mapSessions
  BY DEF SM!OnAnswerMessage, SM!AwaitsAnswer
<1>2. CASE SM!Drop(s)
  BY <1>2 DEF SM!Drop, SM!Without, SessionsTyped
<1>3. CASE ~SM!Drop(s)
  <2> DEFINE info == [mapSessions[s] EXCEPT !.response = FALSE]
             stored == [info EXCEPT !.timer = NullTimer]
  <2>1. mapSessions' = SM!Put(mapSessions, s, stored)
    BY <1>3 DEF SM!OnAnswerMessage, SM!StoreUntimed
  <2>2. stored \in SM!SessionInfo
    BY <1>1 DEF SessionsTyped, SM!SessionInfo
  <2> HIDE DEF stored
  <2> QED  BY <1>1, <2>1, <2>2 DEF SM!Put, SessionsTyped
<1> QED  BY <1>2, <1>3

(* No session has a timer, so those that are erased go at once. *)
LEMMA ErasedAtOnce ==
  ASSUME SessionsTyped, NEW S \in SUBSET DOMAIN mapSessions, SM!Erase(S)
  PROVE  /\ SessionsTyped'
         /\ DOMAIN mapSessions' = DOMAIN mapSessions \ S
         /\ \A t \in DOMAIN mapSessions' : mapSessions'[t] = mapSessions[t]
<1> DEFINE timed == {s \in S : mapSessions[s].timer # NullTimer}
<1>1. timed = {}
  BY DEF SessionsTyped, SM!SessionInfo
<1>2. mapSessions' = [s \in DOMAIN mapSessions \ (S \ timed) |->
                        IF s \in timed THEN [mapSessions[s] EXCEPT !.isActive = FALSE]
                        ELSE mapSessions[s]]
  BY DEF SM!Erase
<1> HIDE DEF timed
<1>3. mapSessions' = [s \in DOMAIN mapSessions \ S |-> mapSessions[s]]
  BY <1>1, <1>2
<1> QED  BY <1>3 DEF SessionsTyped

(* Why a session that awaits no answer is kept. *)
Kept(s) ==
  \/ mapSessions[s].response \/ s \in answered \/ s \in misled
  \/ \E p \in Threads : tx[p].at \in {"lookup", "push", "rollback"} /\ tx[p].req.sid = s

(* The answer's call of Send has begun: it will be queued or rolled back. *)
LEMMA OnAnswerMessageSessions ==
  ASSUME Calls, Sessions, NEW p \in Threads, OnAnswerMessage(p)
  PROVE  Sessions'
<1> USE DEF stopVars, smVars
<1>1. tx[p] = Idle /\ tx \in [Threads -> Call]
  BY DEF OnAnswerMessage, Calls
<1>2. PICK req \in todo, good \in BOOLEAN, told \in BOOLEAN :
        LET s == req.sid
            c == mapSessions[s].client
        IN  IF ~SM!AwaitsAnswer(s) THEN UNCHANGED <<stopVars, smVars, tx, answered, misled>>
            ELSE /\ SM!OnAnswerMessage(s, req.type, good)
                 /\ answered' = answered \ {s}
                 /\ IF told /\ c # req.client
                    THEN misled' = misled \cup {s} /\ UNCHANGED tx
                    ELSE /\ misled' = misled \ {s}
                         /\ tx' = [tx EXCEPT ![p] = [@ EXCEPT !.at = "lookup", !.req = req, !.client = c]]
  BY DEF OnAnswerMessage
<1> DEFINE s == req.sid
<1>3. CASE ~SM!AwaitsAnswer(s)
  BY <1>2, <1>3 DEF Sessions, KeptAnswered
<1>4. CASE SM!AwaitsAnswer(s)
  <2>1. /\ SessionsTyped'
        /\ DOMAIN mapSessions' \subseteq DOMAIN mapSessions
        /\ \A t \in DOMAIN mapSessions' : t # s => mapSessions'[t] = mapSessions[t]
    BY <1>2, <1>4, AnswerStored DEF Sessions, SessionsTyped
  <2>2. \/ misled' = misled \cup {s} /\ tx' = tx
        \/ /\ misled' = misled \ {s}
           /\ tx'[p].at = "lookup" /\ tx'[p].req.sid = s
           /\ \A r \in Threads : r # p => tx'[r] = tx[r]
    <3> DEFINE c == mapSessions[s].client
               q == [tx[p] EXCEPT !.at = "lookup", !.req = req, !.client = c]
    <3>1. CASE told /\ c # req.client
      BY <1>2, <1>4, <3>1
    <3>2. CASE ~(told /\ c # req.client)
      <4>1. misled' = misled \ {s} /\ tx' = [tx EXCEPT ![p] = q]
        BY <1>2, <1>4, <3>2
      <4>2. q.at = "lookup" /\ q.req = req
        BY <1>1 DEF Idle
      <4> HIDE DEF q
      <4> QED  BY <1>1, <4>1, <4>2
    <3> QED  BY <3>1, <3>2
  <2>3. answered' = answered \ {s}
    BY <1>2, <1>4
  <2>4. ASSUME NEW t \in DOMAIN mapSessions'
        PROVE  Kept(t)'
    <3>1. CASE t = s
      BY <2>2, <3>1 DEF Kept
    <3>2. CASE t # s
      <4>1. Kept(t) /\ mapSessions'[t] = mapSessions[t]
        BY <2>1, <3>2 DEF Sessions, KeptAnswered, Kept
      <4>2. \A r \in Threads : tx[r].at \in {"lookup", "push", "rollback"} => tx'[r] = tx[r]
        BY <1>1, <2>2 DEF Idle
      <4> QED  BY <2>2, <2>3, <3>2, <4>1, <4>2 DEF Kept
    <3> QED  BY <3>1, <3>2
  <2> QED  BY <2>1, <2>4 DEF Sessions, SessionsTyped, KeptAnswered, Kept
<1> QED  BY <1>3, <1>4

(* A step of a call leaves the sessions of the other calls alone. *)
LEMMA KeptOthers ==
  ASSUME NEW p \in Threads, NEW s, Kept(s),
         tx[p].req.sid = s =>
           \/ tx'[p].at \in {"lookup", "push", "rollback"} /\ tx'[p].req = tx[p].req
           \/ tx[p].at \notin {"lookup", "push", "rollback"}
           \/ s \in answered',
         \A r \in Threads : r # p => tx'[r] = tx[r],
         mapSessions'[s] = mapSessions[s], answered \subseteq answered', misled' = misled
  PROVE  Kept(s)'
<1>1. CASE mapSessions[s].response \/ s \in answered \/ s \in misled
  BY <1>1 DEF Kept
<1>2. CASE \E r \in Threads : tx[r].at \in {"lookup", "push", "rollback"} /\ tx[r].req.sid = s
  <2>1. PICK r \in Threads : tx[r].at \in {"lookup", "push", "rollback"} /\ tx[r].req.sid = s
    BY <1>2
  <2>2. CASE s \in answered'
    BY <2>2 DEF Kept
  <2>3. CASE tx'[r].at \in {"lookup", "push", "rollback"} /\ tx'[r].req.sid = s
    BY <2>3 DEF Kept
  <2>4. CASE r = p
    BY <2>1, <2>2, <2>3, <2>4
  <2>5. CASE r # p
    BY <2>1, <2>3, <2>5
  <2> QED  BY <2>4, <2>5
<1> QED  BY <1>1, <1>2 DEF Kept

(* An answer that is refused is rolled back with its session. *)
LEMMA SendingSessions ==
  ASSUME Calls, Sessions, NEW p \in Threads, Sending(p)
  PROVE  Sessions'
<1> USE DEF stopVars, smVars
<1> DEFINE Open == {"lookup", "push", "rollback"}
<1>1. tx \in [Threads -> Call] /\ (\A s \in DOMAIN mapSessions : Kept(s)) /\ SessionsTyped
  BY DEF Calls, Sessions, KeptAnswered, Kept, SessionsTyped
<1>2. (\A r \in Threads : r # p => tx'[r] = tx[r]) /\ misled' = misled
  BY <1>1 DEF Sending, Lookup, PushAnswer, Signal, Rollback, CheckOverload, OnOverload
<1>3. ASSUME mapSessions' = mapSessions, answered \subseteq answered',
             \A s \in DOMAIN mapSessions : tx[p].req.sid = s =>
               \/ tx'[p].at \in Open /\ tx'[p].req = tx[p].req
               \/ tx[p].at \notin Open
               \/ s \in answered'
      PROVE  Sessions'
  <2>1. ASSUME NEW s \in DOMAIN mapSessions
        PROVE  Kept(s)'
    BY <1>1, <1>2, <1>3, KeptOthers
  <2> QED  BY <1>3, <2>1 DEF Sessions, KeptAnswered, Kept
<1>4. CASE Lookup(p)
  <2>1. tx'[p].at \in Open /\ tx'[p].req = tx[p].req
    <3>1. CASE tx[p].client \in DOMAIN idHandle
      <4>1. tx'[p] = [tx[p] EXCEPT !.at = "push", !.handle = idHandle[tx[p].client]]
        BY <1>1, <1>4, <3>1 DEF Lookup
      <4> QED  BY <1>1, <4>1 DEF Call
    <3>2. CASE tx[p].client \notin DOMAIN idHandle
      <4>1. tx'[p] = [tx[p] EXCEPT !.at = "rollback"]
        BY <1>1, <1>4, <3>2 DEF Lookup
      <4> QED  BY <1>1, <4>1 DEF Call
    <3> QED  BY <3>1, <3>2
  <2> QED  BY <1>3, <1>4, <2>1 DEF Lookup
<1>5. CASE PushAnswer(p)
  <2>1. CASE CanPush(tx[p].handle)
    <3>1. answered' = answered \cup {tx[p].req.sid} /\ mapSessions' = mapSessions
      BY <1>5, <2>1 DEF PushAnswer
    <3> QED  BY <1>3, <3>1
  <2>2. CASE ~CanPush(tx[p].handle)
    <3>1. tx'[p] = [tx[p] EXCEPT !.at = "rollback"]
      BY <1>1, <1>5, <2>2 DEF PushAnswer
    <3>2. tx'[p].at \in Open /\ tx'[p].req = tx[p].req
      BY <1>1, <3>1 DEF Call
    <3> QED  BY <1>3, <1>5, <2>2, <3>2 DEF PushAnswer
  <2> QED  BY <2>1, <2>2
<1>6. CASE Signal(p) \/ CheckOverload(p) \/ OnOverload(p)
  BY <1>3, <1>6 DEF Signal, CheckOverload, OnOverload
<1>7. CASE Rollback(p)
  <2> DEFINE t == tx[p].req.sid
  <2>1. /\ SessionsTyped'
        /\ DOMAIN mapSessions' = DOMAIN mapSessions \ {t}
        /\ \A s \in DOMAIN mapSessions' : mapSessions'[s] = mapSessions[s]
    <3>1. CASE t \in DOMAIN mapSessions /\ SM!Erase({t})
      BY <1>1, <3>1, ErasedAtOnce
    <3>2. CASE t \notin DOMAIN mapSessions /\ UNCHANGED smVars
      BY <1>1, <3>2 DEF SessionsTyped
    <3> QED  BY <1>7, <3>1, <3>2 DEF Rollback, SM!EraseSession
  <2>2. answered' = answered
    BY <1>7 DEF Rollback
  <2>3. ASSUME NEW s \in DOMAIN mapSessions'
        PROVE  Kept(s)'
    BY <1>1, <1>2, <2>1, <2>2, KeptOthers
  <2> QED  BY <2>1, <2>3 DEF Sessions, SessionsTyped, KeptAnswered, Kept
<1> QED  BY <1>4, <1>5, <1>6, <1>7 DEF Sending

(* No step leaves behind a session whose answer was not queued. *)
LEMMA SessionsStep ==
  ASSUME Net, Calls, Sessions, [Next]_vars
  PROVE  Sessions'
<1> USE DEF netVars, queueVars, stopVars, appVars, smVars
<1>1. ASSUME UNCHANGED <<mapSessions, tx, answered, misled>>
      PROVE  Sessions'
  BY <1>1 DEF Sessions, KeptAnswered
<1>2. ASSUME NEW h \in Handles, OnReceive(h)
      PROVE  Sessions'
  <2>1. UNCHANGED <<tx, answered, misled>>
    BY <1>2 DEF OnReceive
  <2>2. PICK r \in Requests :
          \/ mapSessions' = mapSessions
          \/ SM!OnRequestMessage(r.sid, handleId[h], r.type)
    BY <1>2 DEF OnReceive
  <2>3. handleId[h] \in Ids
    BY <1>2, ServerAssumption DEF OnReceive, Net, Ids
  <2>4. CASE mapSessions' = mapSessions
    BY <1>1, <2>1, <2>4
  <2>5. CASE SM!OnRequestMessage(r.sid, handleId[h], r.type)
    <3>1. /\ SessionsTyped'
          /\ DOMAIN mapSessions' = DOMAIN mapSessions \cup {r.sid}
          /\ mapSessions'[r.sid].response
          /\ \A t \in DOMAIN mapSessions : t # r.sid => mapSessions'[t] = mapSessions[t]
      BY <2>3, <2>5, RequestStored DEF Sessions, SessionsTyped
    <3>2. ASSUME NEW s \in DOMAIN mapSessions'
          PROVE  Kept(s)'
      <4>1. CASE s = r.sid
        BY <3>1, <4>1 DEF Kept
      <4>2. CASE s # r.sid
        BY <2>1, <3>1, <4>2 DEF Kept, Sessions, KeptAnswered
      <4> QED  BY <4>1, <4>2
    <3> QED  BY <3>1, <3>2 DEF Sessions, SessionsTyped, KeptAnswered, Kept
  <2> QED  BY <2>2, <2>4, <2>5
<1>3. CASE EraseSessions
  <2> DEFINE S == {s \in DOMAIN mapSessions : mapSessions[s].client = rx.client}
  <2>1. /\ SessionsTyped'
        /\ DOMAIN mapSessions' = DOMAIN mapSessions \ S
        /\ \A s \in DOMAIN mapSessions' : mapSessions'[s] = mapSessions[s]
    BY <1>3, ErasedAtOnce DEF EraseSessions, SM!EraseSessions, Sessions, SessionsTyped
  <2>2. UNCHANGED <<tx, answered, misled>>
    BY <1>3 DEF EraseSessions
  <2> QED  BY <2>1, <2>2 DEF Sessions, SessionsTyped, KeptAnswered
<1>4. CASE \E h \in Handles : Accept(h) \/ HandleDefaultMessages(h) \/ Break(h)
  BY <1>1, <1>4 DEF Accept, HandleDefaultMessages, Break
<1>5. CASE OnConnect \/ EraseOverload \/ DelConnection \/ Close
  BY <1>1, <1>5 DEF OnConnect, EraseOverload, DelConnection, Close
<1>6. CASE Stopping
  BY <1>1, <1>6 DEF Stopping, StopInput, Disconnect, SendDPR
<1>7. CASE SendThread
  <2>1. UNCHANGED <<mapSessions, tx, answered, misled>>
    BY <1>7 DEF SendThread, Poll, RegisterWaiter, WaitReturns, FillConnectedSet, SelectNone, AllTried,
                SelectReady, SendFromQueue, SendNothing, StepTo
  <2> QED  BY <1>1, <2>1
<1>8. CASE UNCHANGED vars
  BY <1>1, <1>8 DEF vars
<1>9. CASE Receiver
  BY <1>2, <1>3, <1>4, <1>5, <1>9 DEF Receiver
<1> QED  BY <1>6, <1>7, <1>8, <1>9, OnAnswerMessageSessions, SendingSessions DEF Next

-----------------------------------------------------------------------------
(* What is written *)

(* A packet that did not come late is written to the client it is meant for:
   the list it is taken from is that of the client's open connection.       *)
LEMMA WireStep ==
  ASSUME Net, Lists, ToItsClient, [Next]_vars
  PROVE  ToItsClient'
<1>1. CASE wire' = wire
  BY <1>1 DEF ToItsClient
<1>2. ASSUME NEW h \in Handles, SendFromQueue(h)
      PROVE  ToItsClient'
  <2> DEFINE q == packets[h]
  <2>1. h \in DOMAIN packets /\ q # <<>> /\ q \in Seq(PacketType)
    BY <1>2 DEF SendFromQueue, Lists
  <2>2. Head(q) = q[1] /\ 1 \in DOMAIN q
    BY <2>1
  <2>3. Head(q).late \/ Head(q).to = handleId[h]
    BY <2>1, <2>2 DEF Lists
  <2>4. handleId[h] = sockets[h]
    BY <2>1 DEF Net
  <2>5. wire' = wire \cup {[to |-> sockets[h], packet |-> Head(q)]}
    BY <1>2 DEF SendFromQueue
  <2> HIDE DEF q
  <2> QED  BY <2>3, <2>4, <2>5 DEF ToItsClient
<1>3. (\E h \in Handles : SendFromQueue(h)) \/ wire' = wire
  <2>1. CASE Receiver
    BY <2>1 DEF Receiver, Accept, HandleDefaultMessages, OnReceive, Break, OnConnect, EraseSessions,
                EraseOverload, DelConnection, Close
  <2>2. CASE Stopping
    BY <2>2 DEF Stopping, StopInput, Disconnect, SendDPR
  <2>3. CASE \E p \in Threads : OnAnswerMessage(p) \/ Sending(p)
    BY <2>3 DEF OnAnswerMessage, Sending, Lookup, PushAnswer, Signal, Rollback, CheckOverload, OnOverload
  <2>4. CASE SendThread
    BY <2>4 DEF SendThread, Poll, RegisterWaiter, WaitReturns, FillConnectedSet, SelectNone, AllTried,
                SelectReady, SendNothing
  <2>5. CASE UNCHANGED vars
    BY <2>5 DEF vars
  <2> QED  BY <2>1, <2>2, <2>3, <2>4, <2>5 DEF Next
<1> QED  BY <1>1, <1>2, <1>3

-----------------------------------------------------------------------------
(* The server *)

(* At the start there are no clients, lists, calls or sessions. *)
LEMMA InitIInv == Init => IInv
<1> SUFFICES ASSUME Init PROVE IInv
  OBVIOUS
<1> USE DEF Init
<1>1. Net
  BY ServerAssumption DEF Net, ClientsLocked
<1>2. Receiving
  <2>1. rx = Listening /\ Listening.at = "select" /\ DOMAIN idHandle = {}
    BY DEF Listening
  <2> QED  BY <2>1 DEF Receiving, Breaking
<1>3. Lists
  <2>1. Places = {}
    BY DEF Places
  <2>2. IsFiniteSet({}) /\ Cardinality({}) = 0
    BY FS_EmptySet
  <2>3. packets \in [DOMAIN packets -> Seq(PacketType)]
    OBVIOUS
  <2> QED  BY <2>1, <2>2, <2>3 DEF Lists, UnsentCounted
<1>4. Calls
  BY IdleCall DEF Calls, CallOK, Idle
<1>5. Sessions
  BY DEF Sessions, KeptAnswered, SM!Init
<1> QED  BY <1>1, <1>2, <1>3, <1>4, <1>5 DEF IInv, ToItsClient

(* Each part of the invariant relies on the others. *)
LEMMA StepIInv == IInv /\ [Next]_vars => IInv'
BY NetStep, ListsStep, CallsStep, SessionsStep, WireStep DEF IInv

(* The inductive invariant holds of every behaviour of the server. *)
THEOREM Invariance == Spec => []IInv
BY InitIInv, StepIInv, PTL DEF Spec

(* The transport's maps are inverse to each other and have a list for each
   handle, none longer than the limit.                                      *)
THEOREM TypeCorrect == Spec => []TypeOK
<1>1. IInv => TypeOK
  BY DEF IInv, Net, Lists, TypeOK
<1> QED  BY <1>1, Invariance, PTL

(* The branches of DiameterServer.cpp marked "must not enter" are not entered. *)
THEOREM MustNotEnterHolds == Spec => []MustNotEnter
<1>1. IInv => MustNotEnter
  <2> SUFFICES ASSUME IInv PROVE MustNotEnter
    OBVIOUS
  <2>1. rx.at = "OnConnect" => rx.client \notin clients /\ rx.client \notin DOMAIN overload
    BY DEF IInv, Receiving
  <2>2. ASSUME rx = Listening, NEW h \in DOMAIN handleId
        PROVE  handleId[h] \in clients /\ handleId[h] \in DOMAIN overload
    BY <2>2 DEF IInv, Net, Receiving, Listening, Breaking
  <2> QED  BY <2>1, <2>2 DEF MustNotEnter
<1> QED  BY <1>1, Invariance, PTL

(* No client is sent what was queued for another, however handles are reused,
   but for a packet that was queued after its client had gone.              *)
THEOREM ToItsClientHolds == Spec => []ToItsClient
<1>1. IInv => ToItsClient
  BY DEF IInv
<1> QED  BY <1>1, Invariance, PTL

(* m_unsentPacketsCount is the number of packets in all lists. *)
THEOREM UnsentCountedHolds == Spec => []UnsentCounted
<1>1. IInv => UnsentCounted
  BY DEF IInv, Lists
<1> QED  BY <1>1, Invariance, PTL

(* A session is kept as answered only when its answer was queued, is about to
   be queued or rolled back, or was meant for another client.               *)
THEOREM KeptAnsweredHolds == Spec => []KeptAnswered
<1>1. IInv => KeptAnswered
  BY DEF IInv, Sessions
<1> QED  BY <1>1, Invariance, PTL

-----------------------------------------------------------------------------
(* The session manager of the server *)

(* A call of Send that has begun is about a request of the application's. *)
Asked == \A p \in Threads : tx[p].at # "idle" => tx[p].req \in Task

(* The calls keep the request they have begun with. *)
LEMMA AskedStep ==
  ASSUME Calls, Asked, [Next]_vars
  PROVE  Asked'
<1> USE DEF Asked
<1>1. CASE tx' = tx
  BY <1>1
<1>2. ASSUME NEW p \in Threads, NEW q, tx' = [tx EXCEPT ![p] = q],
             q.at # "idle" => q.req \in Task
      PROVE  Asked'
  BY <1>2 DEF Calls
<1>3. ASSUME NEW p \in Threads, OnAnswerMessage(p)
      PROVE  Asked'
  <2>1. CASE tx' = tx
    BY <2>1
  <2>2. ASSUME NEW req \in todo, NEW c,
               tx' = [tx EXCEPT ![p] = [tx[p] EXCEPT !.at = "lookup", !.req = req, !.client = c]]
        PROVE  Asked'
    <3>1. [tx[p] EXCEPT !.at = "lookup", !.req = req, !.client = c].req = req /\ req \in Task
      BY DEF Calls, Call
    <3> QED  BY <1>2, <2>2, <3>1
  <2> QED  BY <1>3, <2>1, <2>2 DEF OnAnswerMessage
<1>4. ASSUME NEW p \in Threads, Sending(p)
      PROVE  Asked'
  <2>1. tx[p] \in Call /\ tx[p].at # "idle" /\ tx[p].req \in Task
    <3>1. tx[p].at # "idle"
      BY <1>4 DEF Sending, Lookup, PushAnswer, Signal, Rollback, CheckOverload, OnOverload
    <3> QED  BY <3>1 DEF Calls
  <2>2. tx \in [Threads -> Call] /\ \A q \in Call : DOMAIN q = {"at", "req", "client", "handle", "errNo"}
    BY DEF Calls, Call
  <2>3. /\ \A u \in Threads : u # p => tx'[u] = tx[u]
        /\ tx'[p].req = tx[p].req \/ tx'[p] = Idle
    <3>1. CASE Lookup(p)
      <4>1. CASE tx[p].client \in DOMAIN idHandle
        BY <2>1, <2>2, <3>1, <4>1 DEF Lookup
      <4>2. CASE tx[p].client \notin DOMAIN idHandle
        BY <2>1, <2>2, <3>1, <4>2 DEF Lookup
      <4> QED  BY <4>1, <4>2
    <3>2. CASE PushAnswer(p)
      <4>1. CASE CanPush(tx[p].handle)
        <5>1. PICK a, e : a = (IF unsent' = 1 /\ havingWaiters THEN "signal" ELSE "overload")
                            /\ e = Len(packets'[tx[p].handle])
          OBVIOUS
        <5>2. tx' = [tx EXCEPT ![p] = [tx[p] EXCEPT !.at = a, !.errNo = e]]
          BY <3>2, <4>1, <5>1, Zenon DEF PushAnswer
        <5> QED  BY <2>1, <2>2, <5>2
      <4>2. CASE ~CanPush(tx[p].handle)
        BY <2>1, <2>2, <3>2, <4>2 DEF PushAnswer
      <4> QED  BY <4>1, <4>2
    <3>3. CASE Signal(p)
      BY <2>1, <2>2, <3>3 DEF Signal
    <3>4. CASE Rollback(p) \/ OnOverload(p)
      BY <2>2, <3>4 DEF Rollback, OnOverload
    <3>5. CASE CheckOverload(p)
      BY <2>1, <2>2, <3>5 DEF CheckOverload
    <3> QED  BY <1>4, <3>1, <3>2, <3>3, <3>4, <3>5 DEF Sending
  <2> QED  BY <2>1, <2>3 DEF Idle
<1>5. tx' = tx \/ \E p \in Threads : OnAnswerMessage(p) \/ Sending(p)
  <2>1. CASE Receiver
    BY <2>1 DEF Receiver, Accept, HandleDefaultMessages, OnReceive, Break, OnConnect, EraseSessions,
                EraseOverload, DelConnection, Close, appVars
  <2>2. CASE Stopping
    BY <2>2 DEF Stopping, StopInput, Disconnect, SendDPR, appVars
  <2>3. CASE SendThread
    BY <2>3 DEF SendThread, Poll, RegisterWaiter, WaitReturns, FillConnectedSet, SelectNone, AllTried,
                SelectReady, SendFromQueue, SendNothing, StepTo, appVars
  <2>4. CASE UNCHANGED vars
    BY <2>4 DEF vars, appVars
  <2> QED  BY <2>1, <2>2, <2>3, <2>4 DEF Next
<1> QED  BY <1>1, <1>3, <1>4, <1>5

(* Every step of the server is a step of its session manager, or none. *)
LEMMA DrivesStep ==
  ASSUME IInv, Asked, [Next]_vars
  PROVE  [SM!Next]_(SM!vars)
<1> USE DEF IInv, smVars, SM!vars, SM!timerVars, SM!counters, SM!threadVars
<1>0. /\ DOMAIN idHandle \subseteq Ids
      /\ \A q \in Task : q.sid \in Sids /\ q.type \in SM!RequestTypes
  BY RequestsAssumption, ServerAssumption DEF Net, Ids, Task
<1>1. CASE Receiver
  <2>1. ASSUME NEW h \in Handles, OnReceive(h)
        PROVE  [SM!Next]_(SM!vars)
    <3>1. handleId[h] \in Ids
      BY <1>0, <2>1 DEF OnReceive, Net
    <3>2. UNCHANGED smVars \/ \E r \in Requests : SM!OnRequestMessage(r.sid, handleId[h], r.type)
      BY <2>1 DEF OnReceive
    <3>3. \A r \in Requests : r.sid \in Sids /\ r.type \in SM!RequestTypes
      BY RequestsAssumption DEF Sids
    <3> QED  BY <3>1, <3>2, <3>3 DEF SM!Next
  <2>2. CASE EraseSessions
    <3>1. rx.client \in Ids
      BY <1>0, <2>2 DEF EraseSessions, Receiving, Breaking
    <3> QED  BY <2>2, <3>1 DEF EraseSessions, SM!Next
  <2>3. CASE UNCHANGED smVars
    BY <2>3
  <2> QED
    BY <1>1, <2>1, <2>2, <2>3
       DEF Receiver, Accept, HandleDefaultMessages, Break, OnConnect, EraseOverload, DelConnection, Close
<1>2. CASE Stopping
  BY <1>2 DEF Stopping, StopInput, Disconnect, SendDPR
<1>3. ASSUME NEW p \in Threads, OnAnswerMessage(p)
      PROVE  [SM!Next]_(SM!vars)
  <2>1. \/ UNCHANGED smVars
        \/ \E req \in todo, good \in BOOLEAN : SM!OnAnswerMessage(req.sid, req.type, good)
    BY <1>3 DEF OnAnswerMessage
  <2>2. \A req \in todo : req.sid \in Sids /\ req.type \in SM!RequestTypes
    BY <1>0 DEF Calls
  <2> QED  BY <2>1, <2>2 DEF SM!Next
<1>4. ASSUME NEW p \in Threads, Sending(p)
      PROVE  [SM!Next]_(SM!vars)
  <2>1. CASE Rollback(p)
    <3>1. tx[p].req.sid \in Sids
      BY <1>0, <2>1 DEF Rollback, Asked
    <3> QED  BY <2>1, <3>1 DEF Rollback, SM!Next
  <2>2. CASE ~Rollback(p)
    BY <1>4, <2>2 DEF Sending, Lookup, PushAnswer, Signal, CheckOverload, OnOverload
  <2> QED  BY <2>1, <2>2
<1>5. CASE SendThread
  BY <1>5 DEF SendThread, Poll, RegisterWaiter, WaitReturns, FillConnectedSet, SelectNone, AllTried,
              SelectReady, SendFromQueue, SendNothing, StepTo
<1>6. CASE UNCHANGED vars
  BY <1>6 DEF vars
<1> QED  BY <1>1, <1>2, <1>3, <1>4, <1>5, <1>6 DEF Next

(* The server calls nothing of its session manager out of turn: its receive
   thread, its callbacks and the threads that answer make a behaviour of
   SessionManager, of which all holds that is proved of that.               *)
THEOREM DrivesSessionManager == Spec => SM!Spec
<1>1. Init => SM!Init /\ Asked
  BY DEF Init, Asked, Idle
<1>2. IInv /\ Asked /\ [Next]_vars => Asked' /\ [SM!Next]_(SM!vars)
  BY AskedStep, DrivesStep DEF IInv
<1> QED  BY <1>1, <1>2, Invariance, PTL DEF Spec, SM!Spec
============================================================================
