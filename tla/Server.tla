------------------------------- MODULE Server -------------------------------
(***************************************************************************)
(* The Diameter server: CDiameterServer over CServerTransport, with a      *)
(* CSessionManager.  One thread accepts, reads and closes connections; the *)
(* application's threads answer requests; the send thread writes what they *)
(* have queued; one more stops the input and tells the clients to          *)
(* disconnect.  They share the transport's maps (m_Mutex), the packet      *)
(* lists (m_PacketsMutex), the overload map and the sessions.  A client is *)
(* known by its number, which is never reused; its connection by the       *)
(* handle of the socket, which the kernel reuses once it is closed.        *)
(***************************************************************************)
EXTENDS Integers, Sequences, FiniteSets

CONSTANTS
  Handles,          \* socket handles
  Requests,         \* [sid, type] of the CCRs clients send
  Threads,          \* the application's threads
  None,             \* no handle, no packet
  MaxQueueSize,     \* m_maxQueueSize
  MaxId,            \* bound: connections accepted
  MaxRequests,      \* bound: CCRs and base-protocol requests received
  NullTimer, Uninit \* SessionManager's

ASSUME ServerAssumption == {MaxQueueSize, MaxId} \subseteq Nat

VARIABLES
  mapSessions, timersMap, count, created, cancelled, triggered, notifications,
  delivered, pc, currentTime, batch, now, lastHeard   \* SessionManager's

Sids == {r.sid : r \in Requests}
Ids == 1..MaxId

(* The server's timeouts are 0 unless set: no session has a timer.         *)
SM == INSTANCE SessionManager WITH
        Clients <- Ids, TimerIds <- {}, ResponseTimeout <- 0, SessionTimeout <- 0,
        BatchSize <- 1, MaxTime <- 0, MaxCreated <- 0

ASSUME RequestsAssumption == \A r \in Requests : r.type \in SM!RequestTypes

VARIABLES
  sockets,          \* the kernel's: handle -> the client at its other end
  lastId,           \* m_Id
  idHandle,         \* m_mapIdHandle
  handleId,         \* m_mapHandleId
  packets,          \* m_mapHandleToPackets
  unsent,           \* m_unsentPacketsCount
  clients,          \* the keys of m_mapClients
  overload,         \* m_mapOverload
  receiveOn,        \* m_FlagReceiveOn
  disconnect,       \* the thread in Disconnect: [at, the clients to be told]
  received,         \* requests received so far
  rx,               \* where the receiving thread is, and with which client
  todo,             \* requests handed to the application: [sid, type, client]
  tx,               \* where each of its threads is in Send
  sender,           \* where the send thread is
  setHandles,       \* its m_setHandles
  vecHandles,       \* its m_vecHandles
  havingWaiters, event,
  wire,             \* history: the packets written, with who got them
  answered,         \* history: the sessions whose last answer was queued
  misled            \* history: sessions that took another client's answer

smVars == <<mapSessions, timersMap, count, created, cancelled, triggered,
            notifications, delivered, pc, currentTime, batch, now, lastHeard>>
netVars == <<sockets, lastId, idHandle, handleId, clients>>
queueVars == <<packets, unsent, havingWaiters>>
senderVars == <<sender, vecHandles>>
appVars == <<todo, tx, answered, misled>>
stopVars == <<receiveOn, disconnect>>
vars == <<smVars, netVars, queueVars, senderVars, appVars, overload, received, rx,
          setHandles, event, wire, stopVars>>

Idle == [at |-> "idle", req |-> None, client |-> None, handle |-> None, errNo |-> 0]
Listening == [at |-> "select", client |-> None, handle |-> None]

Init ==
  /\ SM!Init
  /\ sockets = <<>> /\ lastId = 0 /\ idHandle = <<>> /\ handleId = <<>>
  /\ packets = <<>> /\ unsent = 0 /\ clients = {} /\ overload = <<>> /\ received = 0
  /\ rx = Listening /\ todo = {} /\ tx = [p \in Threads |-> Idle]
  /\ sender = "WaitForSendQueue" /\ setHandles = {} /\ vecHandles = {}
  /\ havingWaiters = FALSE /\ event = FALSE
  /\ receiveOn = TRUE /\ disconnect = [at |-> "idle", left |-> {}]
  /\ wire = {} /\ answered = {} /\ misled = {}

(* f with x mapped to v, and f without x.                                  *)
With(f, x, v) == [y \in DOMAIN f \cup {x} |-> IF y = x THEN v ELSE f[y]]
Without(f, x) == [y \in DOMAIN f \ {x} |-> f[y]]

----------------------------------------------------------------------------
(* CServerTransport::svc and the callbacks it makes.                       *)

(* Disconnect holds m_Mutex of the server while it tells the clients.      *)
ClientsLocked == disconnect.at = "SendDPR"

(* accept, AddConnection                                                   *)
Accept(h) ==
  /\ rx = Listening
  /\ h \notin DOMAIN sockets /\ lastId < MaxId
  /\ lastId' = lastId + 1
  /\ sockets' = With(sockets, h, lastId')
  /\ idHandle' = With(idHandle, lastId', h)
  /\ handleId' = With(handleId, h, lastId')
  /\ packets' = With(packets, h, <<>>)
  /\ setHandles' = setHandles \cup {h}
  /\ rx' = [at |-> "OnConnect", client |-> lastId', handle |-> h]
  /\ UNCHANGED <<stopVars, smVars, clients, unsent, havingWaiters, senderVars, appVars, overload,
                 received, event, wire>>

OnConnect_Unlisted ==   \* faulty: no entry in the overload map
  /\ rx.at = "OnConnect" /\ ~ClientsLocked
  /\ clients' = clients \cup {rx.client}
  /\ rx' = Listening
  /\ UNCHANGED <<stopVars, smVars, sockets, lastId, idHandle, handleId, queueVars, senderVars, appVars, overload, received, setHandles,
                 event, wire>>

(* The client is entered in both maps, each under its own mutex.           *)
OnConnect ==
  /\ rx.at = "OnConnect" /\ ~ClientsLocked
  /\ clients' = clients \cup {rx.client}
  /\ overload' = With(overload, rx.client, FALSE)
  /\ rx' = Listening
  /\ UNCHANGED <<stopVars, smVars, sockets, lastId, idHandle, handleId, queueVars, senderVars, appVars,
                 received, setHandles, event, wire>>

(* What Send puts at the end of a client's list.                           *)
Packet(c, late) == [to |-> c, late |-> late]

CanPush(h) == h \in DOMAIN packets /\ Len(packets[h]) < MaxQueueSize

Push(h, packet) ==
  /\ packets' = [packets EXCEPT ![h] = Append(@, packet)]
  /\ unsent' = unsent + 1
  /\ havingWaiters' = FALSE

(* A CER or DWR is answered by the receiving thread; when the list is full *)
(* the answer is lost.                                                     *)
HandleDefaultMessages(h) ==
  /\ rx = Listening /\ received < MaxRequests /\ ~ClientsLocked
  /\ h \in DOMAIN handleId
  /\ received' = received + 1
  /\ IF CanPush(h)
     THEN /\ Push(h, Packet(handleId[h], FALSE))
          /\ event' = (event \/ (unsent' = 1 /\ havingWaiters))
     ELSE UNCHANGED <<queueVars, event>>
  /\ UNCHANGED <<stopVars, smVars, netVars, senderVars, appVars, overload, rx, setHandles, wire>>

(* An overloaded client opens no session, and after StopInput nobody sends *)
(* the application anything; the session manager has the session by then.  *)
CheckDeliver(c, type) == receiveOn /\ ~(overload[c] /\ type = "INITIAL")

OnReceive(h) ==
  /\ rx = Listening /\ received < MaxRequests /\ ~ClientsLocked
  /\ h \in DOMAIN handleId
  /\ received' = received + 1
  /\ \E r \in Requests :
       IF SM!SkipsPacket(r.sid, handleId[h], r.type)
       THEN UNCHANGED <<stopVars, smVars, todo>>
       ELSE /\ SM!OnRequestMessage(r.sid, handleId[h], r.type)
            /\ todo' = IF CheckDeliver(handleId[h], r.type)
                       THEN todo \cup {[sid |-> r.sid, type |-> r.type, client |-> handleId[h]]} ELSE todo
  /\ UNCHANGED <<stopVars, netVars, queueVars, senderVars, tx, answered, misled, overload, rx, setHandles,
                 event, wire>>

(* The peer has closed the connection, is inactive or has sent too much:   *)
(* CDiameterServer::OnBreak, DelConnection, close.                         *)
Break(h) ==
  /\ rx = Listening /\ ~ClientsLocked
  /\ h \in DOMAIN handleId
  /\ clients' = clients \ {handleId[h]}
  /\ rx' = [at |-> "EraseSessions", client |-> handleId[h], handle |-> h]
  /\ UNCHANGED <<stopVars, smVars, sockets, lastId, idHandle, handleId, queueVars, senderVars, appVars, overload,
                 received, setHandles, event, wire>>

EraseSessions ==
  /\ rx.at = "EraseSessions"
  /\ SM!EraseSessions(rx.client)
  /\ rx' = [rx EXCEPT !.at = "overload"]
  /\ UNCHANGED <<stopVars, netVars, queueVars, senderVars, appVars, overload, received, setHandles, event, wire>>

EraseOverload ==
  /\ rx.at = "overload"
  /\ overload' = Without(overload, rx.client)
  /\ rx' = [rx EXCEPT !.at = "DelConnection"]
  /\ UNCHANGED <<stopVars, smVars, netVars, queueVars, senderVars, appVars, received, setHandles, event, wire>>

DelConnection_KeepsId ==   \* faulty: the client's number still leads to the handle
  /\ rx.at = "DelConnection"
  /\ handleId' = Without(handleId, rx.handle)
  /\ unsent' = unsent - Len(packets[rx.handle])
  /\ packets' = Without(packets, rx.handle)
  /\ setHandles' = setHandles \ {rx.handle}
  /\ rx' = [rx EXCEPT !.at = "close"]
  /\ UNCHANGED <<stopVars, smVars, sockets, lastId, idHandle, clients, havingWaiters, senderVars, appVars, overload,
                 received, event, wire>>

DelConnection ==
  /\ rx.at = "DelConnection"
  /\ idHandle' = Without(idHandle, rx.client)
  /\ handleId' = Without(handleId, rx.handle)
  /\ unsent' = unsent - Len(packets[rx.handle])
  /\ packets' = Without(packets, rx.handle)
  /\ setHandles' = setHandles \ {rx.handle}
  /\ rx' = [rx EXCEPT !.at = "close"]
  /\ UNCHANGED <<stopVars, smVars, sockets, lastId, clients, havingWaiters, senderVars, appVars, overload,
                 received, event, wire>>

Close ==
  /\ rx.at = "close"
  /\ sockets' = Without(sockets, rx.handle)
  /\ rx' = Listening
  /\ UNCHANGED <<stopVars, smVars, lastId, idHandle, handleId, clients, queueVars, senderVars, appVars, overload,
                 received, setHandles, event, wire>>

Receiver ==
  \/ \E h \in Handles : Accept(h) \/ HandleDefaultMessages(h) \/ OnReceive(h) \/ Break(h)
  \/ OnConnect \/ EraseSessions \/ EraseOverload \/ DelConnection \/ Close
----------------------------------------------------------------------------
(* StopInput and Disconnect, by the thread that ends the server.           *)

StopInput ==
  /\ receiveOn
  /\ receiveOn' = FALSE
  /\ UNCHANGED <<smVars, netVars, queueVars, senderVars, appVars, overload, received, rx, setHandles,
                 event, wire, disconnect>>

(* Bound: once, and only after StopInput.                                  *)
Disconnect ==
  /\ disconnect.at = "idle" /\ ~receiveOn
  /\ clients # {}
  /\ disconnect' = [at |-> "SendDPR", left |-> clients]
  /\ UNCHANGED <<smVars, netVars, queueVars, senderVars, appVars, overload, received, rx, setHandles,
                 event, wire, receiveOn>>

(* A DPR goes to every client, in the order of their numbers; a full list  *)
(* loses it.  Then Disconnected() is true, though no DPA has come: nothing *)
(* is ever entered in the map whose size it compares with the clients'.    *)
SendDPR ==
  /\ ClientsLocked
  /\ \E c \in disconnect.left :
       LET left == disconnect.left \ {c}
       IN  /\ \A d \in left : c < d
           /\ disconnect' = [at |-> IF left = {} THEN "done" ELSE "SendDPR", left |-> left]
           /\ IF CanPush(idHandle[c])
              THEN /\ Push(idHandle[c], Packet(c, FALSE))
                   /\ event' = (event \/ (unsent' = 1 /\ havingWaiters))
              ELSE UNCHANGED <<queueVars, event>>
  /\ UNCHANGED <<smVars, netVars, senderVars, appVars, overload, received, rx, setHandles, wire, receiveOn>>

Stopping == StopInput \/ Disconnect \/ SendDPR

----------------------------------------------------------------------------
(* CDiameterServer::Send, by the application's threads.                    *)

(* The session gives the client.  The overload of Send that is told the    *)
(* client gives up when it is another one, and the session stays answered. *)
OnAnswerMessage(p) ==
  /\ tx[p] = Idle
  /\ \E req \in todo, good \in BOOLEAN, told \in BOOLEAN :
       LET s == req.sid
           c == mapSessions[s].client
       IN  /\ todo' = todo \ {req}
           /\ IF ~SM!AwaitsAnswer(s) THEN UNCHANGED <<stopVars, smVars, tx, answered, misled>>
              ELSE /\ SM!OnAnswerMessage(s, req.type, good)
                   /\ answered' = answered \ {s}
                   /\ IF told /\ c # req.client
                      THEN misled' = misled \cup {s} /\ UNCHANGED tx
                      ELSE /\ misled' = misled \ {s}
                           /\ tx' = [tx EXCEPT ![p] = [@ EXCEPT !.at = "lookup", !.req = req, !.client = c]]
  /\ UNCHANGED <<stopVars, netVars, queueVars, senderVars, overload, received, rx, setHandles, event, wire>>

(* CServerTransport::Send finds the handle under one mutex ...             *)
Lookup(p) ==
  /\ tx[p].at = "lookup"
  /\ tx' = [tx EXCEPT ![p] = IF @.client \in DOMAIN idHandle
                             THEN [@ EXCEPT !.at = "push", !.handle = idHandle[tx[p].client]]
                             ELSE [@ EXCEPT !.at = "rollback"]]
  /\ UNCHANGED <<stopVars, smVars, netVars, queueVars, senderVars, todo, answered, misled, overload, received, rx,
                 setHandles, event, wire>>

PushAnswer_Overfills(p) ==   \* faulty: the limit is not looked at
  /\ tx[p].at = "push"
  /\ LET h == tx[p].handle
         c == tx[p].client
     IN  IF h \in DOMAIN packets
         THEN /\ Push(h, Packet(c, c \notin DOMAIN idHandle))
              /\ answered' = answered \cup {tx[p].req.sid}
              /\ tx' = [tx EXCEPT ![p] = [@ EXCEPT !.at = IF unsent' = 1 /\ havingWaiters THEN "signal" ELSE "overload",
                                                  !.errNo = Len(packets'[h])]]
         ELSE /\ tx' = [tx EXCEPT ![p].at = "rollback"]
              /\ UNCHANGED <<queueVars, answered>>
  /\ UNCHANGED <<stopVars, smVars, netVars, senderVars, todo, misled, overload, received, rx, setHandles, event, wire>>

(* ... and the list under the other: by then the handle may belong to      *)
(* another client.  A full list, or none, refuses the packet.              *)
PushAnswer(p) ==
  /\ tx[p].at = "push"
  /\ LET h == tx[p].handle
         c == tx[p].client
     IN  IF CanPush(h)
         THEN /\ Push(h, Packet(c, c \notin DOMAIN idHandle))
              /\ answered' = answered \cup {tx[p].req.sid}
              /\ tx' = [tx EXCEPT ![p] = [@ EXCEPT !.at = IF unsent' = 1 /\ havingWaiters THEN "signal" ELSE "overload",
                                                  !.errNo = Len(packets'[h])]]
         ELSE /\ tx' = [tx EXCEPT ![p].at = "rollback"]
              /\ UNCHANGED <<queueVars, answered>>
  /\ UNCHANGED <<stopVars, smVars, netVars, senderVars, todo, misled, overload, received, rx, setHandles, event, wire>>

Signal(p) ==
  /\ tx[p].at = "signal"
  /\ event' = TRUE
  /\ tx' = [tx EXCEPT ![p].at = "overload"]
  /\ UNCHANGED <<stopVars, smVars, netVars, queueVars, senderVars, todo, answered, misled, overload, received, rx,
                 setHandles, wire>>

Rollback_Forgotten(p) ==   \* faulty: a session whose answer was refused stays
  /\ tx[p].at = "rollback"
  /\ tx' = [tx EXCEPT ![p] = Idle]
  /\ UNCHANGED <<stopVars, smVars, netVars, queueVars, senderVars, todo, answered, misled, overload, received, rx,
                 setHandles, event, wire>>

(* "Rollback session update": EraseSession of whatever session has the     *)
(* Session-Id by now.                                                      *)
Rollback(p) ==
  /\ tx[p].at = "rollback"
  /\ SM!EraseSession(tx[p].req.sid) \/ (tx[p].req.sid \notin DOMAIN mapSessions /\ UNCHANGED smVars)
  /\ tx' = [tx EXCEPT ![p] = Idle]
  /\ UNCHANGED <<stopVars, netVars, queueVars, senderVars, todo, answered, misled, overload, received, rx,
                 setHandles, event, wire>>

Overloads(p) ==
  LET c == tx[p].client
  IN  c \in DOMAIN overload /\ tx[p].errNo * 10 >= MaxQueueSize * 8 /\ ~overload[c]

CheckOverload(p) ==
  /\ tx[p].at = "overload"
  /\ tx' = [tx EXCEPT ![p] = IF Overloads(p) THEN [@ EXCEPT !.at = "report"] ELSE Idle]
  /\ UNCHANGED <<stopVars, smVars, netVars, queueVars, senderVars, todo, answered, misled, overload, received, rx,
                 setHandles, event, wire>>

OnOverload(p) ==
  /\ tx[p].at = "report"
  /\ overload' = IF Overloads(p) THEN [overload EXCEPT ![tx[p].client] = TRUE] ELSE overload
  /\ tx' = [tx EXCEPT ![p] = Idle]
  /\ UNCHANGED <<stopVars, smVars, netVars, queueVars, senderVars, todo, answered, misled, received, rx, setHandles,
                 event, wire>>

(* A call of Send, once it has begun.                                      *)
Sending(p) ==
  Lookup(p) \/ PushAnswer(p) \/ Signal(p) \/ Rollback(p) \/ CheckOverload(p) \/ OnOverload(p)

----------------------------------------------------------------------------
(* CSendThread::svc over the server's lists (module SendQueue has the      *)
(* client's, with packets that are written in parts).                      *)

StepTo(label) ==
  /\ sender' = label
  /\ UNCHANGED <<stopVars, smVars, netVars, packets, unsent, appVars, overload, received, rx, setHandles, event>>

Poll == sender = "WaitForSendQueue"
        /\ StepTo(IF unsent # 0 THEN "FillConnectedSet" ELSE "havingWaiters")
        /\ UNCHANGED <<havingWaiters, vecHandles, wire>>

RegisterWaiter ==
  /\ sender = "havingWaiters"
  /\ havingWaiters' = (unsent = 0)
  /\ StepTo(IF unsent # 0 THEN "FillConnectedSet" ELSE "wait")
  /\ UNCHANGED <<vecHandles, wire>>

WaitReturns ==
  /\ sender = "wait" /\ event
  /\ StepTo("FillConnectedSet")
  /\ UNCHANGED <<havingWaiters, vecHandles, wire>>

FillConnectedSet ==
  /\ sender = "FillConnectedSet"
  /\ vecHandles' = setHandles
  /\ StepTo("select")
  /\ UNCHANGED <<havingWaiters, wire>>

(* Nothing is writable in time, or a socket of the snapshot is closed.     *)
SelectNone ==
  /\ sender = "select"
  /\ StepTo("WaitForSendQueue")
  /\ vecHandles' = {}
  /\ UNCHANGED <<havingWaiters, wire>>

SelectReady(writable) ==
  /\ sender = "select"
  /\ writable # {} /\ vecHandles \subseteq DOMAIN sockets
  /\ vecHandles' = writable
  /\ StepTo("SendFromQueue")
  /\ UNCHANGED <<havingWaiters, wire>>

SendFromQueue_Uncounted(h) ==   \* faulty: what is written stays counted
  /\ sender = "SendFromQueue" /\ h \in vecHandles
  /\ h \in DOMAIN packets /\ packets[h] # <<>>
  /\ wire' = wire \cup {[to |-> sockets[h], packet |-> Head(packets[h])]}
  /\ packets' = [packets EXCEPT ![h] = Tail(@)]
  /\ vecHandles' = vecHandles \ {h}
  /\ UNCHANGED <<stopVars, smVars, netVars, unsent, havingWaiters, sender, appVars, overload, received, rx, setHandles,
                 event>>

SendFromQueue(h) ==
  /\ sender = "SendFromQueue" /\ h \in vecHandles
  /\ h \in DOMAIN packets /\ packets[h] # <<>>
  /\ wire' = wire \cup {[to |-> sockets[h], packet |-> Head(packets[h])]}
  /\ packets' = [packets EXCEPT ![h] = Tail(@)]
  /\ unsent' = unsent - 1
  /\ vecHandles' = vecHandles \ {h}
  /\ UNCHANGED <<stopVars, smVars, netVars, havingWaiters, sender, appVars, overload, received, rx, setHandles, event>>

(* No list, an empty one, an error, or a write that is not complete.       *)
SendNothing(h) ==
  /\ sender = "SendFromQueue" /\ h \in vecHandles
  /\ vecHandles' = vecHandles \ {h}
  /\ StepTo("SendFromQueue")
  /\ UNCHANGED <<havingWaiters, wire>>

AllTried ==
  /\ sender = "SendFromQueue" /\ vecHandles = {}
  /\ StepTo("WaitForSendQueue")
  /\ UNCHANGED <<havingWaiters, vecHandles, wire>>

SendThread ==
  \/ Poll \/ RegisterWaiter \/ WaitReturns \/ FillConnectedSet \/ SelectNone \/ AllTried
  \/ \E writable \in SUBSET vecHandles : SelectReady(writable)
  \/ \E h \in Handles : SendFromQueue(h) \/ SendNothing(h)

----------------------------------------------------------------------------
Next ==
  \/ Receiver
  \/ Stopping
  \/ \E p \in Threads : OnAnswerMessage(p) \/ Sending(p)
  \/ SendThread

Spec == Init /\ [][Next]_vars

----------------------------------------------------------------------------
(* Clients, handles, lists and sessions.                                   *)

(* The maps of the transport are inverse to each other and have a list for *)
(* each handle, none longer than the limit.                                *)
TypeOK ==
  /\ \A h \in DOMAIN handleId : handleId[h] \in DOMAIN idHandle /\ idHandle[handleId[h]] = h
  /\ \A c \in DOMAIN idHandle : idHandle[c] \in DOMAIN handleId /\ handleId[idHandle[c]] = c
  /\ DOMAIN handleId = DOMAIN packets /\ DOMAIN packets = setHandles
  /\ DOMAIN handleId \subseteq DOMAIN sockets
  /\ \A h \in DOMAIN packets : Len(packets[h]) <= MaxQueueSize

(* The branches marked "must not enter" are not entered: OnConnect finds   *)
(* no client with the new number in either map, and OnReceive finds the    *)
(* client of every connection it may read from (DiameterServer.cpp:173,    *)
(* 189, 343).                                                              *)
MustNotEnter ==
  /\ rx.at = "OnConnect" => rx.client \notin clients /\ rx.client \notin DOMAIN overload
  /\ rx = Listening => \A h \in DOMAIN handleId :
                         handleId[h] \in clients /\ handleId[h] \in DOMAIN overload

(* No client is sent what was queued for another, however handles are      *)
(* reused, but for a packet that was queued between the two mutexes of     *)
(* CServerTransport::Send after its client had gone.                       *)
ToItsClient == \A w \in wire : w.packet.late \/ w.to = w.packet.to

(* m_unsentPacketsCount, by which the send thread decides to sleep and a   *)
(* sender to wake it, is the number of packets in all lists, although      *)
(* three threads change it and DelConnection throws packets away.          *)
Places == UNION {{h} \X DOMAIN packets[h] : h \in DOMAIN packets}

UnsentCounted == unsent = Cardinality(Places)

(* The server keeps a session as answered only when the answer was queued: *)
(* one refused by the transport is rolled back (DiameterServer.cpp:542,    *)
(* 654), so that the client can ask again.  An answer meant for another    *)
(* client leaves the session answered all the same (Send with a client).   *)
KeptAnswered ==
  \A s \in DOMAIN mapSessions :
    \/ mapSessions[s].response \/ s \in answered \/ s \in misled
    \/ \E p \in Threads : tx[p].at \in {"lookup", "push", "rollback"} /\ tx[p].req.sid = s
============================================================================
