--------------------------- MODULE ConnectionProofs ---------------------------
(***************************************************************************)
(* What the mediator's connection guarantees for any number of receive     *)
(* threads and faults and any length of the queue, when sleep(1) outlasts  *)
(* a round of every receive thread (PromptStop): without that two threads  *)
(* can own the socket at once. And what its former guarantees for any      *)
(* stream, buffer and way recv cuts the stream (the last section).         *)
(***************************************************************************)
EXTENDS Connection, DiameterFormer, TLAPS

Live == {"open", "broken"}

(* A receive thread that may still touch the client's members: one at
   SignalStop only tells that it is leaving.                                *)
Active(t) == svc[t] \notin {"idle", "SignalStop"}

Owning == {"AddClient", "OnConnect", "check", "select", "RemoveClient", "OnBreak", "close"}

(* There is one active receive thread at most: the adapter starts one only when
   the last has gone, having seen it fail or having told it to stop.        *)
OneActive ==
  /\ \A t, u \in Threads : Active(t) /\ Active(u) => t = u
  /\ main = "Connect" => \A t \in Threads : ~Active(t)
  /\ main \in {"StopWait", "sleep"} => exit
  /\ main = "sleep" => \A t \in Threads : svc[t] # "idle" => t \in unchecked
  /\ startEvent => \A t \in Threads : svc[t] \notin {"connect", "SignalStart"}

(* Where that thread is says whose the socket in m_Handle is, which sockets are
   open and whether the send thread has them.                               *)
Owned ==
  /\ \A t \in Threads :
       /\ svc[t] = "connect" => handle = None /\ conn[t].net = "none" /\ ~started
       /\ svc[t] = "SignalStart" => handle = t \/ (handle = None /\ conn[t].net = "none")
       /\ svc[t] \in Owning => handle = t
       /\ svc[t] \in {"OnBreak", "close"} => setHandles = {}
       /\ handle = t => Active(t) /\ conn[t].net \in Live
       /\ conn[t].net \in Live => handle = t
  /\ setHandles \subseteq {handle}

IInv == TypeOK /\ OneActive /\ Owned /\ StartedMeansAnswered

-----------------------------------------------------------------------------
(* Type correctness *)

(* A packet is put in the queue while there is room for it. *)
LEMMA PutType ==
  ASSUME TypeOK, NEW packet \in Packets, Put(packet)
  PROVE  queue' \in Seq(Packets) /\ Len(queue') <= QueueSize
<1>1. queue \in Seq(Packets) /\ Len(queue) \in Nat /\ QueueSize \in Nat /\ Len(queue) <= QueueSize
  BY ConnectionAssumption DEF TypeOK
<1>2. CASE Len(queue) < QueueSize
  <2>1. queue' = Append(queue, packet)
    BY <1>2 DEF Put
  <2>2. Len(queue') = Len(queue) + 1 /\ queue' \in Seq(Packets)
    BY <1>1, <2>1
  <2> QED  BY <1>1, <1>2, <2>2
<1>3. CASE ~(Len(queue) < QueueSize)
  BY <1>1, <1>3 DEF Put
<1> QED  BY <1>2, <1>3

(* The steps of the adapter keep the types, ... *)
LEMMA AdapterType ==
  ASSUME TypeOK, Adapter
  PROVE  TypeOK'
<1> USE DEF clientVars, netVars, peerVars, pastVars, mainVars, Servers, Ready
<1>1. CASE ConnectTo
  BY <1>1 DEF ConnectTo, TypeOK
<1>2. CASE StartReturns
  BY <1>2 DEF StartReturns, TypeOK
<1>3. CASE SetState \/ ConnectReturns
  BY <1>3 DEF SetState, ConnectReturns, TypeOK
<1>4. CASE CheckConnection \/ StopReturns \/ Wake
  BY <1>4 DEF CheckConnection, Stop, StopReturns, Wake, TypeOK
<1>5. CASE SendDWR
  <2>1. queue' \in Seq(Packets) /\ Len(queue') <= QueueSize
    BY <1>5, PutType DEF SendDWR, Packets
  <2> QED  BY <1>5, <2>1 DEF SendDWR, TypeOK
<1> QED  BY <1>1, <1>2, <1>3, <1>4, <1>5 DEF Adapter

(* ... and so do those of a receive thread ... *)
LEMMA SvcType ==
  ASSUME TypeOK, NEW t \in Threads, Svc(t)
  PROVE  TypeOK'
<1> USE DEF clientVars, netVars, peerVars, pastVars, mainVars, Servers, Ready, Goto
<1>1. CASE SvcConnect(t)
  <2>1. conn' = conn \/ conn' = [conn EXCEPT ![t] = [@ EXCEPT !.server = server, !.net = "open"]]
    BY <1>1 DEF SvcConnect
  <2>2. conn' \in [Threads -> Socket]
    <3>1. conn[t] \in Socket /\ server \in Servers
      BY DEF TypeOK
    <3>2. [conn[t] EXCEPT !.server = server, !.net = "open"] \in Socket
      BY <3>1 DEF Socket
    <3> QED  BY <2>1, <3>2 DEF TypeOK
  <2> QED  BY <1>1, <2>2 DEF SvcConnect, TypeOK
<1>2. CASE SignalStart(t)
  BY <1>2 DEF SignalStart, TypeOK
<1>3. CASE AddClient(t)
  BY <1>3 DEF AddClient, TypeOK
<1>4. CASE OnConnect(t)
  <2>1. queue' \in Seq(Packets) /\ Len(queue') <= QueueSize
    BY <1>4, PutType DEF OnConnect, SendCER, Packets
  <2>2. lost' \in BOOLEAN
    BY <1>4 DEF OnConnect, SendCER, TypeOK
  <2> QED  BY <1>4, <2>1, <2>2 DEF OnConnect, TypeOK
<1>5. CASE CheckExit(t)
  BY <1>5 DEF CheckExit, TypeOK
<1>6. CASE SelectTimeout(t) \/ RecvBroken(t) \/ SignalStop(t)
  BY <1>6 DEF SelectTimeout, RecvBroken, SignalStop, TypeOK
<1>9. CASE SelectFails(t)
  <2>1. faults' \in 0 .. MaxFaults
    BY <1>9, ConnectionAssumption DEF SelectFails, TypeOK
  <2> QED  BY <1>9, <2>1 DEF SelectFails, TypeOK
<1>10. CASE RemoveClient(t)
  <2>1. rest' \in BOOLEAN
    BY <1>10 DEF RemoveClient, TypeOK
  <2> QED  BY <1>10, <2>1 DEF RemoveClient, TypeOK
<1>11. CASE OnBreak(t)
  <2>1. lost' \in BOOLEAN
    BY <1>11 DEF OnBreak, TypeOK
  <2> QED  BY <1>11, <2>1 DEF OnBreak, TypeOK
<1>7. CASE OnReceiveCEA(t) \/ SwallowCEA(t)
  <2>1. conn' = [conn EXCEPT ![t] = [@ EXCEPT !.cea = FALSE]]
    BY <1>7 DEF OnReceiveCEA, SwallowCEA
  <2>2. conn' \in [Threads -> Socket]
    <3>1. conn[t] \in Socket
      BY DEF TypeOK
    <3>2. [conn[t] EXCEPT !.cea = FALSE] \in Socket
      BY <3>1 DEF Socket
    <3> QED  BY <2>1, <3>2 DEF TypeOK
  <2>3. CASE OnReceiveCEA(t)
    <3>1. readyEvent' \in BOOLEAN
      BY <2>3 DEF OnReceiveCEA
    <3> QED  BY <2>2, <2>3, <3>1 DEF OnReceiveCEA, TypeOK
  <2>4. CASE SwallowCEA(t)
    BY <2>2, <2>4 DEF SwallowCEA, TypeOK
  <2> QED  BY <1>7, <2>3, <2>4
<1>8. CASE CloseHandle(t)
  <2>1. conn' \in [Threads -> Socket]
    <3>1. NoSocket \in Socket
      BY DEF NoSocket, Socket, Servers
    <3> QED  BY <1>8, <3>1 DEF CloseHandle, TypeOK
  <2>2. residue' \in BOOLEAN
    BY <1>8 DEF CloseHandle, TypeOK
  <2> QED  BY <1>8, <2>1, <2>2 DEF CloseHandle, TypeOK
<1> QED
  BY <1>1, <1>2, <1>3, <1>4, <1>5, <1>6, <1>7, <1>8, <1>9, <1>10, <1>11 DEF Svc

(* ... and of the consumer thread, the send thread, the servers and the clock. *)
LEMMA OthersType ==
  ASSUME TypeOK,
         \/ SendCCR
         \/ \E t \in Threads : SendFromQueue(t)
         \/ Environment
         \/ UNCHANGED vars
  PROVE  TypeOK'
<1> USE DEF clientVars, netVars, peerVars, pastVars, mainVars, Servers, Ready
<1>1. ASSUME NEW t \in Threads, SendFromQueue(t)
      PROVE  TypeOK'
  <2> DEFINE cer == conn[t].cer \/ Head(queue) = "CER"
             garbled == conn[t].garbled \/ rest
  <2>1. conn' = conn \/ conn' = [conn EXCEPT ![t] = [@ EXCEPT !.cer = cer, !.garbled = garbled]]
    BY <1>1 DEF SendFromQueue
  <2>2. conn' \in [Threads -> Socket]
    <3>1. conn[t] \in Socket /\ cer \in BOOLEAN /\ garbled \in BOOLEAN
      BY DEF TypeOK
    <3> HIDE DEF cer, garbled
    <3>2. [conn[t] EXCEPT !.cer = cer, !.garbled = garbled] \in Socket
      BY <3>1 DEF Socket
    <3> QED  BY <2>1, <3>2 DEF TypeOK
  <2>3. queue' \in Seq(Packets) /\ Len(queue') <= QueueSize
    <3>1. queue \in Seq(Packets) /\ queue # <<>> /\ queue' = Tail(queue)
      BY <1>1 DEF SendFromQueue, TypeOK
    <3>2. queue' \in Seq(Packets) /\ Len(queue) \in Nat /\ Len(queue') = Len(queue) - 1
      BY <3>1
    <3> QED  BY <3>2, ConnectionAssumption DEF TypeOK
  <2>4. lost' \in BOOLEAN /\ rest' \in BOOLEAN
    BY <1>1 DEF SendFromQueue, TypeOK
  <2> QED  BY <1>1, <2>2, <2>3, <2>4 DEF SendFromQueue, TypeOK
<1>7. CASE SendCCR
  <2>1. queue' \in Seq(Packets) /\ Len(queue') <= QueueSize
    BY <1>7, PutType DEF SendCCR, Packets
  <2> QED  BY <1>7, <2>1 DEF SendCCR, TypeOK
<1>2. ASSUME NEW t \in Threads, Answer(t)
      PROVE  TypeOK'
  <2>1. conn' = [conn EXCEPT ![t] = [@ EXCEPT !.cer = FALSE, !.cea = TRUE]]
    BY <1>2 DEF Answer
  <2>2. conn' \in [Threads -> Socket]
    <3>1. conn[t] \in Socket
      BY DEF TypeOK
    <3>2. [conn[t] EXCEPT !.cer = FALSE, !.cea = TRUE] \in Socket
      BY <3>1 DEF Socket
    <3> QED  BY <2>1, <3>2 DEF TypeOK
  <2> QED  BY <1>2, <2>2 DEF Answer, TypeOK
<1>3. ASSUME NEW t \in Threads, Break(t)
      PROVE  TypeOK'
  <2>1. conn' = [conn EXCEPT ![t] = [@ EXCEPT !.net = "broken"]]
    BY <1>3 DEF Break
  <2>2. conn' \in [Threads -> Socket]
    <3>1. conn[t] \in Socket
      BY DEF TypeOK
    <3>2. [conn[t] EXCEPT !.net = "broken"] \in Socket
      BY <3>1 DEF Socket
    <3> QED  BY <2>1, <3>2 DEF TypeOK
  <2>3. faults' \in 0 .. MaxFaults
    BY <1>3, ConnectionAssumption DEF Break, TypeOK
  <2> QED  BY <1>3, <2>2, <2>3 DEF Break, TypeOK
<1>4. ASSUME NEW s \in Servers, GoDown(s) \/ ComeUp(s)
      PROVE  TypeOK'
  <2>1. faults' \in 0 .. MaxFaults
    BY <1>4, ConnectionAssumption DEF GoDown, ComeUp, TypeOK
  <2> QED  BY <1>4, <2>1 DEF GoDown, ComeUp, TypeOK
<1>5. CASE ReserveTimePasses
  BY <1>5 DEF ReserveTimePasses, TypeOK
<1>6. CASE UNCHANGED vars
  BY <1>6 DEF vars, TypeOK
<1> QED  BY <1>1, <1>2, <1>3, <1>4, <1>5, <1>6, <1>7 DEF Environment

(* So every step keeps the types ... *)
LEMMA TypeStep ==
  ASSUME TypeOK, [Next]_vars
  PROVE  TypeOK'
BY AdapterType, SvcType, OthersType DEF Next, Exited, Hung

(* ... and the first state has them. *)
LEMMA InitType == Init => TypeOK
<1> SUFFICES ASSUME Init PROVE TypeOK
  OBVIOUS
<1>1. conn \in [Threads -> Socket]
  <2>1. NoSocket \in Socket
    BY DEF NoSocket, Socket, Servers
  <2> QED  BY <2>1 DEF Init
<1>2. queue \in Seq(Packets) /\ Len(queue) <= QueueSize /\ faults \in 0 .. MaxFaults
  BY ConnectionAssumption DEF Init
<1> QED  BY <1>1, <1>2 DEF Init, TypeOK, Servers, Ready

(* The members, events and sockets of the mediator's connection keep their
   types, however often it reconnects.                                      *)
THEOREM TypeCorrect == Spec => []TypeOK
BY InitType, TypeStep, PTL DEF Spec

-----------------------------------------------------------------------------
(* One active receive thread *)

(* The adapter starts a thread when there is none. *)
LEMMA AdapterOne ==
  ASSUME PromptStop, TypeOK, OneActive, Owned, Adapter
  PROVE  OneActive'
<1> USE DEF clientVars, netVars, peerVars, pastVars, mainVars, Active
<1>1. CASE ConnectTo
  <2>1. PICK t \in Threads : svc' = [svc EXCEPT ![t] = "connect"]
    BY <1>1 DEF ConnectTo
  <2>2. \A u \in Threads : u # t => svc'[u] = svc[u] /\ ~Active(u)
    BY <1>1, <2>1 DEF ConnectTo, OneActive, TypeOK
  <2>3. main' = "StartWait" /\ startEvent' = FALSE
    BY <1>1 DEF ConnectTo
  <2> QED  BY <2>2, <2>3 DEF OneActive
<1>2. CASE StartReturns
  <2>1. UNCHANGED <<svc, startEvent, unchecked, exit>> /\ main' \in {"SetState", "Connect", "exit", "loop"}
    BY <1>2 DEF StartReturns
  <2>2. main' = "Connect" => \A t \in Threads : ~Active(t)
    <3> SUFFICES ASSUME main' = "Connect", NEW t \in Threads, Active(t)
                 PROVE  FALSE
      OBVIOUS
    <3>1. handle = None /\ startEvent
      BY <1>2 DEF StartReturns
    <3>2. svc[t] \in Owning
      BY <3>1 DEF OneActive, Owning, TypeOK
    <3> QED  BY <3>1, <3>2, ConnectionAssumption DEF Owned
  <2> QED  BY <2>1, <2>2 DEF OneActive
<1>3. CASE SetState \/ ConnectReturns \/ SendDWR
  BY <1>3 DEF SetState, ConnectReturns, SendDWR, OneActive
<1>4. CASE CheckConnection
  BY <1>4 DEF CheckConnection, Stop, OneActive
<1>5. CASE StopReturns
  BY <1>5 DEF StopReturns, OneActive
<1>6. CASE Wake
  BY <1>6 DEF Wake, OneActive
<1> QED  BY <1>1, <1>2, <1>3, <1>4, <1>5, <1>6 DEF Adapter

(* No step of a receive thread makes another active, and it leaves exit and
   unchecked alone while the adapter sleeps, except to go.                  *)
LEMMA SvcOne ==
  ASSUME TypeOK, OneActive, NEW t \in Threads, Svc(t)
  PROVE  OneActive'
<1> USE DEF clientVars, netVars, peerVars, pastVars, mainVars, Active, Goto
<1>1. /\ main' = main
      /\ \A u \in Threads : u # t => svc'[u] = svc[u]
      /\ svc[t] # "idle"
  BY DEF Svc, SvcConnect, SignalStart, AddClient, OnConnect, CheckExit, SelectTimeout, OnReceiveCEA,
         SelectFails, SwallowCEA, RecvBroken, RemoveClient, OnBreak, CloseHandle, SignalStop, TypeOK
<1>2. exit => exit'
  BY DEF Svc, SvcConnect, SignalStart, AddClient, OnConnect, CheckExit, SelectTimeout, OnReceiveCEA,
         SelectFails, SwallowCEA, RecvBroken, RemoveClient, OnBreak, CloseHandle, SignalStop
<1>3. \/ UNCHANGED unchecked
      \/ ~exit /\ unchecked' = unchecked \ {t}
      \/ svc'[t] = "idle" /\ unchecked' = unchecked \ {t}
  BY DEF Svc, SvcConnect, SignalStart, AddClient, OnConnect, CheckExit, SelectTimeout, OnReceiveCEA,
         SelectFails, SwallowCEA, RecvBroken, RemoveClient, OnBreak, CloseHandle, SignalStop, TypeOK
<1>4. svc[t] = "SignalStop" => svc'[t] = "idle"
  BY DEF Svc, SvcConnect, SignalStart, AddClient, OnConnect, CheckExit, SelectTimeout, OnReceiveCEA,
         SelectFails, SwallowCEA, RecvBroken, RemoveClient, OnBreak, CloseHandle, SignalStop, TypeOK
<1>5. svc'[t] \notin {"connect", "SignalStart"} \/ (svc[t] = "connect" /\ startEvent' = startEvent)
  BY DEF Svc, SvcConnect, SignalStart, AddClient, OnConnect, CheckExit, SelectTimeout, OnReceiveCEA,
         SelectFails, SwallowCEA, RecvBroken, RemoveClient, OnBreak, CloseHandle, SignalStop, TypeOK
<1>6. startEvent' = startEvent \/ Active(t)
  BY DEF Svc, SvcConnect, SignalStart, AddClient, OnConnect, CheckExit, SelectTimeout, OnReceiveCEA,
         SelectFails, SwallowCEA, RecvBroken, RemoveClient, OnBreak, CloseHandle, SignalStop
<1>7. \A u \in Threads : Active(u)' => Active(u)
  BY <1>1, <1>4
<1>8. \A u, v \in Threads : Active(u)' /\ Active(v)' => u = v
  BY <1>7 DEF OneActive
<1>9. main' = "Connect" => \A u \in Threads : ~Active(u)'
  BY <1>1, <1>7 DEF OneActive
<1>10. main' \in {"StopWait", "sleep"} => exit'
  BY <1>1, <1>2 DEF OneActive
<1>11. main' = "sleep" => \A u \in Threads : svc'[u] # "idle" => u \in unchecked'
  BY <1>1, <1>3 DEF OneActive
<1>12. startEvent' => \A u \in Threads : svc'[u] \notin {"connect", "SignalStart"}
  <2>1. CASE startEvent' = startEvent
    BY <1>1, <1>5, <2>1 DEF OneActive
  <2>2. CASE Active(t)
    BY <1>1, <1>5, <2>1, <2>2 DEF OneActive
  <2> QED  BY <1>6, <2>1, <2>2
<1> QED  BY <1>8, <1>9, <1>10, <1>11, <1>12 DEF OneActive

(* Nobody else touches what the adapter and its receive thread agree by. *)
LEMMA OthersOne ==
  ASSUME OneActive,
         \/ SendCCR
         \/ \E t \in Threads : SendFromQueue(t)
         \/ Environment
         \/ UNCHANGED vars
  PROVE  OneActive'
<1> USE DEF clientVars, netVars, peerVars, pastVars, mainVars
<1>1. UNCHANGED <<main, svc, startEvent, unchecked, exit>>
  BY DEF SendCCR, SendFromQueue, Environment, Answer, Break, GoDown, ComeUp, ReserveTimePasses, vars
<1> QED  BY <1>1 DEF OneActive, Active

-----------------------------------------------------------------------------
(* Whose the socket is *)

(* The invariant of one thread. *)
OwnedBy(t) ==
  /\ svc[t] = "connect" => handle = None /\ conn[t].net = "none" /\ ~started
  /\ svc[t] = "SignalStart" => handle = t \/ (handle = None /\ conn[t].net = "none")
  /\ svc[t] \in Owning => handle = t
  /\ svc[t] \in {"OnBreak", "close"} => setHandles = {}
  /\ handle = t => Active(t) /\ conn[t].net \in Live
  /\ conn[t].net \in Live => handle = t

(* A new thread finds no socket open, and m_bStarted reset. *)
LEMMA AdapterOwned ==
  ASSUME TypeOK, OneActive, Owned, StartedMeansAnswered, Adapter
  PROVE  Owned' /\ StartedMeansAnswered'
<1> USE DEF clientVars, netVars, peerVars, pastVars, mainVars
<1>1. CASE ConnectTo
  <2>1. PICK t \in Threads : svc' = [svc EXCEPT ![t] = "connect"] /\ conn[t].net = "none"
    BY <1>1 DEF ConnectTo
  <2>2. handle = None
    BY <1>1 DEF ConnectTo, OneActive, Owned, TypeOK
  <2>3. UNCHANGED <<handle, setHandles, conn, answered>> /\ started' = FALSE
    BY <1>1 DEF ConnectTo
  <2>4. ASSUME NEW u \in Threads
        PROVE  OwnedBy(u)'
    <3>1. CASE u = t
      BY <2>1, <2>2, <2>3, <3>1, ConnectionAssumption
         DEF OwnedBy, TypeOK, Live, Owning, Active
    <3>2. CASE u # t
      BY <2>1, <2>2, <2>3, <3>2, ConnectionAssumption DEF OwnedBy, Owned, TypeOK, Active
    <3> QED  BY <3>1, <3>2
  <2> QED  BY <2>3, <2>4 DEF Owned, OwnedBy, StartedMeansAnswered
<1>2. CASE ~ConnectTo
  <2>1. UNCHANGED <<handle, setHandles, svc, conn, answered>> /\ (started' => started)
    BY <1>2 DEF Adapter, StartReturns, SetState, ConnectReturns, SendDWR, CheckConnection, Stop,
              StopReturns, Wake
  <2> QED  BY <2>1 DEF Owned, StartedMeansAnswered, Active
<1> QED  BY <1>1, <1>2

(* Only the active thread changes m_Handle and its socket, and it clears both
   before it goes.                                                          *)
LEMMA SvcOwned ==
  ASSUME TypeOK, OneActive, Owned, StartedMeansAnswered, NEW t \in Threads, Svc(t)
  PROVE  Owned' /\ StartedMeansAnswered'
<1> USE DEF clientVars, netVars, peerVars, pastVars, mainVars, Goto
<1>1. /\ \A u \in Threads : u # t => svc'[u] = svc[u]
      /\ svc[t] # "idle"
  BY DEF Svc, SvcConnect, SignalStart, AddClient, OnConnect, CheckExit, SelectTimeout, OnReceiveCEA,
         SelectFails, SwallowCEA, RecvBroken, RemoveClient, OnBreak, CloseHandle, SignalStop, TypeOK
<1>2. \A u \in Threads : OwnedBy(u)
  BY DEF Owned, OwnedBy
<1>3. Active(t) => \A u \in Threads : u # t => ~Active(u) /\ handle # u /\ conn[u].net \notin Live
  BY DEF OneActive, Owned
<1>4. t # None
  BY ConnectionAssumption
<1>5. ASSUME \A u \in Threads : OwnedBy(u)', setHandles' \subseteq {handle'}
      PROVE  Owned'
  BY <1>5 DEF Owned, OwnedBy
<1>6. CASE SvcConnect(t)
  <2>1. /\ svc[t] = "connect" /\ svc'[t] = "SignalStart"
        /\ UNCHANGED <<started, setHandles, answered>>
    BY <1>6 DEF SvcConnect, TypeOK
  <2>2. /\ handle = None /\ conn[t].net = "none" /\ ~started /\ setHandles = {}
        /\ handle \notin Threads
    BY <1>2, <2>1, ConnectionAssumption DEF OwnedBy, Owned, TypeOK
  <2>3. \/ handle' = t /\ conn'[t].net = "open" /\ \A u \in Threads : u # t => conn'[u] = conn[u]
        \/ handle' = None /\ conn' = conn
    BY <1>6 DEF SvcConnect, TypeOK, Socket
  <2>4. ASSUME NEW u \in Threads
        PROVE  OwnedBy(u)'
    <3>1. CASE u = t
      BY <1>4, <2>1, <2>2, <2>3, <3>1 DEF OwnedBy, Active, Live, Owning
    <3>2. CASE u # t
      <4>1. ~Active(u) /\ conn[u].net \notin Live /\ svc'[u] = svc[u]
        BY <1>1, <1>3, <2>1, <3>2 DEF Active
      <4>2. conn'[u] = conn[u] /\ handle' # u
        BY <2>3, <3>2, ConnectionAssumption
      <4> QED  BY <4>1, <4>2 DEF OwnedBy, Active, Owning
    <3> QED  BY <3>1, <3>2
  <2> QED  BY <1>5, <2>1, <2>2, <2>4 DEF StartedMeansAnswered
<1>7. ASSUME UNCHANGED <<handle, started, answered>>, svc'[t] \in Owning,
             handle = t, conn' = conn,
             setHandles' \subseteq {handle},
             svc'[t] \in {"OnBreak", "close"} => setHandles' = {}
      PROVE  Owned' /\ StartedMeansAnswered'
  <2>1. ASSUME NEW u \in Threads
        PROVE  OwnedBy(u)'
    <3>1. CASE u = t
      BY <1>2, <1>7, <3>1 DEF OwnedBy, Active, Owning
    <3>2. CASE u # t
      <4>1. ~Active(u) /\ conn[u].net \notin Live /\ svc'[u] = svc[u]
        BY <1>1, <1>2, <1>3, <1>7, <3>2 DEF OwnedBy
      <4> QED  BY <1>7, <3>2, <4>1 DEF OwnedBy, Active, Owning
    <3> QED  BY <3>1, <3>2
  <2> QED  BY <1>5, <1>7, <2>1 DEF StartedMeansAnswered
<1>8. CASE SignalStart(t)
  <2>1. svc[t] = "SignalStart" /\ UNCHANGED <<handle, started, answered, conn, setHandles>>
    BY <1>8 DEF SignalStart
  <2>2. CASE conn[t].net # "none"
    <3>1. svc'[t] = "AddClient" /\ handle = t
      BY <1>2, <1>8, <2>1, <2>2 DEF SignalStart, OwnedBy, TypeOK
    <3> QED  BY <1>7, <2>1, <3>1 DEF Owned, Owning
  <2>3. CASE conn[t].net = "none"
    <3>1. svc'[t] = "idle" /\ handle = None
      BY <1>2, <1>8, <2>1, <2>3 DEF SignalStart, OwnedBy, TypeOK, Live
    <3>2. ASSUME NEW u \in Threads
          PROVE  OwnedBy(u)'
      <4>1. CASE u = t
        BY <1>4, <2>1, <2>3, <3>1, <4>1 DEF OwnedBy, Active, Live, Owning
      <4>2. CASE u # t
        BY <1>1, <1>2, <2>1, <4>2 DEF OwnedBy, Active
      <4> QED  BY <4>1, <4>2
    <3> QED  BY <1>5, <2>1, <3>2 DEF Owned, StartedMeansAnswered
  <2> QED  BY <2>2, <2>3
<1>9. CASE AddClient(t)
  BY <1>2, <1>7, <1>9 DEF AddClient, OwnedBy, Owned, Owning, TypeOK
<1>10. CASE OnConnect(t)
  BY <1>2, <1>7, <1>10 DEF OnConnect, SendCER, OwnedBy, Owned, Owning, TypeOK
<1>11. CASE CheckExit(t)
  <2>1. handle = t
    BY <1>2, <1>11 DEF CheckExit, OwnedBy, Owning
  <2>2. svc'[t] \in {"select", "RemoveClient"} /\ UNCHANGED <<handle, started, answered, conn, setHandles>>
    BY <1>4, <1>11, <2>1 DEF CheckExit, TypeOK
  <2> QED  BY <1>7, <2>1, <2>2 DEF Owned, Owning
<1>12. CASE SelectTimeout(t) \/ SelectFails(t) \/ RecvBroken(t)
  <2>1. svc[t] = "select" /\ svc'[t] = "check" /\ UNCHANGED <<handle, started, answered, conn, setHandles>>
    BY <1>12 DEF SelectTimeout, SelectFails, RecvBroken, TypeOK
  <2> QED  BY <1>2, <1>7, <2>1 DEF Owned, OwnedBy, Owning
<1>13. CASE OnReceiveCEA(t) \/ SwallowCEA(t)
  <2>1. /\ svc[t] = "select" /\ svc'[t] = "check" /\ handle' = handle /\ setHandles' = setHandles
        /\ handle = t
        /\ t \in answered' \/ UNCHANGED <<started, answered>>
    BY <1>2, <1>13 DEF OnReceiveCEA, SwallowCEA, TypeOK, OwnedBy, Owning
  <2>2. \A u \in Threads : conn'[u].net = conn[u].net
    <3>1. conn' = [conn EXCEPT ![t] = [@ EXCEPT !.cea = FALSE]]
      BY <1>13 DEF OnReceiveCEA, SwallowCEA
    <3> QED  BY <3>1 DEF TypeOK, Socket
  <2>3. ASSUME NEW u \in Threads
        PROVE  OwnedBy(u)'
    <3>1. CASE u = t
      BY <1>2, <2>1, <2>2, <3>1 DEF OwnedBy, Active, Owning
    <3>2. CASE u # t
      <4>1. ~Active(u) /\ conn[u].net \notin Live /\ svc'[u] = svc[u]
        BY <1>1, <1>3, <2>1, <3>2 DEF Active
      <4> QED  BY <2>1, <2>2, <3>2, <4>1 DEF OwnedBy, Active, Owning
    <3> QED  BY <3>1, <3>2
  <2> QED  BY <1>5, <2>1, <2>3 DEF Owned, StartedMeansAnswered
<1>14. CASE RemoveClient(t)
  <2>1. svc[t] = "RemoveClient" /\ svc'[t] = "OnBreak" /\ setHandles' = setHandles \ {handle}
        /\ UNCHANGED <<handle, started, answered, conn>>
    BY <1>14 DEF RemoveClient, TypeOK
  <2>2. setHandles' = {} /\ handle = t
    BY <1>2, <2>1 DEF Owned, OwnedBy, Owning
  <2> QED  BY <1>7, <2>1, <2>2 DEF Owning
<1>15. CASE OnBreak(t)
  BY <1>2, <1>7, <1>15 DEF OnBreak, OwnedBy, Owned, Owning, TypeOK
<1>16. CASE CloseHandle(t)
  <2>1. svc[t] = "close" /\ svc'[t] = "SignalStop" /\ handle' = None /\ setHandles' = setHandles
    BY <1>16 DEF CloseHandle, TypeOK
  <2>2. handle = t /\ setHandles = {}
    BY <1>2, <2>1 DEF OwnedBy, Owning
  <2>3. conn'[t].net = "none" /\ \A u \in Threads : u # t => conn'[u] = conn[u]
    BY <1>4, <1>16, <2>2 DEF CloseHandle, TypeOK, NoSocket
  <2>4. ASSUME NEW u \in Threads
        PROVE  OwnedBy(u)'
    <3>1. CASE u = t
      BY <1>4, <2>1, <2>2, <2>3, <3>1 DEF OwnedBy, Active, Owning, Live
    <3>2. CASE u # t
      <4>1. ~Active(u) /\ conn[u].net \notin Live /\ svc'[u] = svc[u]
        BY <1>1, <1>3, <2>1, <3>2 DEF Active
      <4> QED  BY <2>1, <2>3, <3>2, <4>1, ConnectionAssumption DEF OwnedBy, Active, Owning
    <3> QED  BY <3>1, <3>2
  <2> QED  BY <1>5, <2>1, <2>2, <2>4 DEF StartedMeansAnswered
<1>17. CASE SignalStop(t)
  <2>1. svc[t] = "SignalStop" /\ svc'[t] = "idle" /\ UNCHANGED <<handle, started, answered, conn, setHandles>>
    BY <1>17 DEF SignalStop, TypeOK
  <2>2. ASSUME NEW u \in Threads
        PROVE  OwnedBy(u)'
    BY <1>1, <1>2, <2>1 DEF OwnedBy, Active, Owning
  <2> QED  BY <1>5, <2>1, <2>2 DEF Owned, StartedMeansAnswered
<1> QED  BY <1>6, <1>8, <1>9, <1>10, <1>11, <1>12, <1>13, <1>14, <1>15, <1>16, <1>17 DEF Svc

(* Peers, the consumer and the send thread neither open a socket nor close one. *)
LEMMA OthersOwned ==
  ASSUME TypeOK, Owned, StartedMeansAnswered,
         \/ SendCCR
         \/ \E t \in Threads : SendFromQueue(t)
         \/ Environment
         \/ UNCHANGED vars
  PROVE  Owned' /\ StartedMeansAnswered'
<1> USE DEF clientVars, netVars, peerVars, pastVars, mainVars
<1>1. UNCHANGED <<handle, setHandles, svc, started, answered>>
  BY DEF SendCCR, SendFromQueue, Environment, Answer, Break, GoDown, ComeUp, ReserveTimePasses, vars
<1>2. \A u \in Threads :
        \/ conn'[u].net = conn[u].net
        \/ conn[u].net = "open" /\ conn'[u].net = "broken"
  <2>1. ASSUME NEW t \in Threads, SendFromQueue(t)
        PROVE  \A u \in Threads : conn'[u].net = conn[u].net
    BY <2>1 DEF SendFromQueue, TypeOK, Socket
  <2>2. ASSUME NEW t \in Threads, Answer(t)
        PROVE  \A u \in Threads : conn'[u].net = conn[u].net
    BY <2>2 DEF Answer, TypeOK, Socket
  <2>3. ASSUME NEW t \in Threads, Break(t)
        PROVE  \A u \in Threads :
                 \/ conn'[u].net = conn[u].net
                 \/ conn[u].net = "open" /\ conn'[u].net = "broken"
    BY <2>3 DEF Break, TypeOK, Socket
  <2>4. CASE \/ SendCCR
             \/ \E s \in Servers : GoDown(s) \/ ComeUp(s)
             \/ ReserveTimePasses
             \/ UNCHANGED vars
    BY <2>4 DEF SendCCR, GoDown, ComeUp, ReserveTimePasses, vars
  <2> QED  BY <2>1, <2>2, <2>3, <2>4 DEF Environment
<1>3. \A u \in Threads : conn'[u].net \in Live <=> conn[u].net \in Live
  BY <1>2 DEF Live
<1>4. \A u \in Threads : conn[u].net = "none" => conn'[u].net = "none"
  BY <1>2
<1> QED  BY <1>1, <1>3, <1>4 DEF Owned, StartedMeansAnswered, Active

-----------------------------------------------------------------------------
(* The connection *)

(* At the start there is no receive thread. *)
LEMMA InitIInv == Init => IInv
<1> SUFFICES ASSUME Init PROVE IInv
  OBVIOUS
<1>1. OneActive
  BY DEF Init, OneActive, Active
<1>2. Owned
  BY ConnectionAssumption DEF Init, Owned, Active, Owning, Live, NoSocket
<1> QED  BY <1>1, <1>2, InitType DEF IInv, Init, StartedMeansAnswered

(* PromptStop is what lets the adapter rely on the thread that is to go. *)
LEMMA StepIInv == PromptStop /\ IInv /\ [Next]_vars => IInv'
<1> SUFFICES ASSUME PromptStop, IInv, [Next]_vars PROVE IInv'
  OBVIOUS
<1>1. TypeOK /\ OneActive /\ Owned /\ StartedMeansAnswered
  BY DEF IInv
<1>2. TypeOK'
  BY <1>1, TypeStep
<1>3. CASE Adapter
  BY <1>1, <1>2, <1>3, AdapterOne, AdapterOwned DEF IInv
<1>4. ASSUME NEW t \in Threads, Svc(t)
      PROVE  IInv'
  BY <1>1, <1>2, <1>4, SvcOne, SvcOwned DEF IInv
<1>5. CASE \/ SendCCR
           \/ \E t \in Threads : SendFromQueue(t)
           \/ Environment
           \/ UNCHANGED vars
  BY <1>1, <1>2, <1>5, OthersOne, OthersOwned DEF IInv
<1> QED  BY <1>3, <1>4, <1>5 DEF Next, Exited, Hung

(* The inductive invariant holds of every behaviour in which the thread that is
   to go is gone when the adapter wakes up.                                 *)
THEOREM Invariance ==
  ASSUME PromptStop
  PROVE  Spec => []IInv
<1>1. IInv /\ [Next]_vars => IInv'
  BY StepIInv
<1> QED  BY <1>1, InitIInv, PTL DEF Spec

(* One receive thread at a time owns the socket, the send thread writes to no
   other, and every other socket has been closed.                           *)
THEOREM SocketsOwnedHolds ==
  ASSUME PromptStop
  PROVE  Spec => []SocketsOwned
<1>1. IInv => SocketsOwned
  BY DEF IInv, TypeOK, Owned, SocketsOwned, Active, Live
<1> QED  BY <1>1, Invariance, PTL

(* While there is a connection, m_bStarted says that this one has brought a
   CEA, and not an earlier one.                                             *)
THEOREM StartedMeansAnsweredHolds ==
  ASSUME PromptStop
  PROVE  Spec => []StartedMeansAnswered
<1>1. IInv => StartedMeansAnswered
  BY DEF IInv
<1> QED  BY <1>1, Invariance, PTL


-----------------------------------------------------------------------------
(* DiameterFormer: the former hands out the messages of every well-formed  *)
(* stream, whole and in order, however recv cuts it, while connections     *)
(* break between messages only.                                            *)


(* What is buffered is less than a message of the stream from expected on,
   newDataBegin is where it goes on, and a length that is known is that of the
   message that starts at expected and has been read from the buffer.       *)
Aligned ==
  /\ data = Bytes(expected, Len(data))
  /\ newDataBegin = expected + Len(data)
  /\ expected \in Starts
  /\ expected # StreamEnd => Len(data) < WordAt[expected]
  /\ msgLen # Unknown =>
       /\ expected # StreamEnd
       /\ msgLen = WordAt[expected]
       /\ LENGTH_CHUNK_SIZE <= Len(data)

(* In recv no whole message is left. *)
Drained ==
  pc = "recv" =>
    /\ newDataBegin = newDataEnd
    /\ expected # StreamEnd => newDataEnd < expected + WordAt[expected]

FormerIInv == FormerTypeOK /\ Aligned /\ Drained

-----------------------------------------------------------------------------
(* Bytes *)

(* A run of n bytes is a sequence of n positions. *)
LEMMA BytesSeq ==
  ASSUME NEW p \in Nat, NEW n \in Nat
  PROVE  Bytes(p, n) \in Seq(Nat) /\ Len(Bytes(p, n)) = n
BY DEF Bytes

(* Two adjacent runs make one: what is appended to the buffer continues it. *)
LEMMA BytesConcat ==
  ASSUME NEW p \in Nat, NEW m \in Nat, NEW n \in Nat
  PROVE  Bytes(p, m) \o Bytes(p + m, n) = Bytes(p, m + n)
<1> DEFINE l == Bytes(p, m) \o Bytes(p + m, n)
<1>0. p + m \in Nat
  OBVIOUS
<1>1. Bytes(p, m) \in Seq(Nat) /\ Bytes(p + m, n) \in Seq(Nat)
  BY <1>0, BytesSeq
<1>2. Len(Bytes(p, m)) = m /\ Len(Bytes(p + m, n)) = n
  BY <1>0, BytesSeq
<1>3. l = [i \in 1 .. m + n |->
             IF i <= m THEN Bytes(p, m)[i] ELSE Bytes(p + m, n)[i - m]]
  BY <1>1, <1>2, SMTT(60)
<1>4. ASSUME NEW i \in 1 .. m + n
      PROVE  (IF i <= m THEN Bytes(p, m)[i] ELSE Bytes(p + m, n)[i - m])
               = p + i - 1
  BY DEF Bytes
<1>5. l = [i \in 1 .. m + n |-> p + i - 1]
  BY <1>3, <1>4
<1>6. QED
  BY <1>5 DEF Bytes

(* The length of a message is read from its first bytes. *)
LEMMA WordOfBytes ==
  ASSUME NEW p \in Nat, NEW n \in Nat, n >= LENGTH_CHUNK_SIZE
  PROVE  Word(Bytes(p, n)) = WordAt[p]
<1> DEFINE b == Bytes(p, n)
<1>0. LENGTH_CHUNK_SIZE \in Nat \ {0}
  BY FormerAssumption
<1>1. b \in Seq(Nat) /\ Len(b) = n
  BY BytesSeq
<1>2. b[1] = p
  BY <1>0 DEF Bytes
<1>3. SubSeq(b, 1, LENGTH_CHUNK_SIZE)
        = [i \in 1 .. LENGTH_CHUNK_SIZE |-> b[i]]
  BY <1>0, <1>1
<1>4. ASSUME NEW i \in 1 .. LENGTH_CHUNK_SIZE
      PROVE  b[i] = p + i - 1
  BY <1>0 DEF Bytes
<1>5. SubSeq(b, 1, LENGTH_CHUNK_SIZE) = Bytes(p, LENGTH_CHUNK_SIZE)
  BY <1>3, <1>4 DEF Bytes
<1>6. QED
  BY <1>2, <1>5 DEF Word

-----------------------------------------------------------------------------
(* The stream *)

(* The length at the start of a message, and what the assumption says of it. *)
LEMMA MessageAt ==
  ASSUME NEW p \in Starts, p # StreamEnd
  PROVE  /\ p \in Nat
         /\ p < StreamEnd
         /\ WordAt[p] \in Nat
         /\ LENGTH_CHUNK_SIZE <= WordAt[p]
         /\ WordAt[p] <= BufferSize
         /\ p + WordAt[p] \in Starts
BY FormerAssumption

(* What TakeMsg knows before it can hand out the message at expected. *)
LEMMA MeasuredIsAligned ==
  ASSUME FormerIInv, Measurable
  PROVE  LET m == Measured
         IN  /\ expected # StreamEnd
             /\ m.len = WordAt[expected]
             /\ m.data = Bytes(expected, Len(m.data))
             /\ Len(m.data) \in Nat
             /\ Len(m.data) <= m.len
             /\ m.begin = expected + Len(m.data)
             /\ m.begin <= newDataEnd
<1>0. /\ LENGTH_CHUNK_SIZE \in Nat \ {0}
      /\ BufferSize \in Nat /\ LENGTH_CHUNK_SIZE <= BufferSize
      /\ StreamEnd \in Nat /\ Starts \subseteq 0 .. StreamEnd
  BY FormerAssumption
<1>1. /\ data \in Seq(Nat) /\ Len(data) \in Nat /\ Len(data) <= BufferSize
      /\ newDataEnd \in 0 .. StreamEnd /\ newDataBegin \in 0 .. newDataEnd
      /\ expected \in Nat
  BY <1>0 DEF FormerIInv, FormerTypeOK
<1>2. /\ data = Bytes(expected, Len(data))
      /\ newDataBegin = expected + Len(data)
      /\ expected \in Starts
  BY DEF FormerIInv, Aligned
<1>3. expected # StreamEnd
  <2>1. CASE msgLen # Unknown
    BY <2>1 DEF FormerIInv, Aligned
  <2>2. CASE msgLen = Unknown
    BY <2>2, <1>0, <1>1, <1>2 DEF Measurable
  <2>3. QED
    BY <2>1, <2>2
<1> DEFINE len == WordAt[expected]
<1>len. len \in Nat /\ LENGTH_CHUNK_SIZE <= len /\ Len(data) <= len
  BY <1>1, <1>2, <1>3, MessageAt DEF FormerIInv, Aligned
<1> HIDE DEF len
<1>4. CASE msgLen # Unknown
  <2>1. Measured = Buffered(data, newDataBegin, msgLen)
    BY <1>4 DEF Measured
  <2>2. msgLen = len
    BY <1>4 DEF FormerIInv, Aligned, len
  <2>3. QED
    BY <2>1, <2>2, <1>1, <1>2, <1>3, <1>len DEF Buffered, len
<1>5. CASE msgLen = Unknown /\ Len(data) >= LENGTH_CHUNK_SIZE
  <2>1. Measured = Buffered(data, newDataBegin, Word(data))
    BY <1>5 DEF Measured
  <2>2. Word(data) = len
    BY <1>1, <1>2, <1>5, WordOfBytes DEF len
  <2>3. QED
    BY <2>1, <2>2, <1>1, <1>2, <1>3, <1>len DEF Buffered, len
<1>6. CASE msgLen = Unknown /\ data = <<>>
  <2>1. ~(Len(data) >= LENGTH_CHUNK_SIZE) /\ Len(data) = 0
    BY <1>0, <1>6
  <2>2. Measured = Buffered(data, newDataBegin,
                            Word(Bytes(newDataBegin, LENGTH_CHUNK_SIZE)))
    BY <1>6, <2>1 DEF Measured
  <2>3. newDataBegin = expected
    BY <1>1, <1>2, <2>1
  <2>4. Word(Bytes(newDataBegin, LENGTH_CHUNK_SIZE)) = len
    BY <1>0, <1>1, <2>3, WordOfBytes DEF len
  <2>5. QED
    BY <2>2, <2>4, <1>1, <1>2, <1>3, <1>len DEF Buffered, len
<1>7. CASE /\ msgLen = Unknown
           /\ ~(Len(data) >= LENGTH_CHUNK_SIZE)
           /\ data # <<>>
  <2> DEFINE missing == LENGTH_CHUNK_SIZE - Len(data)
             chunk == data \o Bytes(newDataBegin, missing)
  <2>1. Measured = Buffered(chunk, newDataBegin + missing, Word(chunk))
    BY <1>7 DEF Measured
  <2>2. missing \in Nat /\ Len(data) + missing = LENGTH_CHUNK_SIZE
    BY <1>0, <1>1, <1>7
  <2>3. newDataBegin + missing <= newDataEnd
    BY <1>0, <1>1, <1>7 DEF Measurable
  <2>4. chunk = Bytes(expected, LENGTH_CHUNK_SIZE)
    <3> HIDE DEF missing
    <3>1. Bytes(expected, Len(data)) \o Bytes(expected + Len(data), missing)
            = Bytes(expected, Len(data) + missing)
      BY <1>1, <2>2, BytesConcat
    <3>2. chunk = Bytes(expected, Len(data))
                    \o Bytes(expected + Len(data), missing)
      BY <1>2
    <3>3. QED
      BY <3>1, <3>2, <2>2
  <2> HIDE DEF missing, chunk
  <2>5. Len(chunk) = LENGTH_CHUNK_SIZE
    BY <1>0, <1>1, <2>4, BytesSeq
  <2>6. Word(chunk) = len
    BY <1>0, <1>1, <2>4, WordOfBytes DEF len
  <2>7. newDataBegin + missing = expected + LENGTH_CHUNK_SIZE
    BY <1>0, <1>1, <1>2, <2>2
  <2>8. QED
    BY <2>1, <2>3, <2>4, <2>5, <2>6, <2>7, <1>0, <1>1, <1>3, <1>len DEF Buffered, len
<1>8. QED
  BY <1>3, <1>4, <1>5, <1>6, <1>7 DEF len

(* What Keep leaves in the buffer. *)
LEMMA KeepIsAligned ==
  ASSUME FormerIInv, NEW d, NEW b \in Nat, Keep(d, b),
         Len(d) \in Nat, Len(d) <= BufferSize,
         d = Bytes(expected, Len(d)), b = expected + Len(d),
         b <= newDataEnd, newDataEnd - expected <= BufferSize
  PROVE  /\ data' = Bytes(expected, Len(data'))
         /\ data' \in Seq(Nat)
         /\ Len(data') \in Nat
         /\ Len(data') <= BufferSize
         /\ newDataBegin' = newDataEnd
         /\ newDataBegin' = expected + Len(data')
<1>0. BufferSize \in Nat /\ newDataEnd \in Nat /\ expected \in Nat
  BY FormerAssumption DEF FormerIInv, FormerTypeOK
<1> DEFINE n == newDataEnd - b
<1>1. n \in Nat /\ n <= BufferSize - Len(d) /\ Len(d) + n = newDataEnd - expected
  BY <1>0
<1>2. data' = d \o Bytes(b, n) /\ newDataBegin' = newDataEnd
  BY <1>1 DEF Keep
<1> HIDE DEF n
<1>3. d \o Bytes(b, n) = Bytes(expected, Len(d) + n)
  <2>1. Bytes(expected, Len(d)) \o Bytes(expected + Len(d), n)
          = Bytes(expected, Len(d) + n)
    BY <1>0, <1>1, BytesConcat
  <2>2. QED
    BY <2>1
<1>4. Len(d) + n \in Nat
  BY <1>1
<1>5. data' = Bytes(expected, Len(d) + n)
  BY <1>2, <1>3
<1>6. data' \in Seq(Nat) /\ Len(data') = Len(d) + n
  BY <1>0, <1>4, <1>5, BytesSeq
<1>7. newDataBegin' = expected + Len(data')
  <2>1. expected + (Len(d) + n) = newDataEnd
    BY <1>0, <1>1
  <2>2. newDataBegin' = newDataEnd /\ Len(data') = Len(d) + n
    BY <1>2, <1>6
  <2>3. QED
    BY <2>1, <2>2
<1>8. data' = Bytes(expected, Len(data'))
  BY <1>5, <1>6
<1>9. Len(data') <= BufferSize
  BY <1>0, <1>1, <1>6
<1>10. QED
  BY <1>2, <1>4, <1>6, <1>7, <1>8, <1>9

-----------------------------------------------------------------------------
(* The invariant is inductive. *)

(* An empty former satisfies it. *)
LEMMA FormerInitIInv == FormerInit => FormerIInv
BY FormerAssumption DEF FormerInit, FormerIInv, FormerTypeOK, Aligned, Drained, Bytes

(* recv appends to the stream and disturbs nothing that is buffered. *)
LEMMA ReceiveIInv ==
  ASSUME FormerIInv, NEW n \in 1 .. ReceiveSize, Receive(n)
  PROVE  FormerIInv'
<1>0. ReceiveSize \in Nat /\ StreamEnd \in Nat
  BY FormerAssumption
<1>1. newDataEnd \in Nat /\ newDataBegin = newDataEnd
  BY <1>0 DEF FormerIInv, FormerTypeOK, Drained, Receive
<1>2. FormerTypeOK'
  BY <1>0, <1>1 DEF FormerIInv, FormerTypeOK, Receive
<1>3. Aligned'
  BY <1>1 DEF FormerIInv, Aligned, Receive
<1>4. Drained'
  BY DEF Drained, Receive
<1>5. QED
  BY <1>2, <1>3, <1>4 DEF FormerIInv

(* A message handed out is the next one. *)
LEMMA ReceiveMessageNext ==
  ASSUME FormerIInv, ReceiveMessage
  PROVE  /\ expected \in Starts \ {StreamEnd}
         /\ pack' = Bytes(expected, WordAt[expected])
         /\ expected' = expected + WordAt[expected]
         /\ expected' <= newDataEnd
         /\ newDataBegin' = expected'
<1> DEFINE m == Measured
           k == Len(m.data)
           missing == m.len - k
<1>1. /\ expected # StreamEnd /\ m.len = WordAt[expected]
      /\ m.data = Bytes(expected, k) /\ k \in Nat /\ k <= m.len
      /\ m.begin = expected + k /\ m.begin <= newDataEnd
  BY MeasuredIsAligned DEF ReceiveMessage
<1>2. Complete(m)
  BY DEF ReceiveMessage
<1>3. expected \in Starts /\ expected \in Nat /\ newDataEnd \in Nat
  BY FormerAssumption DEF FormerIInv, FormerTypeOK, Aligned
<1>4. WordAt[expected] \in Nat
  BY <1>1, <1>3, MessageAt
<1>5. missing \in Nat /\ k + missing = WordAt[expected]
  BY <1>1, <1>4
<1>6. m.begin + missing = expected + WordAt[expected]
  BY <1>1, <1>3, <1>5
<1>7. expected + WordAt[expected] <= newDataEnd
  BY <1>1, <1>2, <1>3, <1>4 DEF Complete
<1>8. /\ pack' = m.data \o Bytes(m.begin, missing)
      /\ expected' = m.begin + missing
      /\ newDataBegin' = m.begin + missing
  BY DEF ReceiveMessage
<1> HIDE DEF m, k, missing
<1>9. Bytes(expected, k) \o Bytes(expected + k, missing)
        = Bytes(expected, WordAt[expected])
  <2>1. k \in Nat
    BY <1>1
  <2>2. Bytes(expected, k) \o Bytes(expected + k, missing)
          = Bytes(expected, k + missing)
    BY <2>1, <1>3, <1>5, BytesConcat
  <2>3. QED
    BY <2>2, <1>5
<1>10. pack' = Bytes(expected, WordAt[expected])
  BY <1>1, <1>8, <1>9
<1>11. QED
  BY <1>1, <1>3, <1>6, <1>7, <1>8, <1>10

(* Handing out a message keeps the invariant, for the message after it. *)
LEMMA ReceiveMessageIInv ==
  ASSUME FormerIInv, ReceiveMessage
  PROVE  FormerIInv'
<1>0. /\ LENGTH_CHUNK_SIZE \in Nat \ {0} /\ BufferSize \in Nat
      /\ StreamEnd \in Nat /\ Starts \subseteq 0 .. StreamEnd
      /\ Unknown \notin Nat
  BY FormerAssumption
<1>1. /\ expected \in Starts \ {StreamEnd}
      /\ pack' = Bytes(expected, WordAt[expected])
      /\ expected' = expected + WordAt[expected]
      /\ expected' <= newDataEnd
      /\ newDataBegin' = expected'
  BY ReceiveMessageNext
<1>2. /\ data' = <<>> /\ msgLen' = Unknown /\ pc' = "former"
      /\ newDataEnd' = newDataEnd
  BY DEF ReceiveMessage
<1>3. WordAt[expected] \in Nat /\ expected \in Nat /\ expected' \in Starts
  BY <1>1, MessageAt
<1>4. pack' \in Seq(Nat)
  BY <1>1, <1>3, BytesSeq
<1>5. expected' \in Nat
  BY <1>0, <1>3
<1>6. FormerTypeOK'
  BY <1>0, <1>1, <1>2, <1>4, <1>5 DEF FormerIInv, FormerTypeOK
<1>7. Aligned'
  <2>1. data' = Bytes(expected', Len(data'))
    BY <1>2 DEF Bytes
  <2>2. newDataBegin' = expected' + Len(data')
    BY <1>1, <1>2, <1>5
  <2>3. expected' # StreamEnd => Len(data') < WordAt[expected']
    BY <1>0, <1>2, <1>3, MessageAt
  <2>4. QED
    BY <2>1, <2>2, <2>3, <1>2, <1>3 DEF Aligned
<1>8. Drained'
  BY <1>2 DEF Drained
<1>9. QED
  BY <1>6, <1>7, <1>8 DEF FormerIInv

(* Keeping the rest keeps the invariant and leaves nothing unbuffered. *)
LEMMA ReceiveRestIInv ==
  ASSUME FormerIInv, ReceiveRest
  PROVE  FormerIInv'
<1>0. /\ LENGTH_CHUNK_SIZE \in Nat \ {0} /\ BufferSize \in Nat
      /\ LENGTH_CHUNK_SIZE <= BufferSize
      /\ StreamEnd \in Nat /\ Starts \subseteq 0 .. StreamEnd
  BY FormerAssumption
<1>1. /\ data \in Seq(Nat) /\ Len(data) \in Nat /\ Len(data) <= BufferSize
      /\ newDataEnd \in 0 .. StreamEnd /\ newDataBegin \in 0 .. newDataEnd
      /\ expected \in Nat /\ pack \in Seq(Nat)
      /\ msgLen \in Nat \cup {Unknown}
  BY <1>0 DEF FormerIInv, FormerTypeOK
<1>2. /\ data = Bytes(expected, Len(data))
      /\ newDataBegin = expected + Len(data)
      /\ expected \in Starts
  BY DEF FormerIInv, Aligned
<1>3. /\ pc' = "recv" /\ newDataEnd' = newDataEnd /\ pack' = pack
      /\ expected' = expected
  BY DEF ReceiveRest
<1>4. expected # StreamEnd =>
        /\ WordAt[expected] \in Nat
        /\ LENGTH_CHUNK_SIZE <= WordAt[expected]
        /\ WordAt[expected] <= BufferSize
  BY <1>2, MessageAt
(* Both ways, what is kept fits and is less than a message. *)
<1> DEFINE Kept ==
      /\ newDataEnd - expected <= BufferSize
      /\ expected # StreamEnd => newDataEnd < expected + WordAt[expected]
      /\ data' = Bytes(expected, Len(data'))
      /\ data' \in Seq(Nat)
      /\ Len(data') \in Nat
      /\ Len(data') <= BufferSize
      /\ newDataBegin' = newDataEnd
      /\ newDataBegin' = expected + Len(data')
      /\ msgLen' \in Nat \cup {Unknown}
      /\ msgLen' # Unknown =>
           /\ expected # StreamEnd
           /\ msgLen' = WordAt[expected]
           /\ LENGTH_CHUNK_SIZE <= Len(data')
<1>5. ASSUME ~Measurable, Keep(data, newDataBegin), msgLen' = msgLen
      PROVE  Kept
  <2>1. newDataEnd - expected < LENGTH_CHUNK_SIZE
    BY <1>0, <1>1, <1>2, <1>5 DEF Measurable
  <2>2. newDataEnd - expected <= BufferSize
    BY <2>1, <1>0, <1>1
  <2>3. expected # StreamEnd => newDataEnd < expected + WordAt[expected]
    BY <2>1, <1>0, <1>1, <1>4
  <2>4. /\ data' = Bytes(expected, Len(data'))
        /\ data' \in Seq(Nat) /\ Len(data') \in Nat
        /\ Len(data') <= BufferSize
        /\ newDataBegin' = newDataEnd
        /\ newDataBegin' = expected + Len(data')
    <3>1. newDataBegin \in Nat /\ newDataBegin <= newDataEnd
      BY <1>0, <1>1
    <3>2. QED
      BY <3>1, <2>2, <1>1, <1>2, <1>5, KeepIsAligned
  <2>5. msgLen' = Unknown
    BY <1>5 DEF Measurable
  <2>6. QED
    BY <2>2, <2>3, <2>4, <2>5
<1>6. ASSUME Measurable, ~Complete(Measured),
             Keep(Measured.data, Measured.begin), msgLen' = Measured.len
      PROVE  Kept
  <2> DEFINE d == Measured.data
             b == Measured.begin
             l == Measured.len
  <2>1. /\ expected # StreamEnd /\ l = WordAt[expected]
        /\ d = Bytes(expected, Len(d)) /\ Len(d) \in Nat /\ Len(d) <= l
        /\ b = expected + Len(d) /\ b <= newDataEnd
    BY <1>6, MeasuredIsAligned
  <2>2. Keep(d, b) /\ msgLen' = l
    BY <1>6
  <2>3. ~(Len(d) + newDataEnd - b >= l)
    BY <1>4, <1>6, <2>1 DEF Complete
  <2> HIDE DEF d, b, l
  <2>4. newDataEnd < expected + WordAt[expected]
    BY <2>1, <2>3, <1>0, <1>1, <1>4
  <2>5. newDataEnd - expected <= BufferSize
    BY <2>1, <2>4, <1>0, <1>1, <1>4
  <2>6. b \in Nat /\ Len(d) <= BufferSize
    BY <2>1, <1>0, <1>1, <1>4
  <2>7. /\ data' = Bytes(expected, Len(data'))
        /\ data' \in Seq(Nat) /\ Len(data') \in Nat
        /\ Len(data') <= BufferSize
        /\ newDataBegin' = newDataEnd
        /\ newDataBegin' = expected + Len(data')
    BY <2>1, <2>2, <2>5, <2>6, KeepIsAligned
  <2>8. msgLen' \in Nat /\ msgLen' = WordAt[expected]
    BY <2>1, <2>2, <1>4
  <2>9. LENGTH_CHUNK_SIZE <= newDataEnd - expected
    <3>1. CASE msgLen # Unknown
      BY <3>1, <1>0, <1>1, <1>2 DEF FormerIInv, Aligned
    <3>2. CASE msgLen = Unknown
      BY <3>2, <1>0, <1>1, <1>2, <1>6 DEF Measurable
    <3>3. QED
      BY <3>1, <3>2
  <2>10. LENGTH_CHUNK_SIZE <= Len(data')
    BY <2>7, <2>9, <1>0, <1>1
  <2>11. QED
    BY <2>1, <2>4, <2>5, <2>7, <2>8, <2>10
<1>7. Kept
  BY <1>5, <1>6 DEF ReceiveRest
<1>8. FormerTypeOK'
  BY <1>0, <1>1, <1>3, <1>7 DEF FormerTypeOK
<1>9. expected # StreamEnd => Len(data') < WordAt[expected]
  BY <1>0, <1>1, <1>4, <1>7
<1>10. Aligned'
  BY <1>2, <1>3, <1>7, <1>9 DEF Aligned
<1>11. Drained'
  BY <1>3, <1>7 DEF Drained
<1>12. QED
  BY <1>8, <1>10, <1>11 DEF FormerIInv

(* A connection that breaks between messages leaves an empty former. *)
LEMMA ReconnectIInv ==
  ASSUME FormerIInv, NEW p \in Starts, Reconnect(p), CleanBreak
  PROVE  FormerIInv'
<1>0. StreamEnd \in Nat /\ Starts \subseteq 0 .. StreamEnd
      /\ LENGTH_CHUNK_SIZE \in Nat \ {0}
  BY FormerAssumption
<1>1. /\ data = <<>> /\ data' = data
      /\ newDataBegin' = p /\ newDataEnd' = p /\ expected' = p
      /\ msgLen' = msgLen /\ pc' = pc /\ pack' = pack /\ pc = "recv"
  BY DEF Reconnect
<1>2. msgLen = Unknown
  BY <1>0, <1>1 DEF FormerIInv, Aligned
<1>3. p \in 0 .. StreamEnd
  BY <1>0
<1>4. FormerTypeOK'
  BY <1>0, <1>1, <1>3 DEF FormerIInv, FormerTypeOK
<1>5. Aligned'
  <2>1. data' = Bytes(expected', Len(data'))
    BY <1>1 DEF Bytes
  <2>2. newDataBegin' = expected' + Len(data')
    BY <1>1, <1>3
  <2>3. expected' # StreamEnd => Len(data') < WordAt[expected']
    BY <1>0, <1>1, MessageAt
  <2>4. QED
    BY <2>1, <2>2, <2>3, <1>1, <1>2 DEF Aligned
<1>6. Drained'
  BY <1>0, <1>1, <1>3, MessageAt DEF Drained
<1>7. QED
  BY <1>4, <1>5, <1>6 DEF FormerIInv

(* Every step of the former keeps the invariant. *)
LEMMA NextIInv ==
  ASSUME CleanBreak, FormerIInv, [FormerNext]_formerVars
  PROVE  FormerIInv'
<1>1. ASSUME NEW n \in 1 .. ReceiveSize, Receive(n)
      PROVE  FormerIInv'
  BY <1>1, ReceiveIInv
<1>2. CASE ReceiveMessage
  BY <1>2, ReceiveMessageIInv
<1>3. CASE ReceiveRest
  BY <1>3, ReceiveRestIInv
<1>4. ASSUME NEW p \in Starts, Reconnect(p)
      PROVE  FormerIInv'
  BY <1>4, ReconnectIInv
<1>5. CASE UNCHANGED formerVars
  BY <1>5 DEF formerVars, FormerIInv, FormerTypeOK, Aligned, Drained
<1>6. QED
  BY <1>1, <1>2, <1>3, <1>4, <1>5 DEF FormerNext

(* FormerIInv holds in every behaviour whose connections break between messages. *)
THEOREM FormerInvariance == CleanBreak => (FormerSpec => []FormerIInv)
<1> SUFFICES ASSUME CleanBreak
             PROVE  FormerSpec => []FormerIInv
  OBVIOUS
<1>1. FormerInit => FormerIInv
  BY FormerInitIInv
<1>2. FormerIInv /\ [FormerNext]_formerVars => FormerIInv'
  BY NextIInv
<1>3. QED
  BY <1>1, <1>2, PTL DEF FormerSpec

(* The buffer never overflows and is never read beyond what is in it. *)
THEOREM FormerTypeCorrect == CleanBreak => (FormerSpec => []FormerTypeOK)
<1>1. FormerIInv => FormerTypeOK
  BY DEF FormerIInv
<1>2. QED
  BY <1>1, FormerInvariance, PTL

(* Every message handed out is the next of the stream, whole. *)
THEOREM NextHandedOut == CleanBreak => (FormerSpec => HandsOutNext)
<1>1. FormerIInv /\ [FormerNext]_formerVars =>
        [ReceiveMessage =>
           /\ expected \in Starts \ {StreamEnd}
           /\ pack' = Bytes(expected, WordAt[expected])
           /\ expected' = expected + WordAt[expected]]_formerVars
  BY ReceiveMessageNext
<1>2. QED
  BY <1>1, FormerInvariance, PTL DEF FormerSpec, HandsOutNext

(* No whole message stays behind while the thread waits in recv. *)
THEOREM WithholdsNothing == CleanBreak => (FormerSpec => []NothingWithheld)
<1>1. FormerIInv => NothingWithheld
  <2> SUFFICES ASSUME FormerIInv, pc = "recv"
               PROVE  NothingWithheld
    BY DEF NothingWithheld
  <2>0. StreamEnd \in Nat /\ Starts \subseteq 0 .. StreamEnd
    BY FormerAssumption
  <2>1. /\ newDataBegin = newDataEnd
        /\ expected # StreamEnd => newDataEnd < expected + WordAt[expected]
    BY DEF FormerIInv, Drained
  <2>2. /\ newDataEnd \in 0 .. StreamEnd /\ expected \in Starts
        /\ expected \in Nat /\ Len(data) \in Nat
        /\ data = Bytes(expected, Len(data))
        /\ newDataBegin = expected + Len(data)
    BY DEF FormerIInv, FormerTypeOK, Aligned
  <2>3. newDataEnd - expected = Len(data)
    BY <2>0, <2>1, <2>2
  <2>4. ASSUME NEW p \in Starts, p <= newDataEnd
        PROVE  p <= expected
    <3>1. CASE expected = StreamEnd
      BY <3>1, <2>0
    <3>2. CASE expected # StreamEnd
      <4>1. p <= expected \/ expected + WordAt[expected] <= p
        BY <3>2, <2>2, FormerAssumption
      <4>2. WordAt[expected] \in Nat
        BY <3>2, <2>2, MessageAt
      <4>3. p \in Nat
        BY <2>0
      <4>4. QED
        BY <3>2, <4>1, <4>2, <4>3, <2>0, <2>1, <2>2, <2>4
    <3>3. QED
      BY <3>1, <3>2
  <2>5. QED
    BY <2>1, <2>2, <2>3, <2>4 DEF NothingWithheld
<1>2. QED
  BY <1>1, FormerInvariance, PTL

=============================================================================
