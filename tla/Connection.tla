------------------------------ MODULE Connection ------------------------------
(***************************************************************************)
(* The mediator's connection to a Diameter server: DiameterAdapter decides *)
(* when to connect and to which server, CDiameterClient keeps the CER/CEA  *)
(* handshake, and each CClientTransport::Start runs a receive thread (svc) *)
(* that owns the socket.  The adapter's thread and the receive threads     *)
(* share plain members and wait for each other on events that, the start   *)
(* event apart, are never reset.                                           *)
(*                                                                         *)
(* The send queue and the former belong to the client and not to one of    *)
(* its connections: what a connection leaves in them meets the handshake   *)
(* of the next.  A receive thread and the socket it opens have the same    *)
(* name.                                                                   *)
(***************************************************************************)
EXTENDS Naturals, FiniteSets, Sequences

CONSTANTS
  Threads,        (* receive threads, and their sockets                      *)
  None,           (* DS_INVALID_SOCKET                                       *)
  QueueSize,      (* m_maxQueueSize                                          *)
  MaxFaults,      (* bound: connections, listeners and selects that fail     *)
  PromptStop      (* does sleep(1) outlast a round of every receive thread?  *)

ASSUME ConnectionAssumption ==
  /\ IsFiniteSet(Threads)
  /\ None \notin Threads
  /\ QueueSize \in Nat \ {0}
  /\ MaxFaults \in Nat
  /\ PromptStop \in BOOLEAN

VARIABLES
  state,          (* DiameterAdapter::state                                  *)
  main,           (* where the adapter's thread is                           *)
  first,          (* is it still in the Connect call of main()?              *)
  server,         (* m_Host and m_Port: the server being connected to        *)
  reserveOver,    (* 600 s have passed since reserveConnectionTime           *)
  readyEvent,     (* connectReadyEvent                                       *)
  started,        (* CDiameterClient::m_bStarted                             *)
  exit,           (* CClientTransport::m_bExit                               *)
  handle,         (* CClientTransport::m_Handle                              *)
  startEvent,     (* m_StartEvent                                            *)
  stopEvent,      (* m_StopEvent                                             *)
  setHandles,     (* CSendThread::m_setHandles                               *)
  queue,          (* m_lstSendQueue: CERs, and other requests (CCRs, DWRs)   *)
  rest,           (* has an earlier socket had a part of the front packet?   *)
  residue,        (* does the former hold a part of an earlier socket's
                     message?                                                *)
  svc,            (* where each receive thread is in svc()                   *)
  conn,           (* each thread's socket                                    *)
  unchecked,      (* threads that have not looked at m_bExit since Stop      *)
  up,             (* which servers accept connections                        *)
  faults,         (* failures so far                                         *)
  answered,       (* history: open sockets that have delivered a CEA         *)
  lost            (* history: has the last connection made lost its
                     handshake?                                              *)

clientVars == <<started, exit, handle, startEvent, stopEvent, setHandles>>
netVars    == <<queue, rest, residue, conn>>
peerVars   == <<up, faults>>
pastVars   == <<answered, lost>>
mainVars   == <<main, first, server, reserveOver>>
vars == <<state, mainVars, readyEvent, clientVars, netVars, svc, unchecked,
          peerVars, pastVars>>

Servers == {"main", "reserve"}
Ready   == {"ACTIVE", "ACTIVE_RESERVE"}
Socket  == [server : Servers, net : {"none", "open", "broken"},
            cer : BOOLEAN, cea : BOOLEAN, garbled : BOOLEAN]
Packets == {"CER", "other"}

TypeOK ==
  /\ state \in Ready \cup {"UNDEFINED", "INACTIVE"}
  /\ main \in {"Connect", "StartWait", "SetState", "ReadyWait", "loop",
               "StopWait", "sleep", "exit"}
  /\ server \in Servers
  /\ {first, reserveOver, readyEvent, started, exit, startEvent, stopEvent}
       \subseteq BOOLEAN
  /\ handle \in Threads \cup {None}
  /\ setHandles \subseteq Threads
  /\ queue \in Seq(Packets) /\ Len(queue) <= QueueSize
  /\ {rest, residue, lost} \subseteq BOOLEAN
  /\ svc \in [Threads -> {"idle", "connect", "SignalStart", "AddClient",
                          "OnConnect", "check", "select", "RemoveClient",
                          "OnBreak", "close", "SignalStop"}]
  /\ conn \in [Threads -> Socket]
  /\ unchecked \subseteq Threads
  /\ up \in [Servers -> BOOLEAN]
  /\ faults \in 0..MaxFaults
  /\ answered \subseteq Threads

NoSocket == [server |-> "main", net |-> "none", cer |-> FALSE, cea |-> FALSE,
             garbled |-> FALSE]

Init ==
  /\ state = "UNDEFINED"
  /\ main = "Connect"
  /\ first = TRUE
  /\ server = "main"
  /\ reserveOver = FALSE
  /\ readyEvent = FALSE
  /\ started = FALSE
  /\ exit = FALSE
  /\ handle = None
  /\ startEvent = FALSE
  /\ stopEvent = FALSE
  /\ setHandles = {}
  /\ queue = <<>>
  /\ rest = FALSE
  /\ residue = FALSE
  /\ svc = [t \in Threads |-> "idle"]
  /\ conn = [t \in Threads |-> NoSocket]
  /\ unchecked = {}
  /\ up = [s \in Servers |-> TRUE]
  /\ faults = 0
  /\ answered = {}
  /\ lost = FALSE

-----------------------------------------------------------------------------
(* The adapter's thread: Connect, checkConnection, Reconnect *)

ConnectTo_KeepsStarted ==   \* faulty: leaves m_bStarted to Stop
  /\ main = "Connect"
  /\ \E t \in Threads :
       /\ svc[t] = "idle"
       /\ conn[t].net = "none"
       /\ svc' = [svc EXCEPT ![t] = "connect"]
  /\ lost' = FALSE
  /\ startEvent' = FALSE
  /\ exit' = FALSE
  /\ main' = "StartWait"
  /\ UNCHANGED <<started, state, first, server, reserveOver, readyEvent, handle,
                 stopEvent, setHandles, netVars, unchecked, peerVars, answered>>

(* CDiameterClient::Connect and CClientTransport::Start, up to its wait. *)
ConnectTo ==
  /\ main = "Connect"
  /\ \E t \in Threads :
       /\ svc[t] = "idle"
       /\ conn[t].net = "none"
       /\ svc' = [svc EXCEPT ![t] = "connect"]
  /\ lost' = FALSE
  /\ started' = FALSE
  /\ startEvent' = FALSE
  /\ exit' = FALSE
  /\ main' = "StartWait"
  /\ UNCHANGED <<state, first, server, reserveOver, readyEvent, handle,
                 stopEvent, setHandles, netVars, unchecked, peerVars, answered>>

(* Start returns: the socket is there, the reserve is next, or both failed. *)
StartReturns ==
  /\ main = "StartWait"
  /\ startEvent
  /\ \/ /\ handle # None
        /\ main' = "SetState"
        /\ UNCHANGED <<state, server>>
     \/ /\ handle = None
        /\ server = "main"
        /\ server' = "reserve"
        /\ main' = "Connect"
        /\ UNCHANGED state
     \/ /\ handle = None
        /\ server = "reserve"
        /\ state' = "INACTIVE"
        /\ main' = IF first THEN "exit" ELSE "loop"
        /\ UNCHANGED server
  /\ UNCHANGED <<first, reserveOver, readyEvent, clientVars, netVars, svc,
                 unchecked, peerVars, pastVars>>

SetState ==
  /\ main = "SetState"
  /\ state' = IF server = "main" THEN "ACTIVE" ELSE "ACTIVE_RESERVE"
  /\ reserveOver' = FALSE
  /\ main' = "ReadyWait"
  /\ UNCHANGED <<first, server, readyEvent, clientVars, netVars, svc,
                 unchecked, peerVars, pastVars>>

ConnectReturns ==
  /\ main = "ReadyWait"
  /\ readyEvent
  /\ main' = "loop"
  /\ first' = FALSE
  /\ UNCHANGED <<state, server, reserveOver, readyEvent, clientVars, netVars,
                 svc, unchecked, peerVars, pastVars>>

Stop_NoExit ==   \* faulty: does not tell the receive thread
  /\ started' = FALSE
  /\ UNCHANGED <<exit, handle, startEvent, stopEvent, setHandles>>

(* CDiameterClient::Stop and CClientTransport::Stop, up to its wait. *)
Stop ==
  /\ started' = FALSE
  /\ exit' = TRUE
  /\ UNCHANGED <<handle, startEvent, stopEvent, setHandles>>

(* What is put in the queue is dropped when it is full; nobody looks. *)
Put(packet) ==
  queue' = IF Len(queue) < QueueSize THEN Append(queue, packet) ELSE queue

NeedsReconnect ==
  \/ state = "ACTIVE_RESERVE" /\ reserveOver
  \/ state \notin Ready

(* checkConnection when it just sends a watchdog request, CEA or no CEA. *)
SendDWR ==
  /\ main = "loop"
  /\ ~NeedsReconnect
  /\ Put("other")
  /\ UNCHANGED <<state, mainVars, readyEvent, clientVars, rest, residue, conn,
                 svc, unchecked, peerVars, pastVars>>

(* checkConnection when it does not. *)
CheckConnection ==
  /\ main = "loop"
  /\ NeedsReconnect
  /\ Stop
  /\ main' = "StopWait"
  /\ UNCHANGED <<state, first, server, reserveOver, readyEvent, netVars, svc,
                 unchecked, peerVars, pastVars>>

StopReturns ==
  /\ main = "StopWait"
  /\ stopEvent
  /\ main' = "sleep"
  /\ unchecked' = {t \in Threads : svc[t] # "idle"}
  /\ UNCHANGED <<state, first, server, reserveOver, readyEvent, clientVars,
                 netVars, svc, peerVars, pastVars>>

Wake_SameServer ==   \* faulty: retries the server it has left
  /\ main = "sleep"
  /\ PromptStop => unchecked = {}
  /\ main' = "Connect"
  /\ UNCHANGED <<state, first, server, reserveOver, readyEvent, clientVars,
                 netVars, svc, unchecked, peerVars, pastVars>>

(* The end of Reconnect's sleep(1).  A receive thread polls m_bExit twice a
   second, so under PromptStop each has looked at it by now.                *)
Wake ==
  /\ main = "sleep"
  /\ PromptStop => unchecked = {}
  /\ server' = "main"
  /\ main' = "Connect"
  /\ UNCHANGED <<state, first, reserveOver, readyEvent, clientVars, netVars,
                 svc, unchecked, peerVars, pastVars>>

Adapter ==
  ConnectTo \/ StartReturns \/ SetState \/ ConnectReturns \/ SendDWR
  \/ CheckConnection \/ StopReturns \/ Wake

-----------------------------------------------------------------------------
(* A receive thread: CClientTransport::svc *)

Goto(t, label) == svc' = [svc EXCEPT ![t] = label]

SvcConnect(t) ==
  /\ svc[t] = "connect"
  /\ IF up[server]
     THEN /\ handle' = t
          /\ conn' = [conn EXCEPT ![t].server = server, ![t].net = "open"]
     ELSE /\ handle' = None
          /\ UNCHANGED conn
  /\ Goto(t, "SignalStart")
  /\ UNCHANGED <<state, mainVars, readyEvent, started, exit, startEvent,
                 stopEvent, setHandles, queue, rest, residue, unchecked,
                 peerVars, pastVars>>

SignalStart(t) ==
  /\ svc[t] = "SignalStart"
  /\ startEvent' = TRUE
  /\ Goto(t, IF conn[t].net = "none" THEN "idle" ELSE "AddClient")
  /\ UNCHANGED <<state, mainVars, readyEvent, started, exit, handle, stopEvent,
                 setHandles, netVars, unchecked, peerVars, pastVars>>

AddClient(t) ==
  /\ svc[t] = "AddClient"
  /\ setHandles' = setHandles \cup ({handle} \ {None})
  /\ Goto(t, "OnConnect")
  /\ UNCHANGED <<state, mainVars, readyEvent, started, exit, handle,
                 startEvent, stopEvent, netVars, unchecked, peerVars, pastVars>>

(* The CER goes behind what earlier connections have left. *)
SendCER ==
  /\ Put("CER")
  /\ lost' = (lost \/ Len(queue) = QueueSize)

OnConnect(t) ==
  /\ svc[t] = "OnConnect"
  /\ SendCER
  /\ Goto(t, "check")
  /\ UNCHANGED <<state, mainVars, readyEvent, clientVars, rest, residue, conn,
                 unchecked, peerVars, answered>>

CheckExit(t) ==
  /\ svc[t] = "check"
  /\ Goto(t, IF ~exit THEN "select"
             ELSE IF handle # None THEN "RemoveClient" ELSE "SignalStop")
  /\ unchecked' = IF exit THEN unchecked ELSE unchecked \ {t}
  /\ UNCHANGED <<state, mainVars, readyEvent, clientVars, netVars, peerVars,
                 pastVars>>

(* nfds was computed from the thread's own socket: select does not watch a
   later one.                                                               *)
Readable(t) == handle = t /\ (conn[t].cea \/ conn[t].net = "broken")

SelectTimeout(t) ==
  /\ svc[t] = "select"
  /\ ~Readable(t)
  /\ Goto(t, "check")
  /\ UNCHANGED <<state, mainVars, readyEvent, clientVars, netVars, unchecked,
                 peerVars, pastVars>>

SelectFails(t) ==
  /\ svc[t] = "select"
  /\ faults < MaxFaults
  /\ faults' = faults + 1
  /\ exit' = TRUE
  /\ Goto(t, "check")
  /\ UNCHANGED <<state, mainVars, readyEvent, started, handle, startEvent,
                 stopEvent, setHandles, netVars, unchecked, up, pastVars>>

OnReceiveCEA(t) ==
  /\ svc[t] = "select"
  /\ Readable(t)
  /\ conn[t].cea
  /\ ~residue
  /\ conn' = [conn EXCEPT ![t].cea = FALSE]
  /\ started' = TRUE
  /\ readyEvent' = (readyEvent \/ ~started)    \* OnReadyConnection
  /\ answered' = answered \cup {t}
  /\ Goto(t, "check")
  /\ UNCHANGED <<state, mainVars, exit, handle, startEvent, stopEvent,
                 setHandles, queue, rest, residue, unchecked, peerVars, lost>>

(* The former takes the CEA for the rest of the message it holds; the two end
   together, or leave it with a part of the CEA or waiting for more.        *)
SwallowCEA(t) ==
  /\ svc[t] = "select"
  /\ Readable(t)
  /\ conn[t].cea
  /\ residue
  /\ residue' \in BOOLEAN
  /\ lost' = TRUE
  /\ conn' = [conn EXCEPT ![t].cea = FALSE]
  /\ Goto(t, "check")
  /\ UNCHANGED <<state, mainVars, readyEvent, clientVars, queue, rest,
                 unchecked, peerVars, answered>>

RecvBroken(t) ==
  /\ svc[t] = "select"
  /\ Readable(t)
  /\ conn[t].net = "broken"
  /\ exit' = TRUE
  /\ Goto(t, "check")
  /\ UNCHANGED <<state, mainVars, readyEvent, started, handle, startEvent,
                 stopEvent, setHandles, netVars, unchecked, peerVars, pastVars>>

(* The send thread may have written a part of the packet at the front. *)
RemoveClient(t) ==
  /\ svc[t] = "RemoveClient"
  /\ setHandles' = setHandles \ {handle}
  /\ rest' \in {rest, queue # <<>>}
  /\ Goto(t, "OnBreak")
  /\ UNCHANGED <<state, mainVars, readyEvent, started, exit, handle,
                 startEvent, stopEvent, queue, residue, conn, unchecked,
                 peerVars, pastVars>>

(* OnBreakConnection; the sessions go too (SessionManager!EraseSessions).
   SetState will overwrite the state, or nothing will end Connect's wait.   *)
OnBreak(t) ==
  /\ svc[t] = "OnBreak"
  /\ state' = "INACTIVE"
  /\ lost' = (lost \/ main \in {"StartWait", "SetState"}
                   \/ (main = "ReadyWait" /\ ~readyEvent))
  /\ Goto(t, "close")
  /\ UNCHANGED <<mainVars, readyEvent, clientVars, netVars, unchecked,
                 peerVars, answered>>

(* The former keeps what it has of a message that the end has cut off. *)
CloseHandle(t) ==
  /\ svc[t] = "close"
  /\ conn' = IF handle = None THEN conn
             ELSE [conn EXCEPT ![handle] = NoSocket]
  /\ answered' = answered \ {handle}
  /\ \/ UNCHANGED residue
     \/ /\ handle \in answered \/ (handle # None /\ conn[handle].cea)
        /\ residue' = TRUE
  /\ handle' = None
  /\ Goto(t, "SignalStop")
  /\ UNCHANGED <<state, mainVars, readyEvent, started, exit, startEvent,
                 stopEvent, setHandles, queue, rest, unchecked, peerVars,
                 lost>>

SignalStop(t) ==
  /\ svc[t] = "SignalStop"
  /\ stopEvent' = TRUE
  /\ Goto(t, "idle")
  /\ unchecked' = unchecked \ {t}
  /\ UNCHANGED <<state, mainVars, readyEvent, started, exit, handle,
                 startEvent, setHandles, netVars, peerVars, pastVars>>

Svc(t) ==
  \/ SvcConnect(t) \/ SignalStart(t) \/ AddClient(t) \/ OnConnect(t)
  \/ CheckExit(t) \/ SelectTimeout(t) \/ SelectFails(t) \/ OnReceiveCEA(t)
  \/ SwallowCEA(t) \/ RecvBroken(t) \/ RemoveClient(t) \/ OnBreak(t)
  \/ CloseHandle(t) \/ SignalStop(t)

-----------------------------------------------------------------------------
(* The consumer thread, the send thread, the servers and the clock *)

(* CDiameterClient::Send *)
SendCCR ==
  /\ started
  /\ Put("other")
  /\ UNCHANGED <<state, mainVars, readyEvent, clientVars, rest, residue, conn,
                 svc, unchecked, peerVars, pastVars>>

(* What is sent into a broken connection is lost.  The rest of a packet that an
   earlier socket had begun with leaves this one's stream without an order. *)
SendFromQueue(h) ==
  /\ h \in setHandles
  /\ queue # <<>>
  /\ queue' = Tail(queue)
  /\ rest' = FALSE
  /\ \/ conn[h].net # "open" /\ UNCHANGED <<conn, lost>>
     \/ /\ conn[h].net = "open"
        /\ conn' = [conn EXCEPT ![h].cer = conn[h].cer \/ Head(queue) = "CER",
                                ![h].garbled = conn[h].garbled \/ rest]
        /\ lost' = (lost \/ rest)
  /\ UNCHANGED <<state, mainVars, readyEvent, clientVars, residue, svc,
                 unchecked, peerVars, answered>>

(* A server does not answer a request without a CER before it, nor one that it
   cannot make out.                                                         *)
Answer(h) ==
  /\ conn[h].net = "open"
  /\ conn[h].cer
  /\ ~conn[h].garbled
  /\ conn' = [conn EXCEPT ![h].cer = FALSE, ![h].cea = TRUE]
  /\ UNCHANGED <<state, mainVars, readyEvent, clientVars, queue, rest, residue,
                 svc, unchecked, peerVars, pastVars>>

Break(h) ==
  /\ faults < MaxFaults
  /\ conn[h].net = "open"
  /\ conn' = [conn EXCEPT ![h].net = "broken"]
  /\ faults' = faults + 1
  /\ UNCHANGED <<state, mainVars, readyEvent, clientVars, queue, rest, residue,
                 svc, unchecked, up, pastVars>>

GoDown(s) ==
  /\ faults < MaxFaults
  /\ up[s]
  /\ up' = [up EXCEPT ![s] = FALSE]
  /\ faults' = faults + 1
  /\ UNCHANGED <<state, mainVars, readyEvent, clientVars, netVars, svc,
                 unchecked, pastVars>>

ComeUp(s) ==
  /\ ~up[s]
  /\ up' = [up EXCEPT ![s] = TRUE]
  /\ UNCHANGED <<state, mainVars, readyEvent, clientVars, netVars, svc,
                 unchecked, faults, pastVars>>

ReserveTimePasses ==
  /\ state = "ACTIVE_RESERVE"
  /\ ~reserveOver
  /\ reserveOver' = TRUE
  /\ UNCHANGED <<state, main, first, server, readyEvent, clientVars, netVars,
                 svc, unchecked, peerVars, pastVars>>

Environment ==
  \/ \E h \in Threads : Answer(h) \/ Break(h)
  \/ \E s \in Servers : GoDown(s) \/ ComeUp(s)
  \/ ReserveTimePasses

(* main() has returned -1. *)
Exited == main = "exit" /\ UNCHANGED vars

(* What a connection that breaks while it is being set up can do for good: the
   first one, and Connect waits in connectReadyEvent.wait(); a later one, and
   the state stays ACTIVE.                                                  *)
Hung ==
  /\ lost
  /\ handle = None
  /\ \/ main = "ReadyWait" /\ ~readyEvent
     \/ main = "loop" /\ state = "ACTIVE"
  /\ UNCHANGED vars

Next ==
  \/ Adapter
  \/ SendCCR
  \/ \E t \in Threads : Svc(t) \/ SendFromQueue(t)
  \/ Environment
  \/ Exited
  \/ Hung

Spec == Init /\ [][Next]_vars

(* Every thread of the process keeps running, a peer that holds a connection
   open answers a CER, and time passes.  Nothing makes a peer come back.     *)
FairSpec ==
  /\ Spec
  /\ WF_vars(Adapter)
  /\ \A t \in Threads : WF_vars(Svc(t)) /\ WF_vars(SendFromQueue(t))
                        /\ WF_vars(Answer(t))
  /\ WF_vars(ReserveTimePasses)

-----------------------------------------------------------------------------
(* One receive thread at a time owns the socket in m_Handle, the send thread
   writes to no other, and every other socket has been closed: a reconnection
   neither leaks a socket nor sends a request to the server it has left.    *)
SocketsOwned ==
  /\ setHandles \subseteq {handle}
  /\ \A t \in Threads :
       conn[t].net \in {"open", "broken"} => handle = t /\ svc[t] # "idle"
  /\ handle # None => conn[handle].net \in {"open", "broken"}

(* While there is a connection, m_bStarted, which lets CCRs into the send
   queue (DiameterClient.cpp:201), says that this connection has brought a CEA,
   not an earlier one.                                                      *)
StartedMeansAnswered == started /\ handle # None => handle \in answered

(* What checkConnection takes the state for (DiameterAdapter.h:115, 125): ACTIVE,
   the application is connected to the main server; ACTIVE_RESERVE, to the
   reserve.  A connection that has broken unnoticed still counts.           *)
ActiveIsConnected ==
  main = "loop" /\ state \in Ready =>
    /\ handle # None
    /\ conn[handle].server = IF state = "ACTIVE" THEN "main" ELSE "reserve"

(* The mediator can have requests answered by the main server. *)
Serving ==
  /\ state = "ACTIVE"
  /\ started
  /\ handle # None
  /\ conn[handle].net = "open"
  /\ conn[handle].server = "main"

(* Once the main server stays up and failures end the mediator returns to it for
   good, whatever connections, listeners and selects have failed before, unless
   the last connection it made has lost its handshake: its CER was refused by a
   full queue (ClientTransport.cpp:137) or followed the rest of a packet begun
   on an earlier socket (197), its CEA met the former with a message cut short
   before (30), or the connection ended before Connect had set the state or seen
   it ready (DiameterAdapter.h:164, 185).                                   *)
Recovers == <>[]up["main"] => <>[](Serving \/ main = "exit" \/ lost)
===============================================================================
