------------------------------- MODULE Charging -------------------------------
(***************************************************************************)
(* A charging request on its way through the mediator.  The consumer       *)
(* thread takes it from the message queue, puts it in the request holding  *)
(* map, sends the CCR and tells the session manager; the receive thread    *)
(* tells the session manager of the CCA, takes the request out of the map  *)
(* and replies; the timer thread takes out what has timed out.             *)
(*                                                                         *)
(* Composed of SessionManager, whose variables it shares, the holding map, *)
(* guarded by a mutex of its own, and the three threads' local state.      *)
(* The transport may refuse a CCR; the server answers in any order or not  *)
(* at all.                                                                 *)
(***************************************************************************)
EXTENDS Integers, FiniteSets

CONSTANTS
  Requests,         (* messages of the receive queue that parse             *)
  SidOf,            (* request -> sessionIdStr                              *)
  TypeOf,           (* request -> CC-Request-Type of its CCR                *)
  None,             (* no request                                           *)
  Broken,           (* the receive thread is in OnBreak                     *)
  LastArrival,      (* bound: no message arrives after this time            *)
  Sids, Clients, TimerIds, NullTimer, Uninit, ResponseTimeout,
  SessionTimeout, BatchSize, MaxTime, MaxCreated    (* SessionManager's     *)

VARIABLES
  mapSessions, timersMap, count, created, cancelled, triggered, notifications,
  delivered, pc, currentTime, batch, now, lastHeard   (* SessionManager's   *)

SM == INSTANCE SessionManager

ASSUME SessionManagerAssumption ==
  SM!TimeoutsAssumption /\ SM!BoundsAssumption /\ SM!TimerIdsAssumption

ASSUME ChargingAssumption ==
  /\ SidOf \in [Requests -> Sids]
  /\ TypeOf \in [Requests -> {"EVENT", "INITIAL", "TERMINATION"}]
  /\ {None, Broken} \cap Requests = {}
  /\ None # Broken
  /\ IsFiniteSet(Clients)
  /\ Cardinality(Clients) = 1

(* A session id opens one session: it is made of the client's own request or
   session number.                                                          *)
ASSUME OpenedOnceAssumption ==
  \A q, r \in Requests :
    SidOf[q] = SidOf[r] /\ "TERMINATION" \notin {TypeOf[q], TypeOf[r]} => q = r

VARIABLES
  inbox,            (* messages not consumed yet                            *)
  mq,               (* where the consumer thread is in sendCCR              *)
  cur,              (* its request                                          *)
  holding,          (* requestHoldingMap                                    *)
  ready,            (* is the adapter's state ACTIVE or ACTIVE_RESERVE?     *)
  ccrs,             (* CCRs queued, under way or at the server              *)
  ccas,             (* CCAs under way                                       *)
  rcv,              (* the answer the receive thread is handling            *)
  watched,          (* history: requests the session manager has accepted   *)
  responses,        (* history: responses sent, <<request, answered CCR>>   *)
  timedOut,         (* history: requests a timeout has taken from the map   *)
  overwritten       (* history: requests another one has put out of the map *)

smVars  == <<mapSessions, timersMap, count, created, cancelled, triggered,
             notifications, delivered, pc, currentTime, batch, now, lastHeard>>
mqVars  == <<inbox, mq, cur>>
netVars == <<ready, ccrs, ccas>>
vars == <<smVars, mqVars, netVars, holding, rcv, watched, responses, timedOut,
          overwritten>>

TypeOK ==
  /\ SM!TypeOK
  /\ inbox \subseteq Requests
  /\ mq \in {"idle", "hold", "send", "register", "error"}
  /\ cur \in Requests \cup {None}
  /\ holding \in [Sids -> Requests \cup {None}]
  /\ ready \in BOOLEAN
  /\ ccrs \subseteq Requests
  /\ ccas \subseteq Requests
  /\ rcv \in Requests \cup {None, Broken}
  /\ watched \subseteq Requests
  /\ responses \subseteq Requests \X Requests
  /\ timedOut \subseteq Requests
  /\ overwritten \subseteq Requests

Init ==
  /\ SM!Init
  /\ inbox = Requests
  /\ mq = "idle"
  /\ cur = None
  /\ holding = [s \in Sids |-> None]
  /\ ready = TRUE
  /\ ccrs = {}
  /\ ccas = {}
  /\ rcv = None
  /\ watched = {}
  /\ responses = {}
  /\ timedOut = {}
  /\ overwritten = {}

-----------------------------------------------------------------------------
(* The consumer thread: handleMQMessage, sendCCR *)

(* A request that finds no connection is refused, without a response. *)
Consume(r) ==
  /\ mq = "idle"
  /\ now <= LastArrival
  /\ r \in inbox
  /\ inbox' = inbox \ {r}
  /\ IF ready THEN mq' = "hold" /\ cur' = r ELSE UNCHANGED <<mq, cur>>
  /\ UNCHANGED <<smVars, netVars, holding, rcv, watched, responses, timedOut,
                 overwritten>>

Hold_Late ==   \* faulty: does not put it in the map before sending
  /\ mq = "hold"
  /\ mq' = "send"
  /\ UNCHANGED <<smVars, inbox, cur, netVars, holding, rcv, watched,
                 responses, timedOut, overwritten>>

(* A request of the session that is still in the map loses its place. *)
Hold ==
  /\ mq = "hold"
  /\ holding' = [holding EXCEPT ![SidOf[cur]] = cur]
  /\ overwritten' = overwritten \cup ({holding[SidOf[cur]]} \ {None})
  /\ mq' = "send"
  /\ UNCHANGED <<smVars, inbox, cur, netVars, rcv, watched, responses,
                 timedOut>>

(* m_bStarted, the coder and the send queue's limit may refuse the CCR. *)
Send ==
  /\ mq = "send"
  /\ \/ mq' = "register" /\ ccrs' = ccrs \cup {cur}
     \/ mq' = "error" /\ UNCHANGED ccrs
  /\ UNCHANGED <<smVars, inbox, cur, ready, ccas, holding, rcv, watched,
                 responses, timedOut, overwritten>>

(* OnRequestMessage, whose verdict (_flagSkipPacket) Send ignores. *)
Register ==
  /\ mq = "register"
  /\ \E c \in Clients :
       IF SM!SkipsPacket(SidOf[cur], c, TypeOf[cur])
       THEN UNCHANGED <<smVars, watched>>
       ELSE /\ SM!OnRequestMessage(SidOf[cur], c, TypeOf[cur])
            /\ watched' = watched \cup {cur}
  /\ mq' = "idle"
  /\ cur' = None
  /\ UNCHANGED <<inbox, netVars, holding, rcv, responses, timedOut,
                 overwritten>>

(* The request stays in the map. *)
SendError ==
  /\ mq = "error"
  /\ mq' = "idle"
  /\ cur' = None
  /\ UNCHANGED <<smVars, inbox, netVars, holding, rcv, watched, responses,
                 timedOut, overwritten>>

Consumer ==
  (\E r \in Requests : Consume(r)) \/ Hold \/ Send \/ Register \/ SendError

-----------------------------------------------------------------------------
(* The receive thread: CDiameterClient::OnReceive and OnBreak *)

(* good: the answer lets its session go on. *)
OnAnswerMessage(r, good) ==
  /\ rcv = None
  /\ r \in ccas
  /\ rcv' = r
  /\ ccas' = ccas \ {r}
  /\ IF SM!AwaitsAnswer(SidOf[r])
     THEN SM!OnAnswerMessage(SidOf[r], TypeOf[r], good)
     ELSE UNCHANGED smVars
  /\ UNCHANGED <<mqVars, ready, ccrs, holding, watched, responses, timedOut,
                 overwritten>>

OnReceiveCCA_Keeps ==   \* faulty: leaves the request in the map
  /\ rcv \in Requests
  /\ LET r == holding[SidOf[rcv]]
     IN  IF r = None
         THEN UNCHANGED <<holding, responses>>
         ELSE /\ UNCHANGED holding
              /\ responses' = responses \cup {<<r, rcv>>}
  /\ rcv' = None
  /\ UNCHANGED <<smVars, mqVars, netVars, watched, timedOut, overwritten>>

(* The request is found by its session id alone. *)
OnReceiveCCA ==
  /\ rcv \in Requests
  /\ LET r == holding[SidOf[rcv]]
     IN  IF r = None
         THEN UNCHANGED <<holding, responses>>
         ELSE /\ holding' = [holding EXCEPT ![SidOf[rcv]] = None]
              /\ responses' = responses \cup {<<r, rcv>>}
  /\ rcv' = None
  /\ UNCHANGED <<smVars, mqVars, netVars, watched, timedOut, overwritten>>

OnBreakConnection ==
  /\ rcv = None
  /\ ready
  /\ ready' = FALSE
  /\ rcv' = Broken
  /\ ccas' = {}
  /\ UNCHANGED <<smVars, mqVars, ccrs, holding, watched, responses, timedOut,
                 overwritten>>

EraseSessions_ClearsMap ==   \* faulty: forgets the requests that wait, too
  /\ rcv = Broken
  /\ \E c \in Clients : SM!EraseSessions(c)
  /\ holding' = [s \in Sids |-> None]
  /\ rcv' = None
  /\ UNCHANGED <<mqVars, netVars, watched, responses, timedOut, overwritten>>

EraseSessions ==
  /\ rcv = Broken
  /\ \E c \in Clients : SM!EraseSessions(c)
  /\ rcv' = None
  /\ UNCHANGED <<mqVars, netVars, holding, watched, responses, timedOut,
                 overwritten>>

Receiver ==
  \/ \E r \in Requests, good \in BOOLEAN : OnAnswerMessage(r, good)
  \/ OnReceiveCCA
  \/ OnBreakConnection
  \/ EraseSessions

-----------------------------------------------------------------------------
(* The timer thread *)

Timers ==
  /\ SM!CalculateTimeout \/ SM!ReadClock \/ SM!SignalTimers \/ SM!FlushDone
  /\ UNCHANGED <<mqVars, netVars, holding, rcv, watched, responses, timedOut,
                 overwritten>>

OnTimeout_AnswerTurn(n) ==   \* faulty: OnSessionTimeout only logs
  /\ n \in notifications
  /\ SM!FlushOne
  /\ notifications' = notifications \ {n}
  /\ IF holding[n.sid] = None \/ n.state # "ANSWER_TURN"
     THEN UNCHANGED <<holding, timedOut>>
     ELSE /\ holding' = [holding EXCEPT ![n.sid] = None]
          /\ timedOut' = timedOut \cup {holding[n.sid]}
  /\ UNCHANGED <<mqVars, netVars, rcv, watched, responses, overwritten>>

(* OnResponseTimeout and OnSessionTimeout differ in what they log. *)
OnTimeout(n) ==
  /\ n \in notifications
  /\ SM!FlushOne
  /\ notifications' = notifications \ {n}
  /\ IF holding[n.sid] = None
     THEN UNCHANGED <<holding, timedOut>>
     ELSE /\ holding' = [holding EXCEPT ![n.sid] = None]
          /\ timedOut' = timedOut \cup {holding[n.sid]}
  /\ UNCHANGED <<mqVars, netVars, rcv, watched, responses, overwritten>>

TimerThread == Timers \/ \E n \in SM!Notification : OnTimeout(n)

-----------------------------------------------------------------------------
(* The server, the adapter's thread and the clock *)

Answer(r) ==
  /\ ready
  /\ r \in ccrs
  /\ ccrs' = ccrs \ {r}
  /\ ccas' = ccas \cup {r}
  /\ UNCHANGED <<smVars, mqVars, ready, holding, rcv, watched, responses,
                 timedOut, overwritten>>

Reconnect ==
  /\ ~ready
  /\ rcv = None
  /\ ready' = TRUE
  /\ UNCHANGED <<smVars, mqVars, ccrs, ccas, holding, rcv, watched, responses,
                 timedOut, overwritten>>

(* Bound: the last calls do not outlast LastArrival, so that MaxTime, a
   response timeout later, is late enough for what they have started.       *)
Tick ==
  /\ now >= LastArrival => mq = "idle"
  /\ SM!Tick
  /\ UNCHANGED <<mqVars, netVars, holding, rcv, watched, responses, timedOut,
                 overwritten>>

Next ==
  \/ Consumer
  \/ Receiver
  \/ TimerThread
  \/ \E r \in Requests : Answer(r)
  \/ Reconnect
  \/ Tick

Spec == Init /\ [][Next]_vars

-----------------------------------------------------------------------------
(* A request is settled at most once: one response or one timeout, whatever
   answers, timeouts and broken connections meet.                           *)
SettledOnce ==
  /\ \A a, b \in responses : a[1] = b[1] => a = b
  /\ \A a \in responses : a[1] \notin timedOut

(* The holding map holds no request of which the session manager has lost track:
   one it has accepted and the map still holds has a timed session, or a
   notification or an answer that is about to take it out.                  *)
Watched ==
  \A r \in watched :
    holding[SidOf[r]] = r =>
      \/ /\ SidOf[r] \in DOMAIN mapSessions
         /\ mapSessions[SidOf[r]].timer \in DOMAIN timersMap
      \/ \E n \in notifications : n.sid = SidOf[r]
      \/ rcv \in Requests /\ SidOf[rcv] = SidOf[r]

(* The answer to the only request of a session finds it in the map unless it has
   timed out, however early the answer comes (DiameterAdapter.h:382-385).   *)
AnswerFindsRequest ==
  rcv \in Requests /\ (\A q \in Requests : SidOf[q] = SidOf[rcv] => q = rcv) =>
    holding[SidOf[rcv]] = rcv \/ rcv \in timedOut
===============================================================================
