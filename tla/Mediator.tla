------------------------------- MODULE Mediator -------------------------------
(***************************************************************************)
(* The whole mediator around the charging of module Charging: main starts  *)
(* and stops the RabbitMQ adapter, whose thread takes the messages that    *)
(* Charging consumes, and the Diameter receive thread sends the responses  *)
(* that Charging produces through the adapter's other channel.  The three  *)
(* threads share the adapter's state, a plain field.  The broker may       *)
(* refuse or break either channel.                                         *)
(***************************************************************************)
EXTENDS Charging

VARIABLES
  state,            (* RabbitMQAdapter::state                               *)
  main,             (* where main is                                        *)
  svc,              (* where the adapter's thread is                        *)
  sending,          (* the response the receive thread is sending           *)
  dropped           (* history: where main was when send refused a response *)

adapterVars  == <<state, main, svc>>
replyVars    == <<sending, dropped>>
mediatorVars == <<vars, adapterVars, replyVars>>

RMQAState == {"UNDEFINED", "ACTIVE", "RECEIVING_STOPPED", "CREATION_FAILED"}

MediatorTypeOK ==
  /\ TypeOK
  /\ state \in RMQAState
  /\ main \in {"start", "loop", "stopped"}
  /\ svc \in {"create", "loop", "consume", "ended"}
  /\ sending \in (Requests \X Requests) \cup {None}

MediatorInit ==
  /\ Init
  /\ state = "UNDEFINED"
  /\ main = "start"
  /\ svc = "create"
  /\ sending = None
  /\ dropped = {}

-----------------------------------------------------------------------------
(* main, from the new thread that start() makes first to the end of its loop *)

(* start() returns when it has a channel to reply on; when it throws, the
   process ends.                                                            *)
Started ==
  /\ main = "start"
  /\ state' = "ACTIVE"
  /\ main' = "loop"
  /\ UNCHANGED <<vars, svc, replyVars>>

Stop ==
  /\ main = "loop"
  /\ state' = "RECEIVING_STOPPED"
  /\ main' = "stopped"
  /\ UNCHANGED <<vars, svc, replyVars>>

-----------------------------------------------------------------------------
(* RabbitMQAdapter::svc *)

(* Only a refused access is told to the others. *)
CreateConsumer ==
  /\ svc = "create"
  /\ \/ svc' = "loop" /\ UNCHANGED state
     \/ svc' = "ended" /\ UNCHANGED state
     \/ svc' = "ended" /\ state' = "CREATION_FAILED"
  /\ UNCHANGED <<vars, main, replyVars>>

(* The state is looked at when the last message has been handled. *)
TestState ==
  /\ svc = "loop"
  /\ mq = "idle"
  /\ svc' = IF state = "RECEIVING_STOPPED" THEN "ended" ELSE "consume"
  /\ UNCHANGED <<vars, state, main, replyVars>>

(* BasicConsumeMessage has no timeout: stop() does not wake it. *)
ConsumeMessage(r) ==
  /\ svc = "consume"
  /\ Consume(r)
  /\ svc' = "loop"
  /\ UNCHANGED <<state, main, replyVars>>

(* An exception ends the thread, without a word to the others. *)
ConsumeFails ==
  /\ svc = "consume"
  /\ svc' = "ended"
  /\ UNCHANGED <<vars, state, main, replyVars>>

HandleMessage ==
  /\ Hold \/ Send \/ Register \/ SendError
  /\ UNCHANGED <<adapterVars, replyVars>>

AdapterThread ==
  \/ CreateConsumer \/ TestState \/ ConsumeFails \/ HandleMessage
  \/ \E r \in Requests : ConsumeMessage(r)

-----------------------------------------------------------------------------
(* The Diameter receive thread, up to mqAdapter->send *)

(* handleOCSResponse is called when the request has left the map. *)
CCAReceived ==
  /\ sending = None
  /\ OnReceiveCCA
  /\ sending' = IF responses' = responses THEN None
                ELSE CHOOSE a \in responses' : a \notin responses
  /\ UNCHANGED <<adapterVars, dropped>>

AnswerReceived ==
  /\ sending = None
  /\ \E r \in Requests, good \in BOOLEAN : OnAnswerMessage(r, good)
  /\ UNCHANGED <<adapterVars, replyVars>>

ConnectionBroken ==
  /\ sending = None
  /\ OnBreakConnection
  /\ UNCHANGED <<adapterVars, replyVars>>

SessionsErased ==
  /\ EraseSessions
  /\ UNCHANGED <<adapterVars, replyVars>>

SendResponse_ActiveOnly ==   \* faulty: nothing is sent once stop() was called
  /\ sending # None
  /\ sending' = None
  /\ IF state = "ACTIVE"
     THEN UNCHANGED dropped
     ELSE dropped' = dropped \cup {main}
  /\ UNCHANGED <<vars, adapterVars>>

(* The broker may fail a publication too; handleOCSResponse does not look at
   the result.                                                              *)
SendResponse ==
  /\ sending # None
  /\ sending' = None
  /\ IF state \in {"ACTIVE", "RECEIVING_STOPPED"}
     THEN UNCHANGED dropped
     ELSE dropped' = dropped \cup {main}
  /\ UNCHANGED <<vars, adapterVars>>

ReceiveThread ==
  CCAReceived \/ AnswerReceived \/ ConnectionBroken \/ SessionsErased \/ SendResponse

-----------------------------------------------------------------------------
(* The timer thread, the server, the connection and the clock *)
TimersRun ==
  /\ TimerThread
  /\ UNCHANGED <<adapterVars, replyVars>>

ClockTicks ==
  /\ Tick
  /\ UNCHANGED <<adapterVars, replyVars>>

(* An answer is on its way, or the adapter has connected again. *)
Network ==
  /\ (\E r \in Requests : Answer(r)) \/ Reconnect
  /\ UNCHANGED <<adapterVars, replyVars>>

MediatorNext == Started \/ Stop \/ AdapterThread \/ ReceiveThread \/ TimersRun \/ ClockTicks \/ Network

MediatorSpec == MediatorInit /\ [][MediatorNext]_mediatorVars

(* The threads and the clock go on; nobody has to stop the mediator, and the
   server and the broker owe nothing.                                       *)
FairSpec ==
  /\ MediatorSpec
  /\ WF_mediatorVars(HandleMessage)
  /\ WF_mediatorVars(CCAReceived \/ SendResponse)
  /\ WF_mediatorVars(SessionsErased)
  /\ WF_mediatorVars(TimersRun)
  /\ WF_mediatorVars(ClockTicks)

-----------------------------------------------------------------------------
(* The adapter's state keeps a response from the broker only while start() has
   not returned: stop() lets the answers under way go out, and a consumer that
   is refused, whenever it says so, has taken no request (rabbitmqAdapter.h:97,
   102, 147).                                                               *)
DroppedOnlyAtStart == dropped \subseteq {"start"}

(* A request the session manager has accepted stays in the holding map until it
   is answered or times out, through broken connections and whatever main does,
   unless a later request of its session overwrites it there: that one is sent,
   too, or refused, but this one will not get a response any more
   (DiameterAdapter.h:382-385).                                             *)
AcceptedIsKept ==
  \A r \in watched :
    \/ holding[SidOf[r]] = r
    \/ r \in timedOut
    \/ \E a \in responses : a[1] = r
    \/ r \in overwritten

(* An accepted request does not stay in the map for ever, although the server
   may never answer, the connection may break and the broker may fail.          *)
Settles ==
  \A r \in Requests :
    (r \in watched /\ holding[SidOf[r]] = r) ~> (holding[SidOf[r]] # r)
===============================================================================
