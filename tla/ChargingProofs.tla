---------------------------- MODULE ChargingProofs ----------------------------
(***************************************************************************)
(* What the mediator guarantees of the charging requests for any number of *)
(* requests, sessions and timers, any timeouts and any number of broken    *)
(* connections.  What holds of the session manager by itself is used here  *)
(* as it stands: every step of Charging is one of its steps, or none.  The *)
(* whole mediator runs Charging in turn: what has been said of Charging    *)
(* holds there, and whatever main, the adapter's thread and the broker do, *)
(* a response finds no way out only while start() has not returned.        *)
(***************************************************************************)
EXTENDS Mediator, TLAPS

SMP == INSTANCE SessionManagerProofs

(* The three threads' own variables. *)
Here ==
  /\ inbox \subseteq Requests
  /\ mq \in {"idle", "hold", "send", "register", "error"}
  /\ cur \in Requests \cup {None}
  /\ holding \in [Sids -> Requests \cup {None}]
  /\ ready \in BOOLEAN
  /\ ccrs \subseteq Requests
  /\ ccas \subseteq Requests
  /\ rcv \in Requests \cup {None, Broken}
  /\ watched \subseteq Requests
  /\ responses \subseteq Requests \X Requests
  /\ timedOut \subseteq Requests
  /\ overwritten \subseteq Requests

(* A request is consumed once, and its CCR or its CCA is in one place. *)
Flow ==
  /\ mq # "idle" => cur \in Requests /\ cur \notin inbox /\ cur \notin watched
  /\ watched \cap inbox = {}
  /\ mq \in {"hold", "send"} => cur \notin ccrs \cup ccas /\ cur # rcv
  /\ inbox \cap (ccrs \cup ccas) = {} /\ rcv \notin inbox
  /\ ccrs \cap ccas = {}
  /\ rcv \notin ccrs \cup ccas

(* The map holds a request under its own session id, from when it is consumed
   until it is settled, and not again.                                      *)
Settled(r) == r \in timedOut \/ \E a \in responses : a[1] = r
Fresh(r) == r \in inbox \/ (mq = "hold" /\ cur = r)

Unsettled ==
  /\ \A s \in Sids, r \in Requests :
       holding[s] = r => SidOf[r] = s /\ ~Settled(r) /\ ~Fresh(r)
  /\ \A r \in Requests : Fresh(r) => ~Settled(r)
  /\ SettledOnce

(* The CCR of the only request of a session cannot be answered for another. *)
Alone(r) == \A q \in Requests : SidOf[q] = SidOf[r] => q = r
Flight(r) == r \in ccrs \cup ccas \/ rcv = r \/ (mq = "send" /\ cur = r)

Found ==
  \A r \in Requests :
    Alone(r) /\ Flight(r) => holding[SidOf[r]] = r \/ r \in timedOut

(* A request that has been put in the map is there, settled, or has lost its
   place there to a later one.                                              *)
Kept(r) ==
  \/ holding[SidOf[r]] = r
  \/ Settled(r)
  \/ r \in overwritten

AllKept ==
  /\ \A r \in watched : Kept(r)
  /\ mq \in {"send", "register"} => Kept(cur)

IInv ==
  /\ SMP!IInv
  /\ Here /\ Flow /\ Unsettled /\ Found /\ AllKept
  /\ ResponseTimeout > 0 => Watched

-----------------------------------------------------------------------------
(* The session manager *)

(* Both instances have the same initial states ... *)
LEMMA SameInit == SM!Init => SMP!Init
BY DEF SM!Init, SMP!Init

(* ... and the same steps. *)
LEMMA SameStep == [SM!Next]_(SM!vars) => [SMP!Next]_(SMP!vars)
BY
   DEF SM!counters, SMP!counters, SM!timerVars, SMP!timerVars, SM!threadVars,
       SMP!threadVars, SM!vars, SMP!vars, SM!Opening, SMP!Opening, SM!RequestTypes,
       SMP!RequestTypes, SM!Notification, SMP!Notification, SM!Put, SMP!Put, SM!Without,
       SMP!Without, SM!SetTimer, SMP!SetTimer, SM!CancelTimer, SMP!CancelTimer,
       SM!UpdateTimer, SMP!UpdateTimer, SM!StopTimer, SMP!StopTimer, SM!StoreTimed,
       SMP!StoreTimed, SM!StoreUntimed, SMP!StoreUntimed, SM!Drop, SMP!Drop, SM!NewSession,
       SMP!NewSession, SM!SkipsPacket, SMP!SkipsPacket, SM!OnRequestMessage,
       SMP!OnRequestMessage, SM!AwaitsAnswer, SMP!AwaitsAnswer, SM!OnAnswerMessage,
       SMP!OnAnswerMessage, SM!Erase, SMP!Erase, SM!EraseSessions, SMP!EraseSessions,
       SM!EraseSession, SMP!EraseSession, SM!DueBy, SMP!DueBy, SM!CalculateTimeout,
       SMP!CalculateTimeout, SM!ReadClock, SMP!ReadClock, SM!Batches, SMP!Batches,
       SM!NotificationOf, SMP!NotificationOf, SM!SignalTimers, SMP!SignalTimers,
       SM!FlushOne, SMP!FlushOne, SM!FlushDone, SMP!FlushDone, SM!Tick, SMP!Tick,
       SM!TimerThread, SMP!TimerThread, SM!Next, SMP!Next, SM!Cardinality, SMP!Cardinality

(* The session manager starts in its inductive invariant ... *)
LEMMA SessionsInit == SM!Init => SMP!IInv
BY SMP!InitIInv, SameInit, SessionManagerAssumption DEF SM!IsFiniteSet, SMP!IsFiniteSet

(* ... and its steps keep it, the constants being fit for it. *)
LEMMA SessionsKept ==
  ASSUME SMP!IInv, [SM!Next]_(SM!vars)
  PROVE  SMP!IInv'
BY SMP!IInvStep, SameStep, SessionManagerAssumption DEF SM!IsFiniteSet, SMP!IsFiniteSet

(* A session's timer is live, and while responses have a timeout a session that
   awaits one has a timer.                                                  *)
LEMMA SessionsFacts ==
  ASSUME SMP!IInv
  PROVE  /\ SM!TypeOK
         /\ \A s \in DOMAIN mapSessions :
              mapSessions[s].timer # NullTimer => mapSessions[s].timer \in DOMAIN timersMap
         /\ \A t \in DOMAIN timersMap : t # NullTimer
         /\ \A s \in DOMAIN mapSessions :
              ResponseTimeout > 0 /\ mapSessions[s].response => mapSessions[s].timer # NullTimer
<1>1. SMP!TypeOK /\ SMP!TimersLinked /\ SMP!AwaitingTimed
  BY DEF SMP!IInv
<1>2. SM!TypeOK
  BY <1>1 DEF SMP!TypeOK, SM!TypeOK, SMP!SessionInfo, SM!SessionInfo, SMP!TimerData, SM!TimerData,
              SMP!Notification, SM!Notification
<1>3. \A t \in DOMAIN timersMap : t # NullTimer
  BY <1>1, SessionManagerAssumption DEF SMP!TypeOK, SM!TimerIdsAssumption
<1> QED  BY <1>1, <1>2, <1>3 DEF SMP!TimersLinked, SMP!AwaitingTimed

(* A request opens its session, or makes it await an answer again. *)
LEMMA RequestStored ==
  ASSUME SM!TypeOK, NEW s, NEW c \in Clients, NEW type, SM!OnRequestMessage(s, c, type)
  PROVE  /\ s \in DOMAIN mapSessions' /\ mapSessions'[s].response
         /\ \A t \in DOMAIN mapSessions : t # s =>
              t \in DOMAIN mapSessions' /\ mapSessions'[t] = mapSessions[t]
         /\ notifications' = notifications
<1> DEFINE info == IF type \in SM!Opening THEN SM!NewSession(c)
                   ELSE [mapSessions[s] EXCEPT !.response = TRUE]
<1>1. info.response /\ \A t : [info EXCEPT !.timer = t].response
  <2>1. CASE type \in SM!Opening
    BY <2>1 DEF SM!NewSession
  <2>2. CASE type \notin SM!Opening
    <3>1. mapSessions[s] \in SM!SessionInfo
      BY <2>2 DEF SM!OnRequestMessage, SM!SkipsPacket, SM!TypeOK
    <3> QED  BY <2>2, <3>1 DEF SM!SessionInfo
  <2> QED  BY <2>1, <2>2
<1>2. \/ mapSessions' = SM!Put(mapSessions, s, info)
      \/ \E t : mapSessions' = SM!Put(mapSessions, s, [info EXCEPT !.timer = t])
  BY DEF SM!OnRequestMessage, SM!StoreTimed, SM!StoreUntimed
<1> HIDE DEF info
<1>3. PICK v : v.response /\ mapSessions' = SM!Put(mapSessions, s, v)
  BY <1>1, <1>2
<1> QED  BY <1>3 DEF SM!Put, SM!OnRequestMessage

(* An answer changes its own session only. *)
LEMMA AnswerStored ==
  ASSUME NEW s, NEW type, NEW good, SM!OnAnswerMessage(s, type, good)
  PROVE  /\ \A t \in DOMAIN mapSessions : t # s =>
              t \in DOMAIN mapSessions' /\ mapSessions'[t] = mapSessions[t]
         /\ notifications' = notifications
<1>1. \/ \E v : mapSessions' = SM!Put(mapSessions, s, v)
      \/ mapSessions' = SM!Without(mapSessions, {s})
  BY DEF SM!OnAnswerMessage, SM!StoreTimed, SM!StoreUntimed, SM!Drop
<1> QED  BY <1>1 DEF SM!Put, SM!Without, SM!OnAnswerMessage

(* A session that has a timer stays until the timer thread takes it. *)
LEMMA ErasedLater ==
  ASSUME SM!TypeOK, NEW c, SM!EraseSessions(c)
  PROVE  /\ \A s \in DOMAIN mapSessions : mapSessions[s].timer # NullTimer =>
              s \in DOMAIN mapSessions' /\ mapSessions'[s].timer = mapSessions[s].timer
         /\ notifications' = notifications
<1> DEFINE S == {s \in DOMAIN mapSessions : mapSessions[s].client = c}
           timed == {s \in S : mapSessions[s].timer # NullTimer}
<1>1. mapSessions' = [s \in DOMAIN mapSessions \ (S \ timed) |->
                        IF s \in timed THEN [mapSessions[s] EXCEPT !.isActive = FALSE]
                        ELSE mapSessions[s]]
  BY DEF SM!EraseSessions, SM!Erase
<1>2. \A s \in DOMAIN mapSessions : [mapSessions[s] EXCEPT !.isActive = FALSE].timer = mapSessions[s].timer
  BY DEF SM!TypeOK, SM!SessionInfo
<1> QED  BY <1>1, <1>2 DEF SM!EraseSessions, SM!Erase

(* A session that the timer thread takes has its notification. *)
LEMMA SignalNotifies ==
  ASSUME SM!SignalTimers
  PROVE  /\ notifications \subseteq notifications'
         /\ \A s \in DOMAIN mapSessions :
              \/ s \in DOMAIN mapSessions' /\ mapSessions'[s] = mapSessions[s]
              \/ \E n \in notifications' : n.sid = s
<1>1. PICK B \in SM!Batches :
        /\ mapSessions' = SM!Without(mapSessions, {timersMap[t].smData : t \in B})
        /\ notifications' = notifications \cup
             {SM!NotificationOf(s) : s \in {timersMap[t].smData : t \in B}}
  BY DEF SM!SignalTimers
<1> DEFINE expired == {timersMap[t].smData : t \in B}
<1>2. \A s \in expired : SM!NotificationOf(s) \in notifications' /\ SM!NotificationOf(s).sid = s
  BY <1>1 DEF SM!NotificationOf
<1> HIDE DEF expired
<1>3. mapSessions' = SM!Without(mapSessions, expired)
  BY <1>1 DEF expired
<1> QED  BY <1>1, <1>2, <1>3 DEF SM!Without

(* Every step of the three threads is a step of the session manager, or none. *)
LEMMA DrivesStep ==
  ASSUME Here, Flow, [Next]_vars
  PROVE  [SM!Next]_(SM!vars)
<1> USE DEF smVars, SM!vars, SM!timerVars, SM!counters, SM!threadVars
<1>1. \A r \in Requests : SidOf[r] \in Sids /\ TypeOf[r] \in SM!RequestTypes
  BY ChargingAssumption DEF SM!RequestTypes, SM!Opening
<1>2. CASE Consumer
  <2>1. CASE Register
    <3>1. cur \in Requests
      BY <2>1 DEF Register, Flow
    <3>2. (\E c \in Clients : SM!OnRequestMessage(SidOf[cur], c, TypeOf[cur])) \/ UNCHANGED smVars
      BY <2>1 DEF Register
    <3> QED  BY <1>1, <3>1, <3>2 DEF SM!Next
  <2>2. CASE ~Register
    BY <1>2, <2>2 DEF Consumer, Consume, Hold, Send, SendError
  <2> QED  BY <2>1, <2>2
<1>3. CASE Receiver
  <2>1. ASSUME NEW r \in Requests, NEW good \in BOOLEAN, OnAnswerMessage(r, good)
        PROVE  [SM!Next]_(SM!vars)
    <3>1. SM!OnAnswerMessage(SidOf[r], TypeOf[r], good) \/ UNCHANGED smVars
      BY <2>1 DEF OnAnswerMessage
    <3> QED  BY <1>1, <3>1 DEF SM!Next
  <2>2. CASE OnReceiveCCA \/ OnBreakConnection
    BY <2>2 DEF OnReceiveCCA, OnBreakConnection
  <2>3. CASE EraseSessions
    BY <2>3 DEF EraseSessions, SM!Next
  <2> QED  BY <1>3, <2>1, <2>2, <2>3 DEF Receiver
<1>4. CASE TimerThread
  <2>1. CASE Timers
    BY <2>1 DEF Timers, SM!Next, SM!TimerThread
  <2>2. CASE \E n \in SM!Notification : OnTimeout(n)
    BY <2>2 DEF OnTimeout, SM!Next, SM!TimerThread
  <2> QED  BY <1>4, <2>1, <2>2 DEF TimerThread
<1>5. CASE (\E r \in Requests : Answer(r)) \/ Reconnect
  BY <1>5 DEF Answer, Reconnect
<1>6. CASE Tick
  BY <1>6 DEF Tick, SM!Next
<1>7. CASE UNCHANGED vars
  BY <1>7 DEF vars
<1> QED  BY <1>2, <1>3, <1>4, <1>5, <1>6, <1>7 DEF Next

-----------------------------------------------------------------------------
(* Requests, CCRs and CCAs *)

(* A message is consumed once and its CCR sent once. *)
LEMMA HereFlowStep ==
  ASSUME Here, Flow, [Next]_vars
  PROVE  Here' /\ Flow'
<1> USE ChargingAssumption DEF smVars, mqVars, netVars
<1>1. CASE Consumer
  <2>1. ASSUME NEW r \in Requests, Consume(r)
        PROVE  Here' /\ Flow'
    <3>1. Here'
      BY <2>1 DEF Consume, Here
    <3>2. Flow'
      BY <2>1 DEF Consume, Here, Flow
    <3> QED  BY <3>1, <3>2
  <2>2. CASE Hold
    <3>1. cur \in Requests
      BY <2>2 DEF Hold, Flow
    <3>2. Here'
      <4>1. SidOf[cur] \in Sids
        BY <3>1, ChargingAssumption
      <4>2. overwritten' \subseteq Requests
        BY <2>2, <4>1 DEF Hold, Here
      <4> QED  BY <2>2, <3>1, <4>1, <4>2 DEF Hold, Here
    <3>3. Flow'
      BY <2>2 DEF Hold, Flow
    <3> QED  BY <3>2, <3>3
  <2>3. CASE Send
    <3>1. cur \in Requests
      BY <2>3 DEF Send, Flow
    <3>2. Here'
      BY <2>3, <3>1 DEF Send, Here
    <3>3. Flow'
      BY <2>3, <3>1 DEF Send, Here, Flow
    <3> QED  BY <3>2, <3>3
  <2>4. CASE Register
    <3>1. cur \in Requests
      BY <2>4 DEF Register, Flow
    <3>2. Here'
      BY <2>4, <3>1 DEF Register, Here
    <3>3. Flow'
      BY <2>4, <3>1 DEF Register, Flow
    <3> QED  BY <3>2, <3>3
  <2>5. CASE SendError
    BY <2>5 DEF SendError, Here, Flow
  <2> QED  BY <1>1, <2>1, <2>2, <2>3, <2>4, <2>5 DEF Consumer
<1>2. CASE Receiver
  <2>1. ASSUME NEW r \in Requests, NEW good \in BOOLEAN, OnAnswerMessage(r, good)
        PROVE  Here' /\ Flow'
    <3>1. /\ rcv = None /\ r \in ccas /\ rcv' = r /\ ccas' = ccas \ {r}
          /\ UNCHANGED <<mqVars, ready, ccrs, holding, watched, responses, timedOut, overwritten>>
      BY <2>1 DEF OnAnswerMessage
    <3>2. Here'
      BY <3>1 DEF Here
    <3>3. Flow'
      BY <3>1 DEF Here, Flow
    <3> QED  BY <3>2, <3>3
  <2>2. CASE OnReceiveCCA
    <3>1. /\ rcv \in Requests /\ rcv' = None
          /\ UNCHANGED <<mqVars, netVars, watched, timedOut, overwritten>>
      BY <2>2 DEF OnReceiveCCA
    <3>2. holding' \in [Sids -> Requests \cup {None}] /\ responses' \subseteq Requests \X Requests
      <4> DEFINE r == holding[SidOf[rcv]]
      <4>1. r \in Requests \cup {None}
        BY <3>1 DEF Here
      <4>2. CASE r = None
        BY <2>2, <4>2 DEF OnReceiveCCA, Here
      <4>3. CASE r # None
        BY <2>2, <3>1, <4>1, <4>3 DEF OnReceiveCCA, Here
      <4> QED  BY <4>2, <4>3
    <3>3. Here'
      BY <3>1, <3>2 DEF Here
    <3>4. Flow'
      BY <3>1 DEF Here, Flow
    <3> QED  BY <3>3, <3>4
  <2>3. CASE OnBreakConnection
    BY <2>3 DEF OnBreakConnection, Here, Flow
  <2>4. CASE EraseSessions
    BY <2>4 DEF EraseSessions, Here, Flow
  <2> QED  BY <1>2, <2>1, <2>2, <2>3, <2>4 DEF Receiver
<1>3. CASE TimerThread
  <2>1. CASE Timers
    BY <2>1 DEF Timers, Here, Flow
  <2>2. ASSUME NEW n \in SM!Notification, OnTimeout(n)
        PROVE  Here' /\ Flow'
    <3>1. UNCHANGED <<mqVars, netVars, rcv, watched, responses, overwritten>>
      BY <2>2 DEF OnTimeout
    <3>2. n.sid \in Sids
      BY DEF SM!Notification
    <3>3. holding' \in [Sids -> Requests \cup {None}] /\ timedOut' \subseteq Requests
      BY <2>2, <3>2 DEF OnTimeout, Here
    <3> QED  BY <3>1, <3>3 DEF Here, Flow
  <2> QED  BY <1>3, <2>1, <2>2 DEF TimerThread
<1>4. CASE (\E r \in Requests : Answer(r)) \/ Reconnect \/ Tick
  <2>1. ASSUME NEW r \in Requests, Answer(r)
        PROVE  Here' /\ Flow'
    BY <2>1 DEF Answer, Here, Flow
  <2>2. CASE Reconnect
    BY <2>2 DEF Reconnect, Here, Flow
  <2>3. CASE Tick
    BY <2>3 DEF Tick, Here, Flow
  <2> QED  BY <1>4, <2>1, <2>2, <2>3
<1>5. CASE UNCHANGED vars
  BY <1>5 DEF vars, Here, Flow
<1> QED  BY <1>1, <1>2, <1>3, <1>4, <1>5 DEF Next

-----------------------------------------------------------------------------
(* What the holding map can lose *)

(* A step puts the request that is being consumed in the map, takes out one
   that it settles, by a response to the CCA at hand or by a timeout, or leaves
   the map and what is settled alone.                                       *)
Answers ==
  LET r == holding[SidOf[rcv]]
  IN  /\ rcv \in Requests /\ r # None /\ rcv' = None
      /\ holding' = [holding EXCEPT ![SidOf[rcv]] = None]
      /\ responses' = responses \cup {<<r, rcv>>} /\ timedOut' = timedOut
      /\ UNCHANGED <<mqVars, netVars, watched, overwritten, notifications, mapSessions, timersMap>>

TimesOut ==
  \E s \in Sids :
    /\ holding[s] # None
    /\ holding' = [holding EXCEPT ![s] = None]
    /\ timedOut' = timedOut \cup {holding[s]} /\ responses' = responses
    /\ UNCHANGED <<mqVars, netVars, watched, overwritten, rcv>>

HoldsSame == UNCHANGED <<holding, responses, timedOut, overwritten>>

(* Who may change what the adapter keeps for a session: a request takes it, an
   answer or a timeout frees it, and nothing else touches it.               *)
LEMMA HoldingStep ==
  ASSUME Here, Flow, [Next]_vars
  PROVE  Hold \/ Answers \/ TimesOut \/ HoldsSame
<1> USE DEF smVars, mqVars, netVars, HoldsSame
<1>1. CASE OnReceiveCCA
  BY <1>1 DEF OnReceiveCCA, Answers
<1>2. ASSUME NEW n \in SM!Notification, OnTimeout(n)
      PROVE  TimesOut \/ HoldsSame
  <2>1. n.sid \in Sids
    BY DEF SM!Notification
  <2> QED  BY <1>2, <2>1 DEF OnTimeout, TimesOut
<1>3. CASE Consumer
  BY <1>3 DEF Consumer, Consume, Send, Register, SendError
<1>4. CASE Receiver
  BY <1>1, <1>4 DEF Receiver, OnAnswerMessage, OnBreakConnection, EraseSessions
<1>5. CASE TimerThread
  BY <1>2, <1>5 DEF TimerThread, Timers
<1>6. CASE (\E r \in Requests : Answer(r)) \/ Reconnect \/ Tick
  BY <1>6 DEF Answer, Reconnect, Tick
<1>7. CASE UNCHANGED vars
  BY <1>7 DEF vars
<1> QED  BY <1>3, <1>4, <1>5, <1>6, <1>7 DEF Next

(* A request is fresh from the start until it is put in the map. *)
LEMMA FreshStep ==
  ASSUME Here, Flow, [Next]_vars
  PROVE  /\ \A r \in Requests : Fresh(r)' => Fresh(r)
         /\ inbox' \subseteq inbox
<1> USE DEF smVars, mqVars, netVars
<1>1. ASSUME NEW r \in Requests, Consume(r)
      PROVE  (\A q \in Requests : Fresh(q)' => Fresh(q)) /\ inbox' \subseteq inbox
  BY <1>1 DEF Consume, Fresh
<1>2. CASE Hold \/ Send \/ Register \/ SendError
  BY <1>2 DEF Hold, Send, Register, SendError, Fresh
<1>3. CASE Receiver
  BY <1>3 DEF Receiver, OnAnswerMessage, OnReceiveCCA, OnBreakConnection, EraseSessions, Fresh
<1>4. CASE TimerThread
  BY <1>4 DEF TimerThread, Timers, OnTimeout, Fresh
<1>5. CASE (\E r \in Requests : Answer(r)) \/ Reconnect \/ Tick
  BY <1>5 DEF Answer, Reconnect, Tick, Fresh
<1>6. CASE UNCHANGED vars
  BY <1>6 DEF vars, Fresh
<1> QED  BY <1>1, <1>2, <1>3, <1>4, <1>5, <1>6 DEF Next, Consumer

(* Nothing that is settled is in the map or will be. *)
LEMMA UnsettledStep ==
  ASSUME Here, Flow, Unsettled, [Next]_vars
  PROVE  Unsettled'
<1> USE ChargingAssumption
<1>1. \A r \in Requests : Fresh(r)' => Fresh(r)
  BY FreshStep
<1>2. \A s \in Sids : holding[s] # None => holding[s] \in Requests
  BY DEF Here
<1>3. CASE HoldsSame
  <2>1. \A r : Settled(r)' <=> Settled(r)
    BY <1>3 DEF HoldsSame, Settled
  <2> QED  BY <1>1, <1>2, <1>3, <2>1 DEF HoldsSame, Unsettled, SettledOnce
<1>4. CASE Hold
  <2>1. /\ cur \in Requests /\ Fresh(cur)
        /\ holding' = [holding EXCEPT ![SidOf[cur]] = cur]
        /\ UNCHANGED <<responses, timedOut>>
    BY <1>4 DEF Hold, Flow, Fresh
  <2>2. \A r : Settled(r)' <=> Settled(r)
    BY <2>1 DEF Settled
  <2>3. ASSUME NEW s \in Sids, NEW r \in Requests, holding'[s] = r
        PROVE  SidOf[r] = s /\ ~Settled(r)' /\ ~Fresh(r)'
    <3>1. CASE s = SidOf[cur]
      <4>1. r = cur
        BY <2>1, <2>3, <3>1 DEF Here
      <4>2. ~Fresh(r)'
        BY <1>4, <4>1 DEF Hold, Fresh, Flow
      <4> QED  BY <2>1, <2>2, <3>1, <4>1, <4>2 DEF Unsettled
    <3>2. CASE s # SidOf[cur]
      <4>1. holding[s] = r
        BY <2>1, <2>3, <3>2 DEF Here
      <4> QED  BY <1>1, <2>2, <4>1 DEF Unsettled
    <3> QED  BY <3>1, <3>2
  <2> QED  BY <1>1, <2>1, <2>2, <2>3 DEF Unsettled, SettledOnce
<1>5. ASSUME NEW s \in Sids, holding[s] # None,
             holding' = [holding EXCEPT ![s] = None],
             \A r : Settled(r)' => Settled(r) \/ r = holding[s],
             SettledOnce'
      PROVE  Unsettled'
  <2>1. ASSUME NEW t \in Sids, NEW r \in Requests, holding'[t] = r
        PROVE  SidOf[r] = t /\ ~Settled(r)' /\ ~Fresh(r)'
    <3>1. t # s /\ holding[t] = r
      BY <1>5, <2>1 DEF Here
    <3>2. r # holding[s]
      BY <1>5, <2>1, <3>1 DEF Unsettled
    <3> QED  BY <1>1, <1>5, <3>1, <3>2 DEF Unsettled
  <2>2. \A r \in Requests : Fresh(r)' => ~Settled(r)'
    BY <1>1, <1>5 DEF Unsettled
  <2> QED  BY <1>5, <2>1, <2>2 DEF Unsettled
<1>6. CASE Answers
  <2> DEFINE s == SidOf[rcv]
             r == holding[s]
  <2>1. /\ s \in Sids /\ r # None
        /\ holding' = [holding EXCEPT ![s] = None]
        /\ responses' = responses \cup {<<r, rcv>>} /\ timedOut' = timedOut
    BY <1>6 DEF Answers
  <2>2. ~Settled(r)
    BY <1>2, <2>1 DEF Unsettled
  <2> HIDE DEF r, s
  <2>3. \A q : Settled(q)' => Settled(q) \/ q = r
    BY <2>1 DEF Settled
  <2>4. SettledOnce'
    BY <2>1, <2>2 DEF Unsettled, SettledOnce, Settled
  <2> QED  BY <1>5, <2>1, <2>3, <2>4 DEF r
<1>7. CASE TimesOut
  <2>1. PICK s \in Sids :
          /\ holding[s] # None
          /\ holding' = [holding EXCEPT ![s] = None]
          /\ timedOut' = timedOut \cup {holding[s]} /\ responses' = responses
    BY <1>7 DEF TimesOut
  <2>2. ~Settled(holding[s])
    BY <1>2, <2>1 DEF Unsettled
  <2>3. \A q : Settled(q)' => Settled(q) \/ q = holding[s]
    BY <2>1 DEF Settled
  <2>4. SettledOnce'
    BY <2>1, <2>2 DEF Unsettled, SettledOnce, Settled
  <2> QED  BY <1>5, <2>1, <2>3, <2>4
<1> QED  BY <1>3, <1>4, <1>6, <1>7, HoldingStep

(* A request that was put in the map is there, settled or overwritten, and
   settled or overwritten for good.                                         *)
LEMMA KeptStep ==
  ASSUME Here, Flow, NEW r \in Requests, Kept(r), [Next]_vars,
         Hold => cur # r
  PROVE  Kept(r)'
<1> USE ChargingAssumption
<1>1. Answers \/ TimesOut => overwritten' = overwritten
  BY DEF Answers, TimesOut
<1>2. SidOf[r] \in Sids
  OBVIOUS
<1>3. CASE HoldsSame
  BY <1>3 DEF HoldsSame, Kept, Settled
<1>4. CASE Hold
  <2>1. /\ cur \in Requests /\ cur # r
        /\ holding' = [holding EXCEPT ![SidOf[cur]] = cur]
        /\ overwritten' = overwritten \cup ({holding[SidOf[cur]]} \ {None})
        /\ UNCHANGED <<responses, timedOut>>
    BY <1>4 DEF Hold, Flow
  <2>2. SidOf[cur] = SidOf[r] \/ holding'[SidOf[r]] = holding[SidOf[r]]
    BY <1>2, <2>1 DEF Here
  <2>3. r # None
    OBVIOUS
  <2> QED  BY <2>1, <2>2, <2>3 DEF Kept, Settled
<1>5. ASSUME NEW s \in Sids, holding' = [holding EXCEPT ![s] = None],
             \A q : Settled(q) => Settled(q)',
             \A q \in Requests : holding[s] = q => Settled(q)',
             overwritten' = overwritten
      PROVE  Kept(r)'
  <2>1. holding[SidOf[r]] = r => holding'[SidOf[r]] = r \/ Settled(r)'
    BY <1>2, <1>5 DEF Here
  <2> QED  BY <1>5, <2>1 DEF Kept
<1>6. CASE Answers
  <2>1. SidOf[rcv] \in Sids
    BY <1>6 DEF Answers
  <2>2. \A q : Settled(q) => Settled(q)'
    BY <1>6 DEF Answers, Settled
  <2>3. <<holding[SidOf[rcv]], rcv>> \in responses'
    BY <1>6 DEF Answers
  <2>4. \A q : holding[SidOf[rcv]] = q => Settled(q)'
    BY <2>3 DEF Settled
  <2> QED  BY <1>1, <1>5, <1>6, <2>1, <2>2, <2>4 DEF Answers
<1>7. CASE TimesOut
  <2>1. PICK s \in Sids :
          /\ holding' = [holding EXCEPT ![s] = None]
          /\ timedOut' = timedOut \cup {holding[s]} /\ responses' = responses
    BY <1>7 DEF TimesOut
  <2>2. (\A q : Settled(q) => Settled(q)') /\ (\A q : holding[s] = q => Settled(q)')
    BY <2>1 DEF Settled
  <2> QED  BY <1>1, <1>5, <1>7, <2>1, <2>2
<1> QED  BY <1>3, <1>4, <1>6, <1>7, HoldingStep

(* So are those that the session manager has accepted: they were in the map
   before it heard of them.                                                 *)
LEMMA AllKeptStep ==
  ASSUME Here, Flow, AllKept, [Next]_vars
  PROVE  AllKept'
<1> USE ChargingAssumption DEF smVars, mqVars, netVars
<1>1. ASSUME NEW r \in watched
      PROVE  Kept(r)'
  <2>1. r \in Requests /\ (Hold => cur # r)
    BY DEF Here, Flow, Hold
  <2> QED  BY <2>1, KeptStep DEF AllKept
<1>2. ASSUME mq \in {"send", "register"}, NEW r, r = cur
      PROVE  Kept(r)'
  <2>1. cur \in Requests /\ ~Hold
    BY <1>2 DEF Flow, Hold
  <2> QED  BY <1>2, <2>1, KeptStep DEF AllKept
<1>3. CASE Hold
  <2>1. holding'[SidOf[cur]] = cur /\ cur' = cur /\ watched' = watched
    BY <1>3 DEF Hold, Flow, Here
  <2>2. Kept(cur)'
    BY <2>1 DEF Kept
  <2> QED  BY <1>1, <2>1, <2>2 DEF AllKept
<1>4. CASE ~Hold
  <2>1. /\ watched' \subseteq watched \cup (IF mq = "register" THEN {cur} ELSE {})
        /\ mq' \in {"send", "register"} => mq \in {"send", "register"} /\ cur' = cur
    <3>1. CASE Consumer
      BY <1>4, <3>1 DEF Consumer, Consume, Send, Register, SendError
    <3>2. CASE Receiver
      BY <3>2 DEF Receiver, OnAnswerMessage, OnReceiveCCA, OnBreakConnection, EraseSessions
    <3>3. CASE TimerThread
      BY <3>3 DEF TimerThread, Timers, OnTimeout
    <3>4. CASE (\E r \in Requests : Answer(r)) \/ Reconnect \/ Tick
      BY <3>4 DEF Answer, Reconnect, Tick
    <3>5. CASE UNCHANGED vars
      BY <3>5 DEF vars
    <3> QED  BY <3>1, <3>2, <3>3, <3>4, <3>5 DEF Next
  <2> QED  BY <1>1, <1>2, <2>1 DEF AllKept, Kept, Settled
<1> QED  BY <1>3, <1>4

-----------------------------------------------------------------------------
(* The answer finds its request *)

(* A CCR sets out when its request has been put in the map, and does not come
   back.                                                                    *)
LEMMA FlightStep ==
  ASSUME Here, Flow, [Next]_vars, NEW r \in Requests, Flight(r)'
  PROVE  Flight(r) \/ (Hold /\ cur = r)
<1> USE DEF smVars, mqVars, netVars
<1>1. CASE Consumer
  <2>1. CASE \E q \in Requests : Consume(q)
    BY <2>1 DEF Consume, Flight
  <2>2. CASE Hold \/ Send \/ Register \/ SendError
    BY <2>2 DEF Hold, Send, Register, SendError, Flight
  <2> QED  BY <1>1, <2>1, <2>2 DEF Consumer
<1>2. CASE Receiver
  <2>1. CASE \E q \in Requests, good \in BOOLEAN : OnAnswerMessage(q, good)
    BY <2>1 DEF OnAnswerMessage, Flight
  <2>2. CASE OnReceiveCCA \/ OnBreakConnection \/ EraseSessions
    BY <2>2, ChargingAssumption DEF OnReceiveCCA, OnBreakConnection, EraseSessions, Flight
  <2> QED  BY <1>2, <2>1, <2>2 DEF Receiver
<1>3. CASE TimerThread
  BY <1>3 DEF TimerThread, Timers, OnTimeout, Flight
<1>4. CASE (\E q \in Requests : Answer(q)) \/ Reconnect \/ Tick
  BY <1>4 DEF Answer, Reconnect, Tick, Flight
<1>5. CASE UNCHANGED vars
  BY <1>5 DEF vars, Flight
<1> QED  BY <1>1, <1>2, <1>3, <1>4, <1>5 DEF Next

(* While the only CCR of a session is under way, nothing but a timeout takes
   its request from the map.                                                *)
LEMMA FoundStep ==
  ASSUME Here, Flow, Found, [Next]_vars
  PROVE  Found'
<1> SUFFICES ASSUME NEW r \in Requests, Alone(r), Flight(r)'
             PROVE  holding'[SidOf[r]] = r \/ r \in timedOut'
  BY DEF Found, Alone
<1> USE ChargingAssumption
<1>1. SidOf[r] \in Sids
  OBVIOUS
<1>2. Flight(r) \/ (Hold /\ cur = r)
  BY FlightStep
<1>3. Flight(r) => holding[SidOf[r]] = r \/ r \in timedOut
  BY DEF Found
<1>4. CASE Hold
  <2>1. /\ cur \in Requests
        /\ holding' = [holding EXCEPT ![SidOf[cur]] = cur] /\ timedOut' = timedOut
    BY <1>4 DEF Hold, Flow
  <2>2. cur # r => SidOf[cur] # SidOf[r]
    BY <2>1 DEF Alone
  <2> QED  BY <1>1, <1>2, <1>3, <2>1, <2>2 DEF Here
<1>5. CASE Answers
  <2>1. /\ rcv \in Requests
        /\ holding' = [holding EXCEPT ![SidOf[rcv]] = None] /\ timedOut' = timedOut
    BY <1>5 DEF Answers
  <2>2. r # rcv
    BY <1>5 DEF Answers, Flow, Flight, mqVars, netVars
  <2>3. SidOf[rcv] # SidOf[r]
    BY <2>1, <2>2 DEF Alone
  <2>4. Flight(r)
    BY <1>2, <1>5, <2>1 DEF Hold, Answers, mqVars
  <2> QED  BY <1>1, <1>3, <2>1, <2>3, <2>4 DEF Here
<1>6. CASE ~Hold /\ TimesOut
  <2>1. PICK s \in Sids :
          /\ holding' = [holding EXCEPT ![s] = None]
          /\ timedOut' = timedOut \cup {holding[s]}
    BY <1>6 DEF TimesOut
  <2> QED  BY <1>1, <1>2, <1>3, <1>6, <2>1 DEF Here
<1>7. CASE ~Hold /\ HoldsSame
  BY <1>2, <1>3, <1>7 DEF HoldsSame
<1> QED  BY <1>4, <1>5, <1>6, <1>7, HoldingStep

-----------------------------------------------------------------------------
(* The session manager does not lose track of a request *)

Timed(s) == s \in DOMAIN mapSessions /\ mapSessions[s].timer \in DOMAIN timersMap

Tracked(s) ==
  \/ Timed(s)
  \/ \E n \in notifications : n.sid = s
  \/ rcv \in Requests /\ SidOf[rcv] = s

(* What a step must do for a session to be tracked. *)
LEMMA TrackedKept ==
  ASSUME SMP!IInv, SMP!IInv', NEW s, Tracked(s), notifications \subseteq notifications',
         rcv \in Requests => rcv' = rcv,
         \/ s \notin DOMAIN mapSessions
         \/ mapSessions[s].timer = NullTimer
         \/ s \in DOMAIN mapSessions' /\ mapSessions'[s].timer = mapSessions[s].timer
         \/ \E n \in notifications' : n.sid = s
  PROVE  Tracked(s)'
<1>1. \A t \in DOMAIN timersMap : t # NullTimer
  BY SessionsFacts
<1>2. \A t \in DOMAIN mapSessions' :
        mapSessions'[t].timer # NullTimer => mapSessions'[t].timer \in DOMAIN timersMap'
  BY DEF SMP!IInv, SMP!TimersLinked
<1>3. CASE Timed(s)
  BY <1>1, <1>2, <1>3 DEF Timed, Tracked
<1>4. CASE ~Timed(s)
  BY <1>4 DEF Tracked
<1> QED  BY <1>3, <1>4

(* A request is accepted with a timer, and its session is tracked until it is
   out of the map, since every way out of the session manager ends there.   *)
LEMMA WatchedStep ==
  ASSUME ResponseTimeout > 0, SMP!IInv, SMP!IInv', Here, Flow, Watched, [Next]_vars
  PROVE  Watched'
<1> SUFFICES ASSUME NEW r \in watched', NEW s, s = SidOf[r], holding'[s] = r
             PROVE  Tracked(s)'
  BY DEF Watched, Tracked, Timed
<1> USE ChargingAssumption DEF smVars, mqVars, netVars
<1>1. r \in Requests
  BY HereFlowStep DEF Here
<1>2. s \in Sids
  BY <1>1
<1>3. r \in watched /\ holding[s] = r => Tracked(s)
  BY DEF Watched, Tracked, Timed
<1>4. SM!TypeOK
  BY SessionsFacts
<1>5. ASSUME UNCHANGED <<smVars, holding, watched>>, rcv \in Requests => rcv' = rcv
      PROVE  Tracked(s)'
  BY <1>3, <1>5, TrackedKept
<1>6. CASE Register
  <2>1. cur \in Requests /\ UNCHANGED <<holding, rcv>>
    BY <1>6 DEF Register, Flow
  <2>2. CASE UNCHANGED <<smVars, watched>>
    BY <1>5, <2>1, <2>2
  <2>3. ASSUME NEW c \in Clients, SM!OnRequestMessage(SidOf[cur], c, TypeOf[cur]),
               watched' = watched \cup {cur}
        PROVE  Tracked(s)'
    <3>1. /\ SidOf[cur] \in DOMAIN mapSessions' /\ mapSessions'[SidOf[cur]].response
          /\ \A t \in DOMAIN mapSessions : t # SidOf[cur] =>
               t \in DOMAIN mapSessions' /\ mapSessions'[t] = mapSessions[t]
          /\ notifications' = notifications
      BY <1>4, <2>3, RequestStored
    <3>2. CASE s = SidOf[cur]
      <4>1. mapSessions'[s].timer # NullTimer
        BY <3>1, <3>2 DEF SMP!IInv, SMP!AwaitingTimed
      <4>2. mapSessions'[s].timer \in DOMAIN timersMap'
        BY <3>1, <3>2, <4>1 DEF SMP!IInv, SMP!TimersLinked
      <4> QED  BY <3>1, <3>2, <4>2 DEF Tracked, Timed
    <3>3. CASE s # SidOf[cur]
      <4>1. Tracked(s)
        BY <1>3, <2>1, <2>3, <3>3
      <4> QED  BY <2>1, <3>1, <3>3, <4>1, TrackedKept
    <3> QED  BY <3>2, <3>3
  <2> QED  BY <1>6, <2>2, <2>3 DEF Register
<1>7. CASE Hold
  <2>1. /\ cur \notin watched /\ cur \in Requests
        /\ holding' = [holding EXCEPT ![SidOf[cur]] = cur]
        /\ UNCHANGED <<smVars, watched, rcv>>
    BY <1>7 DEF Hold, Flow
  <2>2. holding[s] = r
    BY <1>2, <2>1 DEF Here
  <2> QED  BY <1>3, <2>1, <2>2, TrackedKept
<1>8. ASSUME NEW q \in Requests, NEW good \in BOOLEAN, OnAnswerMessage(q, good)
      PROVE  Tracked(s)'
  <2>1. rcv = None /\ rcv' = q /\ UNCHANGED <<holding, watched>>
    BY <1>8 DEF OnAnswerMessage
  <2>2. CASE SidOf[q] = s
    BY <2>1, <2>2 DEF Tracked
  <2>3. CASE SidOf[q] # s
    <3>1. CASE UNCHANGED smVars
      BY <1>5, <2>1, <3>1
    <3>2. CASE SM!OnAnswerMessage(SidOf[q], TypeOf[q], good)
      <4>1. /\ \A t \in DOMAIN mapSessions : t # SidOf[q] =>
                 t \in DOMAIN mapSessions' /\ mapSessions'[t] = mapSessions[t]
            /\ notifications' = notifications
        BY <3>2, AnswerStored
      <4> QED  BY <1>3, <2>1, <2>3, <4>1, TrackedKept
    <3> QED  BY <1>8, <3>1, <3>2 DEF OnAnswerMessage
  <2> QED  BY <2>2, <2>3
<1>9. CASE OnReceiveCCA
  <2>1. rcv \in Requests /\ UNCHANGED <<smVars, watched>>
    BY <1>9 DEF OnReceiveCCA
  <2>2. SidOf[rcv] # s /\ holding[s] = r
    BY <1>1, <1>2, <1>9, <2>1 DEF OnReceiveCCA, Here
  <2>3. Timed(s) \/ \E n \in notifications : n.sid = s
    BY <1>3, <2>1, <2>2 DEF Tracked
  <2> QED  BY <2>1, <2>3 DEF Tracked, Timed
<1>10. CASE EraseSessions
  <2>1. PICK c \in Clients : SM!EraseSessions(c)
    BY <1>10 DEF EraseSessions
  <2>2. rcv = Broken /\ UNCHANGED <<holding, watched>>
    BY <1>10 DEF EraseSessions
  <2>3. /\ \A t \in DOMAIN mapSessions : mapSessions[t].timer # NullTimer =>
             t \in DOMAIN mapSessions' /\ mapSessions'[t].timer = mapSessions[t].timer
        /\ notifications' = notifications
    BY <1>4, <2>1, ErasedLater
  <2> QED  BY <1>3, <2>2, <2>3, TrackedKept
<1>11. CASE Timers
  <2>1. UNCHANGED <<holding, watched, rcv>>
    BY <1>11 DEF Timers
  <2>2. CASE SM!SignalTimers
    <3>1. /\ notifications \subseteq notifications'
          /\ \A t \in DOMAIN mapSessions :
               \/ t \in DOMAIN mapSessions' /\ mapSessions'[t] = mapSessions[t]
               \/ \E n \in notifications' : n.sid = t
      BY <2>2, SignalNotifies
    <3> QED  BY <1>3, <2>1, <3>1, TrackedKept
  <2>3. CASE SM!CalculateTimeout \/ SM!ReadClock \/ SM!FlushDone
    <3>1. UNCHANGED <<mapSessions, notifications>>
      BY <2>3 DEF SM!CalculateTimeout, SM!ReadClock, SM!FlushDone
    <3> QED  BY <1>3, <2>1, <3>1, TrackedKept
  <2> QED  BY <1>11, <2>2, <2>3 DEF Timers
<1>12. ASSUME NEW n \in SM!Notification, OnTimeout(n)
       PROVE  Tracked(s)'
  <2>1. /\ UNCHANGED <<mapSessions, timersMap, rcv, watched>>
        /\ notifications' = notifications \ {n}
    BY <1>12 DEF OnTimeout, SM!FlushOne, SM!timerVars
  <2>2. n.sid \in Sids
    BY DEF SM!Notification
  <2>3. n.sid # s /\ holding[s] = r
    BY <1>1, <1>2, <1>12, <2>2 DEF OnTimeout, Here
  <2>4. Tracked(s)
    BY <1>3, <2>1, <2>3
  <2> QED  BY <2>1, <2>3, <2>4 DEF Tracked, Timed
<1>13. CASE Tick
  <2>1. UNCHANGED <<mapSessions, timersMap, notifications, holding, watched, rcv>>
    BY <1>13 DEF Tick, SM!Tick, SM!timerVars
  <2> QED  BY <1>3, <2>1 DEF Tracked, Timed
<1>14. CASE \/ (\E q \in Requests : Consume(q) \/ Answer(q)) \/ Send \/ SendError
            \/ OnBreakConnection \/ Reconnect \/ UNCHANGED vars
  <2>1. UNCHANGED <<smVars, holding, watched>> /\ (rcv \in Requests => rcv' = rcv)
    BY <1>14 DEF Consume, Answer, Send, SendError, OnBreakConnection, Reconnect, vars
  <2> QED  BY <1>5, <2>1
<1> QED
  BY <1>6, <1>7, <1>8, <1>9, <1>10, <1>11, <1>12, <1>13, <1>14
     DEF Next, Consumer, Receiver, TimerThread

-----------------------------------------------------------------------------
(* The theorems *)

(* The mediator starts in its invariant ... *)
LEMMA InitIInv == Init => IInv
<1> SUFFICES ASSUME Init PROVE IInv
  OBVIOUS
<1>1. SMP!IInv
  BY SessionsInit DEF Init
<1>2. Here /\ Flow
  BY ChargingAssumption DEF Init, Here, Flow
<1>3. \A s \in Sids : holding[s] \notin Requests
  BY ChargingAssumption DEF Init
<1>4. Unsettled
  BY <1>3 DEF Init, Unsettled, SettledOnce, Settled
<1>5. Found
  BY ChargingAssumption DEF Init, Found, Flight
<1>6. AllKept /\ Watched
  BY DEF Init, AllKept, Watched
<1> QED  BY <1>1, <1>2, <1>4, <1>5, <1>6 DEF IInv

(* ... and every step keeps it. *)
LEMMA StepIInv == IInv /\ [Next]_vars => IInv'
<1> SUFFICES ASSUME IInv, [Next]_vars PROVE IInv'
  OBVIOUS
<1>1. SMP!IInv'
  BY DrivesStep, SessionsKept DEF IInv
<1>2. Here' /\ Flow'
  BY HereFlowStep DEF IInv
<1>3. Unsettled'
  BY UnsettledStep DEF IInv
<1>4. Found'
  BY FoundStep DEF IInv
<1>5. AllKept'
  BY AllKeptStep DEF IInv
<1>6. ResponseTimeout > 0 => Watched'
  BY <1>1, WatchedStep DEF IInv
<1> QED  BY <1>1, <1>2, <1>3, <1>4, <1>5, <1>6 DEF IInv

(* Whatever the three threads, the peer and the clock do, the inductive
   invariant holds.                                                         *)
THEOREM Invariance == Spec => []IInv
BY InitIInv, StepIInv, PTL DEF Spec

(* The variables keep their types. *)
THEOREM TypeCorrect == Spec => []TypeOK
<1>1. IInv => TypeOK
  BY SessionsFacts DEF IInv, Here, TypeOK
<1> QED  BY <1>1, Invariance, PTL

(* The mediator uses the session manager as its own module says it may be used:
   sendCCR, OnReceive and OnBreak call nothing out of turn, so that everything
   which is proved of the session manager holds in the mediator.            *)
THEOREM DrivesSessionManager == Spec => SM!Spec
<1>1. Init => SM!Init
  BY DEF Init
<1>2. IInv /\ [Next]_vars => [SM!Next]_(SM!vars)
  BY DrivesStep DEF IInv
<1> QED  BY <1>1, <1>2, Invariance, PTL DEF Spec, SM!Spec

(* No request is answered twice, nor answered and timed out (the erasure in
   OnReceive and in the two timeout callbacks).                             *)
THEOREM SettledOnceHolds == Spec => []SettledOnce
<1>1. IInv => SettledOnce
  BY DEF IInv, Unsettled
<1> QED  BY <1>1, Invariance, PTL

(* An early answer finds the request in the map: it was put there before the
   CCR was sent.                                                            *)
THEOREM AnswerFindsRequestHolds == Spec => []AnswerFindsRequest
<1>1. IInv => AnswerFindsRequest
  BY DEF IInv, Found, Alone, Flight, AnswerFindsRequest
<1> QED  BY <1>1, Invariance, PTL

(* When answers have a timeout the map holds no accepted request of which the
   session manager has lost track, however the three threads interleave.    *)
THEOREM WatchedHolds ==
  ASSUME ResponseTimeout > 0
  PROVE  Spec => []Watched
<1>1. IInv => Watched
  BY DEF IInv
<1> QED  BY <1>1, Invariance, PTL

(* A request that the session manager has accepted is in the map, answered,
   timed out, or was overwritten there while it waited, whatever has become of
   the other requests of its session (DiameterAdapter.h:382-385).           *)
THEOREM AcceptedKept == Spec => [](\A r \in watched : Kept(r))
<1>1. IInv => \A r \in watched : Kept(r)
  BY DEF IInv, AllKept
<1> QED  BY <1>1, Invariance, PTL

-----------------------------------------------------------------------------
(* The whole mediator *)

(* No message has been taken from the queue. *)
Untouched ==
  /\ inbox = Requests /\ mq = "idle"
  /\ ccrs = {} /\ ccas = {} /\ rcv \notin Requests
  /\ sending = None

(* Every step of the mediator is a step of Charging, or leaves it alone: main,
   the adapter's thread and the responses' way to the broker take part in no
   other way than by consuming what they consume.                           *)
LEMMA RunsChargingStep == [MediatorNext]_mediatorVars => [Next]_vars
<1> SUFFICES ASSUME [MediatorNext]_mediatorVars PROVE [Next]_vars
  OBVIOUS
<1>2. CASE Started \/ Stop \/ SendResponse \/ UNCHANGED mediatorVars
  BY <1>2 DEF Started, Stop, SendResponse, mediatorVars
<1>3. CASE AdapterThread
  <2>1. CASE CreateConsumer \/ TestState \/ ConsumeFails
    BY <2>1 DEF CreateConsumer, TestState, ConsumeFails
  <2>2. CASE HandleMessage \/ \E r \in Requests : ConsumeMessage(r)
    BY <2>2 DEF HandleMessage, ConsumeMessage, Next, Consumer
  <2> QED  BY <1>3, <2>1, <2>2 DEF AdapterThread
<1>4. CASE CCAReceived \/ AnswerReceived \/ ConnectionBroken \/ SessionsErased
  BY <1>4 DEF CCAReceived, AnswerReceived, ConnectionBroken, SessionsErased, Next, Receiver
<1>5. CASE TimersRun \/ ClockTicks \/ Network
  BY <1>5 DEF TimersRun, ClockTicks, Network, Next
<1> QED  BY <1>2, <1>3, <1>4, <1>5 DEF MediatorNext, ReceiveThread

-----------------------------------------------------------------------------
(* What is known of Charging *)

(* Whatever else main, the adapter's thread and the broker do, the mediator
   behaves like Charging (rabbitmqAdapter.h calls handleMQMessage, and nothing
   else of it).                                                             *)
THEOREM RunsCharging == MediatorSpec => Spec
BY RunsChargingStep, PTL DEF MediatorSpec, MediatorInit, Spec

(* What holds of Charging holds of the mediator. *)
LEMMA ChargingHolds == MediatorSpec => []IInv
BY RunsCharging, Invariance, PTL

(* A request that the session manager has accepted is in the map, settled or
   overwritten there, through broken connections and whatever main does.    *)
THEOREM AcceptedIsKeptHolds == MediatorSpec => []AcceptedIsKept
<1>1. IInv => AcceptedIsKept
  BY DEF IInv, AllKept, Kept, Settled, AcceptedIsKept
<1> QED  BY <1>1, ChargingHolds, PTL

-----------------------------------------------------------------------------
(* The adapter *)

(* A state that keeps responses from the broker once start() has returned was
   set by a consumer that was refused, and such a consumer takes no message. *)
AdapterInv ==
  /\ main # "start" => state # "UNDEFINED"
  /\ state = "CREATION_FAILED" => svc = "ended" /\ Untouched
  /\ svc = "create" => Untouched
  /\ state \in RMQAState
  /\ main \in {"start", "loop", "stopped"}
  /\ svc \in {"create", "loop", "consume", "ended"}
  /\ sending \in (Requests \X Requests) \cup {None}

(* main, the adapter's thread and the receive thread keep it, however they meet
   in the adapter's plain field.                                            *)
LEMMA AdapterStep ==
  ASSUME Here, Here', AdapterInv, [MediatorNext]_mediatorVars
  PROVE  AdapterInv'
<1> USE ChargingAssumption DEF AdapterInv, RMQAState, vars, replyVars, adapterVars
<1>1. CASE Started \/ Stop \/ SendResponse \/ UNCHANGED mediatorVars
  BY <1>1 DEF Started, Stop, SendResponse, mediatorVars, Untouched, mqVars, netVars
<1>2. CASE CreateConsumer \/ TestState \/ ConsumeFails
  BY <1>2 DEF CreateConsumer, TestState, ConsumeFails, Untouched, mqVars, netVars
<1>3. ASSUME NEW r \in Requests, ConsumeMessage(r)
      PROVE  AdapterInv'
  BY <1>3 DEF ConsumeMessage
<1> DEFINE Rest == UNCHANGED <<state, main, svc>>
<1>4. ASSUME Rest, Untouched => Untouched',
             sending' \in (Requests \X Requests) \cup {None}
      PROVE  AdapterInv'
  BY <1>4
<1>5. CASE HandleMessage
  <2>1. Rest /\ sending' = sending
    BY <1>5 DEF HandleMessage
  <2>2. ~Untouched
    BY <1>5 DEF HandleMessage, Hold, Send, Register, SendError, Untouched
  <2> QED  BY <1>4, <2>1, <2>2
<1>6. CASE CCAReceived
  <2>1. Rest /\ ~Untouched
    BY <1>6 DEF CCAReceived, OnReceiveCCA, Untouched
  <2>2. sending' \in (Requests \X Requests) \cup {None}
    <3>1. CASE responses' = responses
      BY <1>6, <3>1 DEF CCAReceived
    <3>2. CASE responses' # responses
      <4>1. \E a \in responses' : a \notin responses
        BY <1>6, <3>2 DEF CCAReceived, OnReceiveCCA
      <4>2. sending' \in responses'
        BY <1>6, <3>2, <4>1 DEF CCAReceived
      <4> QED  BY <4>2 DEF Here
    <3> QED  BY <3>1, <3>2
  <2> QED  BY <1>4, <2>1, <2>2
<1>7. CASE AnswerReceived \/ ConnectionBroken \/ SessionsErased
  <2>1. Rest /\ sending' = sending
    BY <1>7 DEF AnswerReceived, ConnectionBroken, SessionsErased
  <2>2. Untouched => Untouched'
    BY <1>7, <2>1 DEF AnswerReceived, ConnectionBroken, SessionsErased, OnAnswerMessage,
         OnBreakConnection, EraseSessions, mqVars, netVars, ChargingAssumption, Untouched
  <2> QED  BY <1>4, <2>1, <2>2
<1>8. CASE TimersRun \/ ClockTicks
  <2>1. Rest /\ sending' = sending
    BY <1>8 DEF TimersRun, ClockTicks
  <2>2. Untouched => Untouched'
    BY <1>8, <2>1 DEF TimersRun, ClockTicks, TimerThread, Timers, OnTimeout, Tick,
         mqVars, netVars, Untouched
  <2> QED  BY <1>4, <2>1, <2>2
<1>9. CASE Network
  <2>1. Rest /\ sending' = sending
    BY <1>9 DEF Network
  <2>2. Untouched => Untouched'
    BY <1>9, <2>1 DEF Network, Answer, Reconnect, mqVars, Untouched
  <2> QED  BY <1>4, <2>1, <2>2
<1> QED
  BY <1>1, <1>2, <1>3, <1>5, <1>6, <1>7, <1>8, <1>9 DEF MediatorNext, AdapterThread, ReceiveThread

MediatorInv == IInv /\ AdapterInv /\ DroppedOnlyAtStart

(* Responses pass, but for the time before start() has returned, and what has
   been said of Charging.                                                   *)
THEOREM MediatorInvariance == MediatorSpec => []MediatorInv
<1>1. MediatorInit => AdapterInv /\ DroppedOnlyAtStart
  BY ChargingAssumption
     DEF MediatorInit, Init, ChargingAssumption, AdapterInv, Untouched, DroppedOnlyAtStart, RMQAState
<1>2. IInv /\ IInv' /\ AdapterInv /\ [MediatorNext]_mediatorVars => AdapterInv'
  BY AdapterStep DEF IInv
<1>3. AdapterInv /\ DroppedOnlyAtStart /\ [MediatorNext]_mediatorVars => DroppedOnlyAtStart'
  <2> SUFFICES ASSUME AdapterInv, DroppedOnlyAtStart, [MediatorNext]_mediatorVars
               PROVE  DroppedOnlyAtStart'
    OBVIOUS
  <2>1. CASE SendResponse
    <3>1. state \in {"ACTIVE", "RECEIVING_STOPPED"} \/ main = "start"
      BY <2>1 DEF SendResponse, AdapterInv, Untouched, RMQAState
    <3> QED  BY <2>1, <3>1 DEF SendResponse, DroppedOnlyAtStart
  <2>2. CASE ~SendResponse
    <3>1. dropped' = dropped
      BY <2>2 DEF MediatorNext, mediatorVars, Started, Stop, AdapterThread, CreateConsumer,
           TestState, ConsumeFails, HandleMessage, ConsumeMessage, ReceiveThread, CCAReceived, AnswerReceived,
           ConnectionBroken, SessionsErased, TimersRun, ClockTicks, Network, replyVars
    <3> QED  BY <3>1 DEF DroppedOnlyAtStart
  <2> QED  BY <2>1, <2>2
<1> QED  BY <1>1, <1>2, <1>3, ChargingHolds, PTL DEF MediatorSpec, MediatorInv

(* The variables keep their types. *)
THEOREM MediatorTypeCorrect == MediatorSpec => []MediatorTypeOK
<1>1. MediatorSpec => []TypeOK
  BY RunsCharging, TypeCorrect, PTL
<1>2. TypeOK /\ MediatorInv => MediatorTypeOK
  BY DEF MediatorInv, AdapterInv, MediatorTypeOK
<1> QED  BY <1>1, <1>2, MediatorInvariance, PTL

(* Once start() has returned, no response is kept from the broker: neither by
   stop() nor by a consumer that is refused (rabbitmqAdapter.h:97, 102, 147). *)
THEOREM DroppedOnlyAtStartHolds == MediatorSpec => []DroppedOnlyAtStart
BY MediatorInvariance, PTL DEF MediatorInv
===============================================================================
