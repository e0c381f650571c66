------------------------ MODULE SessionManagerProofs ------------------------
(***************************************************************************)
(* What CSessionManager and CTimerManager guarantee for every set of       *)
(* sessions, clients and timers, every pair of timeouts and every batch    *)
(* size.                                                                   *)
(***************************************************************************)
EXTENDS SessionManager, FiniteSetTheorems, TLAPS

-----------------------------------------------------------------------------
(* The helpers on functions *)

(* Put keeps a function's other points. *)
LEMMA PutFacts ==
  ASSUME NEW f, NEW x, NEW v
  PROVE  /\ DOMAIN Put(f, x, v) = DOMAIN f \cup {x}
         /\ Put(f, x, v)[x] = v
         /\ \A y \in DOMAIN f : y # x => Put(f, x, v)[y] = f[y]
  BY DEF Put

(* Put keeps the range of a function. *)
LEMMA PutType ==
  ASSUME NEW R, NEW f, f \in [DOMAIN f -> R], NEW x, NEW v \in R
  PROVE  Put(f, x, v) \in [DOMAIN Put(f, x, v) -> R]
  BY DEF Put

(* Without drops points and keeps the others. *)
LEMMA WithoutFacts ==
  ASSUME NEW f, NEW S
  PROVE  /\ DOMAIN Without(f, S) = DOMAIN f \ S
         /\ \A y \in DOMAIN f \ S : Without(f, S)[y] = f[y]
  BY DEF Without

(* Without keeps the range of a function. *)
LEMMA WithoutType ==
  ASSUME NEW R, NEW f, f \in [DOMAIN f -> R], NEW S
  PROVE  Without(f, S) \in [DOMAIN Without(f, S) -> R]
  BY DEF Without

-----------------------------------------------------------------------------
(* Type correctness *)

SessionsTyped ==
  /\ DOMAIN mapSessions \subseteq Sids
  /\ mapSessions \in [DOMAIN mapSessions -> SessionInfo]

TimersTyped ==
  /\ DOMAIN timersMap \subseteq TimerIds
  /\ timersMap \in [DOMAIN timersMap -> TimerData]
  /\ count \in Int
  /\ created \in Nat
  /\ cancelled \in Nat
  /\ triggered \in Nat

(* Setting, cancelling and restarting a timer keep the multiset typed. *)
LEMMA TimersTypeStep ==
  ASSUME TimersTyped, now \in Nat, NEW t \in TimerIds, NEW ms \in Nat,
         NEW data \in Sids \cup {Uninit},
         \/ SetTimer(t, ms, data)
         \/ CancelTimer(t)
         \/ UpdateTimer(t, ms)
  PROVE  TimersTyped'
<1>1. CASE SetTimer(t, ms, data)
  <2>1. [due |-> now + ms, smData |-> data] \in TimerData
    BY DEF TimerData
  <2>2. timersMap' \in [DOMAIN timersMap' -> TimerData]
    BY <1>1, <2>1 DEF SetTimer, TimersTyped, Put
  <2>3. DOMAIN timersMap' \subseteq TimerIds
    BY <1>1 DEF SetTimer, TimersTyped, Put
  <2> QED  BY <1>1, <2>2, <2>3 DEF TimersTyped, SetTimer
<1>2. CASE CancelTimer(t)
  <2>1. timersMap' \in [DOMAIN timersMap' -> TimerData]
    BY <1>2 DEF CancelTimer, TimersTyped, Without
  <2>2. DOMAIN timersMap' \subseteq TimerIds
    BY <1>2 DEF CancelTimer, TimersTyped, Without
  <2> QED  BY <1>2, <2>1, <2>2 DEF TimersTyped, CancelTimer
<1>3. CASE UpdateTimer(t, ms)
  <2>1. DOMAIN timersMap' = DOMAIN timersMap
    BY <1>3 DEF UpdateTimer
  <2>2. \A u \in DOMAIN timersMap : timersMap'[u] \in TimerData
    BY <1>3 DEF UpdateTimer, TimersTyped, TimerData
  <2>3. timersMap' \in [DOMAIN timersMap' -> TimerData]
    BY <1>3, <2>1, <2>2 DEF UpdateTimer
  <2> QED  BY <1>3, <2>1, <2>3 DEF UpdateTimer, TimersTyped, counters
<1> QED  BY <1>1, <1>2, <1>3

(* Storing a session keeps both tables typed. *)
LEMMA StoreType ==
  ASSUME SessionsTyped, TimersTyped, now \in Nat,
         NEW s \in Sids, NEW info \in SessionInfo, NEW ms \in Nat,
         NEW data \in Sids \cup {Uninit},
         StoreTimed(s, info, ms, data) \/ StoreUntimed(s, info)
  PROVE  SessionsTyped' /\ TimersTyped'
<1>1. ASSUME NEW i \in SessionInfo, mapSessions' = Put(mapSessions, s, i)
      PROVE  SessionsTyped'
  BY <1>1 DEF SessionsTyped, Put
<1>2. info.timer \in TimerIds \cup {NullTimer}
  BY DEF SessionInfo
<1>3. \A t \in TimerIds \cup {NullTimer} : [info EXCEPT !.timer = t] \in SessionInfo
  BY DEF SessionInfo
<1>4. CASE StoreTimed(s, info, ms, data)
  <2>1. CASE info.timer # NullTimer
    BY <1>1, <1>2, <1>4, <2>1, TimersTypeStep DEF StoreTimed
  <2>2. CASE info.timer = NullTimer
    BY <1>1, <1>3, <1>4, <2>2, TimersTypeStep DEF StoreTimed
  <2> QED  BY <2>1, <2>2
<1>5. CASE StoreUntimed(s, info)
  <2>1. TimersTyped'
    <3>1. CASE info.timer # NullTimer
      <4>1. CancelTimer(info.timer)
        BY <1>5, <3>1 DEF StoreUntimed, StopTimer
      <4> QED  BY <1>2, <3>1, <4>1, TimersTypeStep
    <3>2. CASE info.timer = NullTimer
      BY <1>5, <3>2 DEF StoreUntimed, StopTimer, timerVars, counters, TimersTyped
    <3> QED  BY <3>1, <3>2
  <2> QED  BY <1>1, <1>3, <1>5, <2>1 DEF StoreUntimed
<1> QED  BY <1>4, <1>5

(* So does dropping one. *)
LEMMA DropType ==
  ASSUME SessionsTyped, TimersTyped, now \in Nat,
         NEW s \in DOMAIN mapSessions, Drop(s)
  PROVE  SessionsTyped' /\ TimersTyped'
<1> DEFINE t == mapSessions[s].timer
<1>1. t \in TimerIds \cup {NullTimer}
  BY DEF SessionsTyped, SessionInfo
<1>2. SessionsTyped'
  BY DEF Drop, SessionsTyped, Without
<1>3. CASE t # NullTimer
  <2>1. CancelTimer(t)
    BY <1>3 DEF Drop, StopTimer
  <2>2. t \in TimerIds /\ 0 \in Nat /\ Uninit \in Sids \cup {Uninit}
    BY <1>1, <1>3
  <2> HIDE DEF t
  <2>3. TimersTyped'
    BY <2>1, <2>2, TimersTypeStep
  <2> QED  BY <1>2, <2>3
<1>4. CASE t = NullTimer
  BY <1>2, <1>4 DEF Drop, StopTimer, timerVars, counters, TimersTyped
<1> QED  BY <1>3, <1>4

(* And so does dooming or erasing a set of them. *)
LEMMA EraseType ==
  ASSUME SessionsTyped, TimersTyped, now \in Nat,
         NEW S \in SUBSET DOMAIN mapSessions, Erase(S)
  PROVE  SessionsTyped' /\ TimersTyped'
<1>1. SessionsTyped'
  BY DEF Erase, SessionsTyped, SessionInfo
<1>2. TimersTyped'
  BY DEF Erase, TimersTyped, TimerData, counters
<1> QED  BY <1>1, <1>2

(* The sets a batch is drawn from are finite, so its size is a number. *)
LEMMA BatchFinite ==
  ASSUME TimersTyped, NEW B \in Batches
  PROVE  /\ B \subseteq DOMAIN timersMap
         /\ IsFiniteSet(B)
         /\ Cardinality(B) \in Nat
<1>1. B \subseteq DOMAIN timersMap
  BY DEF Batches, DueBy
<1>2. B \in SUBSET TimerIds
  BY <1>1 DEF TimersTyped
<1>3. IsFiniteSet(B)
  BY <1>2, TimerIdsAssumption, FS_Subset
<1> QED  BY <1>1, <1>3, FS_CardinalityType

(* Every step keeps every variable typed. *)
LEMMA TypeStep ==
  ASSUME TypeOK, TimersLinked, [Next]_vars
  PROVE  TypeOK'
<1> USE TimeoutsAssumption
<1>0. SessionsTyped /\ TimersTyped /\ now \in Nat
  BY DEF TypeOK, SessionsTyped, TimersTyped
<1> DEFINE Rest == /\ notifications \subseteq Notification
                   /\ delivered \in Nat
                   /\ pc \in {"CalculateTimeout", "nowMSec", "SignalTimers", "Flush"}
                   /\ currentTime \in Nat
                   /\ batch \in Nat
                   /\ now \in Nat
                   /\ lastHeard \in [Sids -> Nat]
<1>r. Rest
  BY DEF TypeOK
<1>q. SUFFICES SessionsTyped' /\ TimersTyped' /\ Rest'
  BY <1>q DEF TypeOK, SessionsTyped, TimersTyped
<1>1. ASSUME NEW s \in Sids, NEW c \in Clients, NEW type \in RequestTypes,
             OnRequestMessage(s, c, type)
      PROVE  SessionsTyped' /\ TimersTyped' /\ Rest'
  <2> DEFINE info == IF type \in Opening THEN NewSession(c)
                     ELSE [mapSessions[s] EXCEPT !.response = TRUE]
  <2>1. info \in SessionInfo
    <3>1. NewSession(c) \in SessionInfo
      BY DEF NewSession, SessionInfo
    <3>2. type \notin Opening => s \in DOMAIN mapSessions
      BY <1>1 DEF OnRequestMessage, SkipsPacket
    <3>3. s \in DOMAIN mapSessions =>
            [mapSessions[s] EXCEPT !.response = TRUE] \in SessionInfo
      BY <1>0 DEF SessionsTyped, SessionInfo
    <3> QED  BY <3>1, <3>2, <3>3
  <2>2. \/ StoreTimed(s, info, ResponseTimeout, s)
        \/ StoreUntimed(s, info)
    BY <1>1 DEF OnRequestMessage
  <2> HIDE DEF info
  <2>3. SessionsTyped' /\ TimersTyped'
    BY <1>0, <2>1, <2>2, StoreType
  <2>4. Rest'
    BY <1>1, <1>r DEF OnRequestMessage, threadVars
  <2> QED  BY <2>3, <2>4
<1>2. ASSUME NEW s \in Sids, NEW type \in RequestTypes, NEW good \in BOOLEAN,
             OnAnswerMessage(s, type, good)
      PROVE  SessionsTyped' /\ TimersTyped' /\ Rest'
  <2> DEFINE info == [mapSessions[s] EXCEPT !.response = FALSE]
  <2>1. s \in DOMAIN mapSessions
    BY <1>2 DEF OnAnswerMessage, AwaitsAnswer
  <2>2. info \in SessionInfo
    BY <1>0, <2>1 DEF SessionsTyped, SessionInfo
  <2>3. \/ StoreTimed(s, info, SessionTimeout, Uninit)
        \/ StoreUntimed(s, info)
        \/ Drop(s)
    BY <1>2 DEF OnAnswerMessage
  <2>5. Rest'
    BY <1>2, <1>r DEF OnAnswerMessage, threadVars
  <2> HIDE DEF info
  <2>4. SessionsTyped' /\ TimersTyped'
    BY <1>0, <2>1, <2>2, <2>3, StoreType, DropType
  <2> QED  BY <2>4, <2>5
<1>3. ASSUME NEW S \in SUBSET DOMAIN mapSessions, Erase(S)
      PROVE  SessionsTyped' /\ TimersTyped' /\ Rest'
  <2>1. Rest'
    BY <1>3, <1>r DEF Erase, threadVars
  <2> QED  BY <1>0, <1>3, <2>1, EraseType
<1>4. CASE SignalTimers
  <2>1. PICK B \in Batches : SignalTimers!2!(B)
    BY <1>4 DEF SignalTimers
  <2>2. B \subseteq DOMAIN timersMap /\ Cardinality(B) \in Nat
    BY <1>0, BatchFinite
  <2>3. SessionsTyped'
    BY <1>0, <2>1 DEF SessionsTyped, Without
  <2>4. TimersTyped'
    BY <1>0, <1>4, <2>1, <2>2 DEF SignalTimers, TimersTyped, Without
  <2>5. \A t \in B : NotificationOf(timersMap[t].smData) \in Notification
    BY <1>0, <2>2 DEF TimersLinked, SessionsTyped, SessionInfo, NotificationOf, Notification
  <2>6. notifications' \subseteq Notification
    BY <1>r, <2>1, <2>5
  <2>7. Rest'
    BY <1>r, <1>4, <2>1, <2>2, <2>6 DEF SignalTimers
  <2> QED  BY <2>3, <2>4, <2>7
<1>5. CASE CalculateTimeout \/ ReadClock \/ FlushOne \/ FlushDone
  BY <1>0, <1>5, <1>r DEF CalculateTimeout, ReadClock, FlushOne, FlushDone,
     timerVars, counters, threadVars, SessionsTyped, TimersTyped
<1>6. CASE Tick
  BY <1>0, <1>6, <1>r DEF Tick, timerVars, counters, threadVars, SessionsTyped,
     TimersTyped
<1>7. CASE UNCHANGED vars
  BY <1>0, <1>7, <1>r DEF vars, timerVars, counters, threadVars, SessionsTyped,
     TimersTyped
<1>8. ASSUME NEW c \in Clients, EraseSessions(c)
      PROVE  SessionsTyped' /\ TimersTyped' /\ Rest'
  BY <1>3, <1>8 DEF EraseSessions
<1>9. ASSUME NEW s \in Sids, EraseSession(s)
      PROVE  SessionsTyped' /\ TimersTyped' /\ Rest'
  BY <1>3, <1>9 DEF EraseSession
<1> HIDE DEF Rest
<1> QED  BY <1>1, <1>2, <1>4, <1>5, <1>6, <1>7, <1>8, <1>9 DEF Next, TimerThread

-----------------------------------------------------------------------------
(* The links between sessions and timers *)

(* While response timeouts are enabled a session that awaits an answer has a
   timer: an answer never has to create one, which OnAnswerMessage would do
   with a back pointer nobody assigned.                                     *)
AwaitingTimed ==
  \A s \in DOMAIN mapSessions :
    ResponseTimeout > 0 /\ mapSessions[s].response =>
      mapSessions[s].timer # NullTimer

(* info is fit to be stored for s: it keeps the timer s has, if it has one. *)
KeepsTimer(s, info) ==
  info.timer = IF s \in DOMAIN mapSessions THEN mapSessions[s].timer
                                           ELSE NullTimer

(* A store keeps the links. *)
LEMMA StoreLinked ==
  ASSUME SessionsTyped, TimersTyped, TimersLinked,
         NEW s \in Sids, NEW info \in SessionInfo, KeepsTimer(s, info),
         NEW ms, NEW data,
         \/ StoreTimed(s, info, ms, data) /\ (info.timer = NullTimer => data = s)
         \/ StoreUntimed(s, info)
  PROVE  TimersLinked'
<1> USE TimerIdsAssumption DEF SessionsTyped, TimersTyped
<1>0. \A t \in TimerIds \cup {NullTimer} : [info EXCEPT !.timer = t].timer = t
  BY DEF SessionInfo
<1>1. ASSUME NEW t \in TimerIds \ DOMAIN timersMap, SetTimer(t, ms, s),
             mapSessions' = Put(mapSessions, s, [info EXCEPT !.timer = t]),
             info.timer = NullTimer
      PROVE  TimersLinked'
  <2>1. /\ \A u \in DOMAIN timersMap : timersMap[u].smData # s
        /\ \A q \in DOMAIN mapSessions : mapSessions[q].timer # t
    BY <1>1 DEF TimersLinked, KeepsTimer
  <2> QED  BY <1>0, <1>1, <2>1 DEF TimersLinked, SetTimer, Put
<1>2. CASE info.timer # NullTimer /\ StoreTimed(s, info, ms, data)
  <2>1. /\ mapSessions' = Put(mapSessions, s, info)
        /\ s \in DOMAIN mapSessions
        /\ info.timer = mapSessions[s].timer
        /\ UpdateTimer(info.timer, ms)
    BY <1>2 DEF StoreTimed, KeepsTimer
  <2>2. /\ DOMAIN timersMap' = DOMAIN timersMap
        /\ \A t \in DOMAIN timersMap : timersMap'[t].smData = timersMap[t].smData
    BY <2>1 DEF UpdateTimer, TimerData
  <2>3. /\ DOMAIN mapSessions' = DOMAIN mapSessions
        /\ \A q \in DOMAIN mapSessions : mapSessions'[q].timer = mapSessions[q].timer
    BY <2>1 DEF Put
  <2> QED  BY <2>2, <2>3 DEF TimersLinked
<1>3. CASE StoreUntimed(s, info)
  <2>1. mapSessions' = Put(mapSessions, s, [info EXCEPT !.timer = NullTimer])
    BY <1>3 DEF StoreUntimed
  <2>2. CASE info.timer # NullTimer
    <3>1. timersMap' = Without(timersMap, {info.timer})
      BY <1>3, <2>2 DEF StoreUntimed, StopTimer, CancelTimer
    <3>2. /\ \A u \in DOMAIN timersMap \ {info.timer} : timersMap[u].smData # s
          /\ \A q \in DOMAIN mapSessions \ {s} : mapSessions[q].timer # info.timer
      BY <2>2 DEF TimersLinked, KeepsTimer
    <3> QED  BY <1>0, <2>1, <3>1, <3>2 DEF TimersLinked, Put, Without
  <2>3. CASE info.timer = NullTimer
    <3>1. timersMap' = timersMap
      BY <1>3, <2>3 DEF StoreUntimed, StopTimer, timerVars
    <3>2. \A u \in DOMAIN timersMap : timersMap[u].smData # s
      BY <2>3 DEF TimersLinked, KeepsTimer
    <3> QED  BY <1>0, <2>1, <3>1, <3>2 DEF TimersLinked, Put
  <2> QED  BY <2>2, <2>3
<1> QED  BY <1>1, <1>2, <1>3 DEF StoreTimed

(* Dropping a session keeps the links of the others. *)
LEMMA DropLinked ==
  ASSUME SessionsTyped, TimersTyped, TimersLinked,
         NEW s \in DOMAIN mapSessions, Drop(s)
  PROVE  TimersLinked'
<1> USE TimerIdsAssumption DEF SessionsTyped, TimersTyped
<1>1. mapSessions' = Without(mapSessions, {s})
  BY DEF Drop
<1>2. CASE mapSessions[s].timer # NullTimer
  <2>1. timersMap' = Without(timersMap, {mapSessions[s].timer})
    BY <1>2 DEF Drop, StopTimer, CancelTimer
  <2>2. /\ \A u \in DOMAIN timersMap \ {mapSessions[s].timer} : timersMap[u].smData # s
        /\ \A q \in DOMAIN mapSessions \ {s} :
             mapSessions[q].timer # mapSessions[s].timer
    BY <1>2 DEF TimersLinked
  <2> QED  BY <1>1, <2>1, <2>2 DEF TimersLinked, Without
<1>3. CASE mapSessions[s].timer = NullTimer
  <2>1. timersMap' = timersMap
    BY <1>3 DEF Drop, StopTimer, timerVars
  <2>2. \A u \in DOMAIN timersMap : timersMap[u].smData # s
    BY <1>3 DEF TimersLinked
  <2> QED  BY <1>1, <2>1, <2>2 DEF TimersLinked, Without
<1> QED  BY <1>2, <1>3

(* Erasing sessions dooms the timed ones, links and all, and drops those that
   no timer points at.                                                      *)
LEMMA EraseLinked ==
  ASSUME SessionsTyped, TimersTyped, TimersLinked,
         NEW S \in SUBSET DOMAIN mapSessions, Erase(S)
  PROVE  TimersLinked'
<1> USE TimerIdsAssumption DEF SessionsTyped, TimersTyped
<1>1. /\ DOMAIN mapSessions' =
           DOMAIN mapSessions \ {s \in S : mapSessions[s].timer = NullTimer}
      /\ \A s \in DOMAIN mapSessions' : mapSessions'[s].timer = mapSessions[s].timer
  BY DEF Erase, SessionInfo
<1>2. /\ DOMAIN timersMap' = DOMAIN timersMap
      /\ \A t \in DOMAIN timersMap : timersMap'[t].smData = timersMap[t].smData
  BY DEF Erase, TimerData
<1> QED  BY <1>1, <1>2 DEF TimersLinked

(* A batch takes sessions and timers away in pairs. *)
LEMMA SignalLinked ==
  ASSUME SessionsTyped, TimersTyped, TimersLinked, SignalTimers
  PROVE  TimersLinked'
<1>1. PICK B \in Batches : SignalTimers!2!(B)
  BY DEF SignalTimers
<1>2. B \subseteq DOMAIN timersMap
  BY BatchFinite
<1>3. \A s \in DOMAIN mapSessions : mapSessions[s].timer \in B =>
        s \in {timersMap[t].smData : t \in B}
  BY <1>2, TimerIdsAssumption DEF TimersLinked, TimersTyped
<1>4. \A t \in DOMAIN timersMap \ B :
        timersMap[t].smData \notin {timersMap[u].smData : u \in B}
  BY <1>2 DEF TimersLinked
<1> QED  BY <1>1, <1>2, <1>3, <1>4 DEF TimersLinked, Without

(* Every step keeps the links. *)
LEMMA LinkedStep ==
  ASSUME TypeOK, TimersLinked, AwaitingTimed, [Next]_vars
  PROVE  TimersLinked'
<1> USE TimeoutsAssumption
<1>0. SessionsTyped /\ TimersTyped
  BY DEF TypeOK, SessionsTyped, TimersTyped
<1>1. ASSUME NEW s \in Sids, NEW c \in Clients, NEW type \in RequestTypes,
             OnRequestMessage(s, c, type)
      PROVE  TimersLinked'
  <2> DEFINE info == IF type \in Opening THEN NewSession(c)
                     ELSE [mapSessions[s] EXCEPT !.response = TRUE]
  <2>1. info \in SessionInfo /\ KeepsTimer(s, info)
    <3>1. CASE type \in Opening
      <4>1. s \notin DOMAIN mapSessions
        BY <1>1, <3>1 DEF OnRequestMessage, SkipsPacket
      <4> QED  BY <3>1, <4>1 DEF NewSession, SessionInfo, KeepsTimer
    <3>2. CASE type \notin Opening
      <4>1. s \in DOMAIN mapSessions
        BY <1>1, <3>2 DEF OnRequestMessage, SkipsPacket
      <4> QED  BY <1>0, <3>2, <4>1 DEF SessionsTyped, SessionInfo, KeepsTimer
    <3> QED  BY <3>1, <3>2
  <2>2. \/ StoreTimed(s, info, ResponseTimeout, s)
        \/ StoreUntimed(s, info)
    BY <1>1 DEF OnRequestMessage
  <2> HIDE DEF info
  <2> QED  BY <1>0, <2>1, <2>2, StoreLinked
<1>2. ASSUME NEW s \in Sids, NEW type \in RequestTypes, NEW good \in BOOLEAN,
             OnAnswerMessage(s, type, good)
      PROVE  TimersLinked'
  <2> DEFINE info == [mapSessions[s] EXCEPT !.response = FALSE]
  <2>1. s \in DOMAIN mapSessions /\ mapSessions[s].response
    BY <1>2 DEF OnAnswerMessage, AwaitsAnswer
  <2>2. info \in SessionInfo /\ KeepsTimer(s, info) /\ info.timer = mapSessions[s].timer
    BY <1>0, <2>1 DEF SessionsTyped, SessionInfo, KeepsTimer
  <2>3. SessionTimeout > 0 => mapSessions[s].timer # NullTimer
    BY <2>1 DEF AwaitingTimed
  <2>4. \/ StoreTimed(s, info, SessionTimeout, Uninit) /\ SessionTimeout > 0
        \/ StoreUntimed(s, info)
        \/ Drop(s)
    BY <1>2 DEF OnAnswerMessage
  <2> HIDE DEF info
  <2> QED  BY <1>0, <2>1, <2>2, <2>3, <2>4, StoreLinked, DropLinked
<1>3. ASSUME NEW c \in Clients, EraseSessions(c)
      PROVE  TimersLinked'
  BY <1>0, <1>3, EraseLinked DEF EraseSessions
<1>4. ASSUME NEW s \in Sids, EraseSession(s)
      PROVE  TimersLinked'
  BY <1>0, <1>4, EraseLinked DEF EraseSession
<1>5. CASE SignalTimers
  BY <1>0, <1>5, SignalLinked
<1>6. CASE \/ CalculateTimeout \/ ReadClock \/ FlushOne \/ FlushDone
           \/ Tick \/ UNCHANGED vars
  BY <1>6 DEF CalculateTimeout, ReadClock, FlushOne, FlushDone, Tick, vars,
     timerVars, TimersLinked
<1> QED  BY <1>1, <1>2, <1>3, <1>4, <1>5, <1>6 DEF Next, TimerThread

(* A session that awaits an answer keeps a timer. *)
LEMMA AwaitingStep ==
  ASSUME TypeOK, TimersLinked, AwaitingTimed, [Next]_vars
  PROVE  AwaitingTimed'
<1> USE TimeoutsAssumption, TimerIdsAssumption
<1>0. SessionsTyped /\ TimersTyped
  BY DEF TypeOK, SessionsTyped, TimersTyped
<1>1. ASSUME NEW s \in Sids, NEW c \in Clients, NEW type \in RequestTypes,
             OnRequestMessage(s, c, type)
      PROVE  AwaitingTimed'
  <2> DEFINE info == IF type \in Opening THEN NewSession(c)
                     ELSE [mapSessions[s] EXCEPT !.response = TRUE]
  <2>1. info \in SessionInfo
    <3>1. NewSession(c) \in SessionInfo
      BY DEF NewSession, SessionInfo
    <3>2. type \notin Opening => s \in DOMAIN mapSessions
      BY <1>1 DEF OnRequestMessage, SkipsPacket
    <3> QED  BY <1>0, <3>1, <3>2 DEF SessionsTyped, SessionInfo
  <2>2. CASE ResponseTimeout > 0
    <3>1. StoreTimed(s, info, ResponseTimeout, s)
      BY <1>1, <2>2 DEF OnRequestMessage
    <3> HIDE DEF info
    <3>2. PICK i \in SessionInfo :
            mapSessions' = Put(mapSessions, s, i) /\ i.timer # NullTimer
      <4>1. CASE info.timer # NullTimer
        BY <2>1, <3>1, <4>1 DEF StoreTimed
      <4>2. CASE info.timer = NullTimer
        <5>1. PICK t \in TimerIds :
                mapSessions' = Put(mapSessions, s, [info EXCEPT !.timer = t])
          BY <3>1, <4>2 DEF StoreTimed
        <5>2. /\ [info EXCEPT !.timer = t] \in SessionInfo
              /\ [info EXCEPT !.timer = t].timer # NullTimer
          BY <2>1, <5>1 DEF SessionInfo
        <5> QED  BY <5>1, <5>2
      <4> QED  BY <4>1, <4>2
    <3> QED  BY <3>2 DEF AwaitingTimed, Put
  <2>3. CASE ~(ResponseTimeout > 0)
    BY <2>3 DEF AwaitingTimed
  <2> QED  BY <2>2, <2>3
<1>2. ASSUME NEW s \in Sids, NEW type \in RequestTypes, NEW good \in BOOLEAN,
             OnAnswerMessage(s, type, good)
      PROVE  AwaitingTimed'
  <2> DEFINE info == [mapSessions[s] EXCEPT !.response = FALSE]
  <2>1. s \in DOMAIN mapSessions
    BY <1>2 DEF OnAnswerMessage, AwaitsAnswer
  <2>2. info \in SessionInfo /\ info.response = FALSE
    BY <1>0, <2>1 DEF SessionsTyped, SessionInfo
  <2>3. \A t \in TimerIds \cup {NullTimer} :
          [info EXCEPT !.timer = t].response = FALSE
    BY <2>2 DEF SessionInfo
  <2>4. \/ StoreTimed(s, info, SessionTimeout, Uninit)
        \/ StoreUntimed(s, info)
        \/ Drop(s)
    BY <1>2 DEF OnAnswerMessage
  <2> HIDE DEF info
  <2>5. \/ \E i : mapSessions' = Put(mapSessions, s, i) /\ i.response = FALSE
        \/ mapSessions' = Without(mapSessions, {s})
    BY <2>2, <2>3, <2>4 DEF StoreTimed, StoreUntimed, Drop
  <2> QED  BY <2>5 DEF AwaitingTimed, Put, Without
<1>3. ASSUME NEW S \in SUBSET DOMAIN mapSessions, Erase(S)
      PROVE  AwaitingTimed'
  <2>1. \A s \in DOMAIN mapSessions' :
          /\ s \in DOMAIN mapSessions
          /\ mapSessions'[s].timer = mapSessions[s].timer
          /\ mapSessions'[s].response = mapSessions[s].response
    BY <1>0, <1>3 DEF Erase, SessionInfo, SessionsTyped
  <2> QED  BY <2>1 DEF AwaitingTimed
<1>4. CASE SignalTimers
  <2>1. \A s \in DOMAIN mapSessions' :
          s \in DOMAIN mapSessions /\ mapSessions'[s] = mapSessions[s]
    BY <1>4 DEF SignalTimers, Without
  <2> QED  BY <2>1 DEF AwaitingTimed
<1>5. CASE \/ CalculateTimeout \/ ReadClock \/ FlushOne \/ FlushDone
           \/ Tick \/ UNCHANGED vars
  BY <1>5 DEF CalculateTimeout, ReadClock, FlushOne, FlushDone, Tick, vars,
     AwaitingTimed
<1>6. ASSUME NEW c \in Clients, EraseSessions(c)
      PROVE  AwaitingTimed'
  BY <1>3, <1>6 DEF EraseSessions
<1>7. ASSUME NEW s \in Sids, EraseSession(s)
      PROVE  AwaitingTimed'
  BY <1>3, <1>7 DEF EraseSession
<1> QED  BY <1>1, <1>2, <1>4, <1>5, <1>6, <1>7 DEF Next, TimerThread

-----------------------------------------------------------------------------
(* The inductive invariant and the theorems *)

(* The five facts need each other: a batch keeps the tables typed because every
   timer carries a live session, the links survive an answer because an
   awaiting session has a timer, a deadline is untouched by the traffic of
   other sessions because timers are not shared, and a batch expires only what
   is overdue because the snapshot of the clock is not ahead of it.         *)
IInv ==
  /\ TypeOK
  /\ TimersLinked
  /\ AwaitingTimed
  /\ ThreadState
  /\ DeadlineFollowsTraffic

(* Nothing is linked, awaited or due at the start. *)
LEMMA InitIInv == Init => IInv
<1> SUFFICES ASSUME Init PROVE IInv
  OBVIOUS
<1>1. DOMAIN mapSessions = {} /\ DOMAIN timersMap = {}
  BY DEF Init
<1>2. TypeOK
  BY <1>1 DEF Init, TypeOK
<1>3. ThreadState
  BY DEF Init, ThreadState
<1> QED  BY <1>1, <1>2, <1>3 DEF IInv, TimersLinked, AwaitingTimed,
            DeadlineFollowsTraffic

(* Between two rounds of the timer thread no notification is pending. *)
LEMMA ThreadStateStep ==
  ASSUME TypeOK, ThreadState, [Next]_vars
  PROVE  ThreadState'
<1> USE DEF ThreadState, TypeOK
<1>1. CASE UNCHANGED <<notifications, threadVars, now>>
  BY <1>1 DEF threadVars
<1>2. ASSUME NEW s \in Sids, NEW c \in Clients, NEW type \in RequestTypes,
             OnRequestMessage(s, c, type)
      PROVE  ThreadState'
  BY <1>1, <1>2 DEF OnRequestMessage
<1>3. ASSUME NEW s \in Sids, NEW type \in RequestTypes, NEW good \in BOOLEAN,
             OnAnswerMessage(s, type, good)
      PROVE  ThreadState'
  BY <1>1, <1>3 DEF OnAnswerMessage
<1>4. ASSUME NEW S, Erase(S)
      PROVE  ThreadState'
  BY <1>1, <1>4 DEF Erase
<1>5. CASE SignalTimers
  BY <1>5 DEF SignalTimers
<1>6. CASE CalculateTimeout \/ ReadClock \/ FlushOne \/ FlushDone
  BY <1>6 DEF CalculateTimeout, ReadClock, FlushOne, FlushDone, threadVars
<1>7. CASE Tick
  BY <1>7 DEF Tick, threadVars
<1>8. CASE UNCHANGED vars
  BY <1>1, <1>8 DEF vars
<1> HIDE DEF ThreadState
<1> QED  BY <1>2, <1>3, <1>4, <1>5, <1>6, <1>7, <1>8 DEF Next, TimerThread,
            EraseSessions, EraseSession

(* The sessions SignalTimers removes are those whose timer is in the batch. *)
LEMMA SignalRemoves ==
  ASSUME SessionsTyped, TimersTyped, TimersLinked, SignalTimers
  PROVE  \E B \in SUBSET DueBy(currentTime) :
           /\ mapSessions' = Without(mapSessions, {timersMap[t].smData : t \in B})
           /\ timersMap' = Without(timersMap, B)
           /\ \A t \in B : /\ t \in DOMAIN timersMap
                           /\ timersMap[t].smData \in DOMAIN mapSessions
                           /\ mapSessions[timersMap[t].smData].timer = t
<1>1. PICK B \in Batches : SignalTimers!2!(B)
  BY DEF SignalTimers
<1>2. B \in SUBSET DueBy(currentTime)
  BY DEF Batches
<1> QED  BY <1>1, <1>2 DEF TimersLinked, DueBy

(* Storing s leaves the other sessions and their deadlines alone: no timer is
   shared.                                                                  *)
LEMMA StoreOthers ==
  ASSUME SessionsTyped, TimersTyped, TimersLinked,
         NEW s \in Sids, NEW info \in SessionInfo, KeepsTimer(s, info),
         NEW ms, NEW data,
         StoreTimed(s, info, ms, data) \/ StoreUntimed(s, info)
  PROVE  /\ DOMAIN mapSessions' = DOMAIN mapSessions \cup {s}
         /\ \A q \in DOMAIN mapSessions \ {s} :
              /\ mapSessions'[q] = mapSessions[q]
              /\ mapSessions[q].timer \in DOMAIN timersMap =>
                   /\ mapSessions[q].timer \in DOMAIN timersMap'
                   /\ timersMap'[mapSessions[q].timer].due =
                        timersMap[mapSessions[q].timer].due
<1> USE TimerIdsAssumption DEF SessionsTyped, TimersTyped
<1>1. PICK i : mapSessions' = Put(mapSessions, s, i)
  BY DEF StoreTimed, StoreUntimed
<1>2. \A q \in DOMAIN mapSessions \ {s} :
        mapSessions[q].timer \in DOMAIN timersMap => mapSessions[q].timer # info.timer
  BY DEF TimersLinked, KeepsTimer
<1>3. \A t \in DOMAIN timersMap :
        t # info.timer => t \in DOMAIN timersMap' /\ timersMap'[t] = timersMap[t]
  BY DEF StoreTimed, StoreUntimed, StopTimer, SetTimer, CancelTimer, UpdateTimer,
     timerVars, Put, Without
<1> QED  BY <1>1, <1>2, <1>3 DEF Put

(* With the timer running s expires ms from now; untimed it has no timer. *)
LEMMA StoreOwn ==
  ASSUME SessionsTyped, TimersTyped, TimersLinked, now \in Nat,
         NEW s \in Sids, NEW info \in SessionInfo, KeepsTimer(s, info),
         NEW ms \in Nat, NEW data
  PROVE  /\ StoreTimed(s, info, ms, data) \/ StoreUntimed(s, info) =>
              /\ mapSessions'[s].response = info.response
              /\ mapSessions'[s].isActive = info.isActive
         /\ StoreTimed(s, info, ms, data) =>
              /\ mapSessions'[s].timer \in DOMAIN timersMap'
              /\ timersMap'[mapSessions'[s].timer].due = now + ms
         /\ StoreUntimed(s, info) => mapSessions'[s].timer = NullTimer
<1> USE TimerIdsAssumption DEF SessionsTyped, TimersTyped
<1>0. \A t \in TimerIds \cup {NullTimer} :
        /\ [info EXCEPT !.timer = t].timer = t
        /\ [info EXCEPT !.timer = t].response = info.response
        /\ [info EXCEPT !.timer = t].isActive = info.isActive
  BY DEF SessionInfo
<1>1. ASSUME info.timer # NullTimer, StoreTimed(s, info, ms, data)
      PROVE  /\ mapSessions'[s] = info
             /\ info.timer \in DOMAIN timersMap'
             /\ timersMap'[info.timer].due = now + ms
  <2>1. info.timer \in DOMAIN timersMap
    BY <1>1 DEF KeepsTimer, TimersLinked
  <2>2. timersMap[info.timer] \in TimerData
    BY <2>1
  <2> QED  BY <1>1, <2>1, <2>2 DEF StoreTimed, UpdateTimer, Put, TimerData
<1>2. ASSUME info.timer = NullTimer, StoreTimed(s, info, ms, data)
      PROVE  \E t \in TimerIds :
               /\ mapSessions'[s] = [info EXCEPT !.timer = t]
               /\ t \in DOMAIN timersMap'
               /\ timersMap'[t].due = now + ms
  <2>1. PICK t \in TimerIds : /\ SetTimer(t, ms, data)
                              /\ mapSessions' = Put(mapSessions, s, [info EXCEPT !.timer = t])
    BY <1>2 DEF StoreTimed
  <2>2. timersMap'[t] = [due |-> now + ms, smData |-> data] /\ t \in DOMAIN timersMap'
    BY <2>1 DEF SetTimer, Put
  <2> QED  BY <2>1, <2>2 DEF Put
<1>3. StoreUntimed(s, info) => mapSessions'[s] = [info EXCEPT !.timer = NullTimer]
  BY DEF StoreUntimed, Put
<1> HIDE DEF SessionsTyped, TimersTyped
<1>4. CASE info.timer # NullTimer
  BY <1>0, <1>1, <1>3, <1>4
<1>5. CASE info.timer = NullTimer
  <2>1. ASSUME StoreTimed(s, info, ms, data)
        PROVE  /\ mapSessions'[s].response = info.response
               /\ mapSessions'[s].isActive = info.isActive
               /\ mapSessions'[s].timer \in DOMAIN timersMap'
               /\ timersMap'[mapSessions'[s].timer].due = now + ms
    <3>1. PICK t \in TimerIds :
            /\ mapSessions'[s] = [info EXCEPT !.timer = t]
            /\ t \in DOMAIN timersMap'
            /\ timersMap'[t].due = now + ms
      BY <1>2, <1>5, <2>1
    <3>2. /\ mapSessions'[s].timer = t
          /\ mapSessions'[s].response = info.response
          /\ mapSessions'[s].isActive = info.isActive
      BY <1>0, <3>1, Zenon
    <3> QED  BY <3>1, <3>2
  <2>2. StoreUntimed(s, info) =>
          /\ mapSessions'[s].timer = NullTimer
          /\ mapSessions'[s].response = info.response
          /\ mapSessions'[s].isActive = info.isActive
    BY <1>0, <1>3, Zenon
  <2> QED  BY <2>1, <2>2
<1> QED  BY <1>4, <1>5

(* So a store whose timeout is the one of the turn keeps the deadlines right. *)
LEMMA StoreDeadline ==
  ASSUME SessionsTyped, TimersTyped, TimersLinked, DeadlineFollowsTraffic,
         now \in Nat, lastHeard \in [Sids -> Nat],
         NEW s \in Sids, NEW info \in SessionInfo, KeepsTimer(s, info),
         NEW ms \in Nat, NEW data, ms = TimeoutOf(info),
         \/ StoreTimed(s, info, ms, data) /\ ms > 0
         \/ StoreUntimed(s, info) /\ ms = 0,
         lastHeard' = [lastHeard EXCEPT ![s] = now]
  PROVE  DeadlineFollowsTraffic'
<1>1. SUFFICES ASSUME NEW q \in DOMAIN mapSessions', mapSessions'[q].isActive
               PROVE  IF TimeoutOf(mapSessions'[q]) = 0
                      THEN mapSessions'[q].timer = NullTimer
                      ELSE /\ mapSessions'[q].timer \in DOMAIN timersMap'
                           /\ timersMap'[mapSessions'[q].timer].due =
                                lastHeard'[q] + TimeoutOf(mapSessions'[q])
  BY <1>1 DEF DeadlineFollowsTraffic, TimeoutOf
<1>2. CASE q = s
  BY <1>2, StoreOwn DEF TimeoutOf
<1>3. CASE q # s
  <2>1. q \in DOMAIN mapSessions /\ mapSessions'[q] = mapSessions[q]
    BY <1>3, StoreOthers
  <2>2. lastHeard'[q] = lastHeard[q]
    BY <1>3
  <2>3. mapSessions[q].timer \in DOMAIN timersMap =>
          /\ mapSessions[q].timer \in DOMAIN timersMap'
          /\ timersMap'[mapSessions[q].timer].due = timersMap[mapSessions[q].timer].due
    BY <1>3, <2>1, StoreOthers
  <2> QED  BY <1>1, <2>1, <2>2, <2>3 DEF DeadlineFollowsTraffic
<1> QED  BY <1>2, <1>3

(* Every step keeps the deadlines right. *)
LEMMA DeadlineStep ==
  ASSUME IInv, [Next]_vars
  PROVE  DeadlineFollowsTraffic'
<1> USE TimeoutsAssumption, TimerIdsAssumption
<1>0. /\ SessionsTyped /\ TimersTyped /\ TimersLinked /\ AwaitingTimed
      /\ DeadlineFollowsTraffic
      /\ now \in Nat /\ lastHeard \in [Sids -> Nat]
  BY DEF IInv, TypeOK, SessionsTyped, TimersTyped
<1>1. ASSUME NEW s \in Sids, NEW c \in Clients, NEW type \in RequestTypes,
             OnRequestMessage(s, c, type)
      PROVE  DeadlineFollowsTraffic'
  <2> DEFINE info == IF type \in Opening THEN NewSession(c)
                     ELSE [mapSessions[s] EXCEPT !.response = TRUE]
  <2>1. info \in SessionInfo /\ KeepsTimer(s, info) /\ info.response
    <3>1. CASE type \in Opening
      <4>1. s \notin DOMAIN mapSessions
        BY <1>1, <3>1 DEF OnRequestMessage, SkipsPacket
      <4> QED  BY <3>1, <4>1 DEF NewSession, SessionInfo, KeepsTimer
    <3>2. CASE type \notin Opening
      <4>1. s \in DOMAIN mapSessions
        BY <1>1, <3>2 DEF OnRequestMessage, SkipsPacket
      <4> QED  BY <1>0, <3>2, <4>1 DEF SessionsTyped, SessionInfo, KeepsTimer
    <3> QED  BY <3>1, <3>2
  <2>2. \/ StoreTimed(s, info, ResponseTimeout, s) /\ ResponseTimeout > 0
        \/ StoreUntimed(s, info) /\ ResponseTimeout = 0
    BY <1>1 DEF OnRequestMessage
  <2>3. lastHeard' = [lastHeard EXCEPT ![s] = now]
    BY <1>1 DEF OnRequestMessage
  <2> HIDE DEF info
  <2>4. ResponseTimeout = TimeoutOf(info)
    BY <2>1 DEF TimeoutOf
  <2> QED  BY <1>0, <2>1, <2>2, <2>3, <2>4, StoreDeadline
<1>2. ASSUME NEW s \in Sids, NEW type \in RequestTypes, NEW good \in BOOLEAN,
             OnAnswerMessage(s, type, good)
      PROVE  DeadlineFollowsTraffic'
  <2> DEFINE info == [mapSessions[s] EXCEPT !.response = FALSE]
  <2>1. s \in DOMAIN mapSessions
    BY <1>2 DEF OnAnswerMessage, AwaitsAnswer
  <2>2. info \in SessionInfo /\ KeepsTimer(s, info) /\ ~info.response
    BY <1>0, <2>1 DEF SessionsTyped, SessionInfo, KeepsTimer
  <2>3. lastHeard' = [lastHeard EXCEPT ![s] = now]
    BY <1>2 DEF OnAnswerMessage
  <2>4. \/ StoreTimed(s, info, SessionTimeout, Uninit) /\ SessionTimeout > 0
        \/ StoreUntimed(s, info) /\ SessionTimeout = 0
        \/ Drop(s)
    BY <1>2 DEF OnAnswerMessage
  <2> HIDE DEF info
  <2>5. SessionTimeout = TimeoutOf(info)
    BY <2>2 DEF TimeoutOf
  <2>6. CASE Drop(s)
    <3>1. mapSessions' = Without(mapSessions, {s})
      BY <2>6 DEF Drop
    <3>2. \A q \in DOMAIN mapSessions \ {s} :
            mapSessions[q].timer \in DOMAIN timersMap =>
              mapSessions[q].timer # mapSessions[s].timer
      BY <1>0, <2>1 DEF TimersLinked, TimersTyped, SessionsTyped
    <3>3. \A t \in DOMAIN timersMap : t # mapSessions[s].timer =>
            t \in DOMAIN timersMap' /\ timersMap'[t] = timersMap[t]
      BY <2>6 DEF Drop, StopTimer, CancelTimer, timerVars, Without
    <3>4. \A q \in DOMAIN mapSessions' :
            /\ q \in DOMAIN mapSessions /\ q # s
            /\ mapSessions'[q] = mapSessions[q]
            /\ lastHeard'[q] = lastHeard[q]
      BY <1>0, <2>3, <3>1 DEF Without, SessionsTyped
    <3> QED  BY <1>0, <3>2, <3>3, <3>4 DEF DeadlineFollowsTraffic, TimeoutOf
  <2> QED  BY <1>0, <2>2, <2>3, <2>4, <2>5, <2>6, StoreDeadline
<1>3. ASSUME NEW S \in SUBSET DOMAIN mapSessions, Erase(S)
      PROVE  DeadlineFollowsTraffic'
  <2>1. \A s \in DOMAIN mapSessions' : mapSessions'[s].isActive =>
          /\ s \in DOMAIN mapSessions
          /\ mapSessions'[s] = mapSessions[s]
          /\ mapSessions[s].timer # NullTimer => s \notin S
    BY <1>0, <1>3 DEF Erase, SessionInfo, SessionsTyped
  <2>2. \A s \in DOMAIN mapSessions \ S :
          mapSessions[s].timer \in DOMAIN timersMap =>
            /\ mapSessions[s].timer \in DOMAIN timersMap'
            /\ timersMap'[mapSessions[s].timer] = timersMap[mapSessions[s].timer]
    BY <1>0, <1>3 DEF Erase, TimersLinked, TimersTyped
  <2>3. lastHeard' = lastHeard
    BY <1>3 DEF Erase
  <2>4. NullTimer \notin DOMAIN timersMap
    BY <1>0 DEF TimersTyped
  <2> QED  BY <1>0, <2>1, <2>2, <2>3, <2>4 DEF DeadlineFollowsTraffic, TimeoutOf
<1>4. CASE SignalTimers
  <2>1. PICK B \in SUBSET DueBy(currentTime) :
           /\ mapSessions' = Without(mapSessions, {timersMap[t].smData : t \in B})
           /\ timersMap' = Without(timersMap, B)
    BY <1>0, <1>4, SignalRemoves
  <2>2. \A s \in DOMAIN mapSessions' :
          /\ s \in DOMAIN mapSessions
          /\ mapSessions'[s] = mapSessions[s]
          /\ mapSessions[s].timer \in DOMAIN timersMap =>
               mapSessions[s].timer \in DOMAIN timersMap \ B
    BY <1>0, <2>1 DEF Without, TimersLinked, TimersTyped
  <2>3. \A t \in DOMAIN timersMap \ B :
          t \in DOMAIN timersMap' /\ timersMap'[t] = timersMap[t]
    BY <2>1 DEF Without
  <2>4. lastHeard' = lastHeard
    BY <1>4 DEF SignalTimers
  <2> QED  BY <1>0, <2>2, <2>3, <2>4 DEF DeadlineFollowsTraffic, TimeoutOf
<1>5. CASE \/ CalculateTimeout \/ ReadClock \/ FlushOne \/ FlushDone
           \/ Tick \/ UNCHANGED vars
  BY <1>0, <1>5 DEF CalculateTimeout, ReadClock, FlushOne, FlushDone, Tick, vars,
     timerVars, DeadlineFollowsTraffic, TimeoutOf
<1>6. ASSUME NEW c \in Clients, EraseSessions(c)
      PROVE  DeadlineFollowsTraffic'
  BY <1>3, <1>6 DEF EraseSessions
<1>7. ASSUME NEW s \in Sids, EraseSession(s)
      PROVE  DeadlineFollowsTraffic'
  BY <1>3, <1>7 DEF EraseSession
<1> QED  BY <1>1, <1>2, <1>4, <1>5, <1>6, <1>7 DEF Next, TimerThread

(* The invariant is inductive. *)
LEMMA IInvStep == IInv /\ [Next]_vars => IInv'
<1> SUFFICES ASSUME IInv, [Next]_vars PROVE IInv'
  OBVIOUS
<1>1. TypeOK' /\ TimersLinked' /\ AwaitingTimed' /\ ThreadState'
  BY TypeStep, LinkedStep, AwaitingStep, ThreadStateStep DEF IInv
<1>2. DeadlineFollowsTraffic'
  BY DeadlineStep
<1> QED  BY <1>1, <1>2 DEF IInv

(* IInv holds in every behaviour. *)
THEOREM Invariance == Spec => []IInv
  BY InitIInv, IInvStep, PTL DEF Spec

(* Every reachable state is well typed. *)
THEOREM TypeCorrect == Spec => []TypeOK
<1>1. IInv => TypeOK
  BY DEF IInv
<1> QED  BY <1>1, Invariance, PTL

(* Sessions and timers point at each other in every reachable state, so OnTimer
   always follows a pointer to a live session and removes that one.         *)
THEOREM Linked == Spec => []TimersLinked
<1>1. IInv => TimersLinked
  BY DEF IInv
<1> QED  BY <1>1, Invariance, PTL

(* The deadline of a session is always one timeout after its last message. *)
THEOREM Deadlines == Spec => []DeadlineFollowsTraffic
<1>1. IInv => DeadlineFollowsTraffic
  BY DEF IInv
<1> QED  BY <1>1, Invariance, PTL

(* The timer thread expires no session of a connected client that has not been
   silent for its timeout.                                                  *)
THEOREM ExpiryNeedsSilence == Spec => NoEarlyExpiry
<1>1. ASSUME IInv, SignalTimers,
             NEW s \in DOMAIN mapSessions \ DOMAIN mapSessions',
             mapSessions[s].isActive
      PROVE  lastHeard[s] + TimeoutOf(mapSessions[s]) <= now
  <2> USE TimeoutsAssumption, TimerIdsAssumption
  <2>0. /\ SessionsTyped /\ TimersTyped /\ TimersLinked
        /\ DeadlineFollowsTraffic /\ ThreadState
        /\ now \in Nat /\ currentTime \in Nat /\ lastHeard \in [Sids -> Nat]
    BY <1>1 DEF IInv, TypeOK, SessionsTyped, TimersTyped
  <2>1. PICK B \in SUBSET DueBy(currentTime) :
          /\ mapSessions' = Without(mapSessions, {timersMap[t].smData : t \in B})
          /\ \A t \in B : /\ t \in DOMAIN timersMap
                          /\ mapSessions[timersMap[t].smData].timer = t
    BY <1>1, <2>0, SignalRemoves
  <2>2. PICK t \in B : timersMap[t].smData = s
    BY <1>1, <2>1 DEF Without
  <2>3. mapSessions[s].timer = t /\ t \in DOMAIN timersMap /\ t # NullTimer
    BY <2>0, <2>1, <2>2 DEF TimersTyped
  <2>4. timersMap[t].due = lastHeard[s] + TimeoutOf(mapSessions[s])
    BY <1>1, <2>0, <2>3 DEF DeadlineFollowsTraffic
  <2>5. timersMap[t].due <= currentTime
    BY <2>1, <2>2 DEF DueBy
  <2>6. timersMap[t].due \in Nat
    BY <2>0, <2>3 DEF TimersTyped, TimerData
  <2> QED  BY <2>0, <2>4, <2>5, <2>6 DEF ThreadState
<1>2. IInv /\ [Next]_vars =>
        [SignalTimers =>
           \A s \in DOMAIN mapSessions \ DOMAIN mapSessions' :
             mapSessions[s].isActive =>
               lastHeard[s] + TimeoutOf(mapSessions[s]) <= now]_vars
  BY <1>1
<1> QED  BY <1>2, Invariance, PTL DEF NoEarlyExpiry, Spec

-----------------------------------------------------------------------------
(* Conservation of timers *)

(* Starting a timer adds one to the multiset, cancelling one takes it away,
   restarting one does neither, and each is counted.                        *)
LEMMA TimersConservedStep ==
  ASSUME TimersTyped, count = Cardinality(DOMAIN timersMap),
         created = count + cancelled + triggered,
         NEW t, NEW ms, NEW data,
         \/ SetTimer(t, ms, data) /\ t \notin DOMAIN timersMap
         \/ CancelTimer(t) /\ t \in DOMAIN timersMap
         \/ UpdateTimer(t, ms)
  PROVE  /\ count' = Cardinality(DOMAIN timersMap')
         /\ created' = count' + cancelled' + triggered'
         /\ triggered' = triggered
<1>1. IsFiniteSet(DOMAIN timersMap)
  BY TimerIdsAssumption, FS_Subset DEF TimersTyped
<1>2. Cardinality(DOMAIN timersMap) \in Nat
  BY <1>1, FS_CardinalityType
<1>3. CASE SetTimer(t, ms, data) /\ t \notin DOMAIN timersMap
  <2>1. DOMAIN timersMap' = DOMAIN timersMap \cup {t}
    BY <1>3 DEF SetTimer, Put
  <2>2. Cardinality(DOMAIN timersMap \cup {t}) = Cardinality(DOMAIN timersMap) + 1
    BY <1>1, <1>3, FS_AddElement
  <2> QED  BY <1>2, <1>3, <2>1, <2>2 DEF SetTimer, TimersTyped
<1>4. CASE CancelTimer(t) /\ t \in DOMAIN timersMap
  <2>1. DOMAIN timersMap' = DOMAIN timersMap \ {t}
    BY <1>4 DEF CancelTimer, Without
  <2>2. Cardinality(DOMAIN timersMap \ {t}) = Cardinality(DOMAIN timersMap) - 1
    BY <1>1, <1>4, FS_RemoveElement
  <2> QED  BY <1>2, <1>4, <2>1, <2>2 DEF CancelTimer, TimersTyped
<1>5. CASE UpdateTimer(t, ms)
  BY <1>5 DEF UpdateTimer, counters
<1> QED  BY <1>3, <1>4, <1>5

(* A batch yields one notification per timer: different timers carry
   different sessions.                                                      *)
LEMMA BatchNotifications ==
  ASSUME TimersTyped, TimersLinked, NEW B \in Batches
  PROVE  LET N == {NotificationOf(s) : s \in {timersMap[t].smData : t \in B}}
         IN  IsFiniteSet(N) /\ Cardinality(N) = Cardinality(B)
<1> DEFINE N == {NotificationOf(s) : s \in {timersMap[t].smData : t \in B}}
           f == [t \in B |-> NotificationOf(timersMap[t].smData)]
<1>1. B \subseteq DOMAIN timersMap /\ IsFiniteSet(B)
  BY BatchFinite
<1>2. f \in [B -> N] /\ \A n \in N : \E t \in B : f[t] = n
  OBVIOUS
<1>3. \A t, u \in B : f[t] = f[u] => t = u
  <2>1. SUFFICES ASSUME NEW t \in B, NEW u \in B,
                        NotificationOf(timersMap[t].smData) =
                          NotificationOf(timersMap[u].smData)
                 PROVE  t = u
    OBVIOUS
  <2>2. timersMap[t].smData = timersMap[u].smData
    BY <2>1 DEF NotificationOf
  <2> QED  BY <1>1, <2>2 DEF TimersLinked
<1> HIDE DEF N, f
<1>4. f \in Bijection(B, N)
  BY <1>2, <1>3 DEF Bijection, Injection, Surjection, IsInjective
<1>5. ExistsBijection(B, N)
  BY <1>4 DEF ExistsBijection
<1>6. IsFiniteSet(N) /\ Cardinality(N) = Cardinality(B)
  BY <1>1, <1>5, FS_Bijection
<1> QED  BY <1>6 DEF N

(* Cardinality counts only finite sets: the notifications are finitely many. *)
Conserved == TimersConserved /\ IsFiniteSet(notifications)

(* The part of Conserved an operation on the timers alone must keep. *)
Balanced ==
  /\ count = Cardinality(DOMAIN timersMap)
  /\ created = count + cancelled + triggered

(* Storing or dropping a session keeps the timer counts in balance and triggers
   none.                                                                    *)
LEMMA BalancedStep ==
  ASSUME SessionsTyped, TimersTyped, TimersLinked, Balanced,
         NEW s \in Sids, NEW info \in SessionInfo, KeepsTimer(s, info),
         NEW ms, NEW data,
         \/ StoreTimed(s, info, ms, data)
         \/ StoreUntimed(s, info)
         \/ s \in DOMAIN mapSessions /\ Drop(s)
  PROVE  Balanced' /\ triggered' = triggered
<1> USE DEF Balanced
<1>0. /\ info.timer # NullTimer => info.timer \in DOMAIN timersMap
      /\ s \in DOMAIN mapSessions /\ mapSessions[s].timer # NullTimer =>
           mapSessions[s].timer \in DOMAIN timersMap
  BY DEF KeepsTimer, TimersLinked
<1>1. CASE StoreTimed(s, info, ms, data)
  BY <1>1, TimersConservedStep DEF StoreTimed
<1>2. ASSUME NEW t, t # NullTimer => t \in DOMAIN timersMap, StopTimer(t)
      PROVE  Balanced' /\ triggered' = triggered
  <2>1. CASE t # NullTimer
    BY <1>2, <2>1, TimersConservedStep DEF StopTimer
  <2>2. CASE t = NullTimer
    BY <1>2, <2>2 DEF StopTimer, timerVars, counters
  <2> QED  BY <2>1, <2>2
<1>3. CASE StoreUntimed(s, info)
  BY <1>0, <1>2, <1>3 DEF StoreUntimed
<1>4. CASE s \in DOMAIN mapSessions /\ Drop(s)
  BY <1>0, <1>2, <1>4 DEF Drop
<1> QED  BY <1>1, <1>3, <1>4

(* Every step keeps the counts and the finiteness the balance needs. *)
LEMMA ConservedStep ==
  ASSUME IInv, Conserved, [Next]_vars
  PROVE  Conserved'
<1>0. /\ SessionsTyped /\ TimersTyped /\ TimersLinked /\ ThreadState
      /\ delivered \in Nat /\ Balanced /\ IsFiniteSet(notifications)
      /\ triggered = delivered + Cardinality(notifications)
  BY DEF IInv, TypeOK, SessionsTyped, TimersTyped, Conserved, TimersConserved,
     Balanced
<1>a. Cardinality(notifications) \in Nat
  BY <1>0, FS_CardinalityType
<1>b. ASSUME Balanced', triggered' = triggered,
             UNCHANGED <<notifications, delivered>>
      PROVE  Conserved'
  BY <1>0, <1>b DEF Conserved, TimersConserved, Balanced
<1>c. ASSUME UNCHANGED <<counters, notifications, delivered>>,
             DOMAIN timersMap' = DOMAIN timersMap
      PROVE  Conserved'
  BY <1>0, <1>c DEF Conserved, TimersConserved, Balanced, counters
<1>1. ASSUME NEW s \in Sids, NEW c \in Clients, NEW type \in RequestTypes,
             OnRequestMessage(s, c, type)
      PROVE  Conserved'
  <2> DEFINE info == IF type \in Opening THEN NewSession(c)
                     ELSE [mapSessions[s] EXCEPT !.response = TRUE]
  <2>1. info \in SessionInfo /\ KeepsTimer(s, info)
    <3>1. CASE type \in Opening
      <4>1. s \notin DOMAIN mapSessions
        BY <1>1, <3>1 DEF OnRequestMessage, SkipsPacket
      <4> QED  BY <3>1, <4>1 DEF NewSession, SessionInfo, KeepsTimer
    <3>2. CASE type \notin Opening
      <4>1. s \in DOMAIN mapSessions
        BY <1>1, <3>2 DEF OnRequestMessage, SkipsPacket
      <4> QED  BY <1>0, <3>2, <4>1 DEF SessionsTyped, SessionInfo, KeepsTimer
    <3> QED  BY <3>1, <3>2
  <2>2. /\ \/ StoreTimed(s, info, ResponseTimeout, s)
           \/ StoreUntimed(s, info)
        /\ UNCHANGED <<notifications, delivered>>
    BY <1>1 DEF OnRequestMessage
  <2> HIDE DEF info
  <2> QED  BY <1>0, <1>b, <2>1, <2>2, BalancedStep
<1>2. ASSUME NEW s \in Sids, NEW type \in RequestTypes, NEW good \in BOOLEAN,
             OnAnswerMessage(s, type, good)
      PROVE  Conserved'
  <2> DEFINE info == [mapSessions[s] EXCEPT !.response = FALSE]
  <2>1. s \in DOMAIN mapSessions
    BY <1>2 DEF OnAnswerMessage, AwaitsAnswer
  <2>2. info \in SessionInfo /\ KeepsTimer(s, info)
    BY <1>0, <2>1 DEF SessionsTyped, SessionInfo, KeepsTimer
  <2>3. /\ \/ StoreTimed(s, info, SessionTimeout, Uninit)
           \/ StoreUntimed(s, info)
           \/ Drop(s)
        /\ UNCHANGED <<notifications, delivered>>
    BY <1>2 DEF OnAnswerMessage
  <2> HIDE DEF info
  <2> QED  BY <1>0, <1>b, <2>1, <2>2, <2>3, BalancedStep
<1>3. ASSUME NEW S, Erase(S)
      PROVE  Conserved'
  BY <1>c, <1>3 DEF Erase
<1>4. CASE SignalTimers
  <2>1. PICK B \in Batches : SignalTimers!2!(B)
    BY <1>4 DEF SignalTimers
  <2> DEFINE N == {NotificationOf(s) : s \in {timersMap[t].smData : t \in B}}
  <2>2. notifications = {} /\ Cardinality(notifications) = 0
    BY <1>0, <1>4, FS_EmptySet DEF SignalTimers, ThreadState
  <2>3. notifications' = N
    BY <2>1, <2>2
  <2>4. IsFiniteSet(N) /\ Cardinality(N) = Cardinality(B)
    BY <1>0, BatchNotifications
  <2>5. B \subseteq DOMAIN timersMap /\ Cardinality(B) \in Nat
    BY <1>0, BatchFinite
  <2>6. IsFiniteSet(DOMAIN timersMap)
    BY <1>0, TimerIdsAssumption, FS_Subset DEF TimersTyped
  <2>7. DOMAIN timersMap' = DOMAIN timersMap \ B
    BY <2>1 DEF Without
  <2>8. (DOMAIN timersMap) \cap B = B
    BY <2>5
  <2>9. Cardinality(DOMAIN timersMap \ B) =
          Cardinality(DOMAIN timersMap) - Cardinality(B)
    BY <2>6, <2>8, FS_Difference
  <2>10. /\ count' = count - Cardinality(B)
         /\ triggered' = triggered + Cardinality(B)
         /\ UNCHANGED <<created, cancelled, delivered>>
    BY <1>4, <2>1 DEF SignalTimers
  <2> HIDE DEF N
  <2>11. count' = Cardinality(DOMAIN timersMap')
    BY <1>0, <2>7, <2>9, <2>10 DEF Balanced
  <2>12. created' = count' + cancelled' + triggered'
    BY <1>0, <2>5, <2>10 DEF Balanced, TimersTyped
  <2>13. triggered' = delivered' + Cardinality(notifications')
    <3>1. triggered = delivered
      BY <1>0, <2>2
    <3> QED  BY <2>3, <2>4, <2>10, <3>1
  <2>14. IsFiniteSet(notifications')
    BY <2>3, <2>4
  <2> QED  BY <2>11, <2>12, <2>13, <2>14 DEF Conserved, TimersConserved
<1>5. CASE FlushOne
  <2>1. PICK n \in notifications : notifications' = notifications \ {n}
    BY <1>5 DEF FlushOne
  <2>2. /\ IsFiniteSet(notifications')
        /\ Cardinality(notifications') = Cardinality(notifications) - 1
    BY <1>0, <2>1, FS_RemoveElement
  <2> QED  BY <1>0, <1>5, <1>a, <2>2
           DEF FlushOne, Conserved, TimersConserved, Balanced, timerVars, counters
<1>6. CASE \/ CalculateTimeout \/ ReadClock \/ FlushDone \/ Tick
           \/ UNCHANGED vars
  BY <1>c, <1>6 DEF CalculateTimeout, ReadClock, FlushDone, Tick, vars, timerVars
<1> QED  BY <1>1, <1>2, <1>3, <1>4, <1>5, <1>6 DEF Next, TimerThread,
            EraseSessions, EraseSession

(* The counters the server reports balance, and each timer that fires makes one
   callback, in every reachable state.                                      *)
THEOREM Conservation == Spec => []TimersConserved
<1>1. Init => Conserved
  BY FS_EmptySet DEF Init, Conserved, TimersConserved
<1>2. IInv /\ Conserved /\ [Next]_vars => Conserved'
  BY ConservedStep
<1>3. Conserved => TimersConserved
  BY DEF Conserved
<1> QED  BY <1>1, <1>2, <1>3, Invariance, PTL DEF Spec

=============================================================================
