--------------------------- MODULE SessionManager ---------------------------
(***************************************************************************)
(* CSessionManager and its CTimerManager: the table of credit-control      *)
(* sessions, the multiset of timers that expires them, and the timer       *)
(* thread.                                                                 *)
(*                                                                         *)
(* Every operation of the table and SignalTimers run under one mutex       *)
(* (m_Mutex, which the timer manager locks through SMTimerManagerLock), so *)
(* each is one action.  The timer thread is not atomic: it decides that    *)
(* something is due, reads the clock, takes the lock and signals a batch,  *)
(* and delivers the notifications after it has released the lock.          *)
(***************************************************************************)
EXTENDS Integers, FiniteSets

CONSTANTS
  Sids,             (* session identifiers (Session-Id AVP)                 *)
  Clients,          (* connections a session can belong to                  *)
  TimerIds,         (* addresses of TimerData objects                       *)
  NullTimer,        (* m_TimersMap.end()                                    *)
  Uninit,           (* an m_SMData iterator nobody has assigned             *)
  ResponseTimeout,  (* m_ResponseTimeout, in ticks; 0 disables              *)
  SessionTimeout,   (* m_SessionTimeout, in ticks; 0 disables               *)
  BatchSize,        (* TIMERS_BATCH_SIZE                                    *)
  MaxTime,          (* bound: the clock stops here                          *)
  MaxCreated        (* bound: timers created during a behaviour             *)

ASSUME TimeoutsAssumption ==
  /\ ResponseTimeout \in Nat
  /\ SessionTimeout \in Nat
  (* DiameterSettings sets both, the client defaults both to 0; a session
     timeout without a response timeout would run the branch that leaves
     m_SMData unassigned.                                                   *)
  /\ ResponseTimeout = 0 => SessionTimeout = 0

ASSUME BoundsAssumption ==
  /\ BatchSize \in Nat \ {0}
  /\ MaxTime \in Nat
  /\ MaxCreated \in Nat

ASSUME TimerIdsAssumption ==
  /\ IsFiniteSet(TimerIds)
  /\ NullTimer \notin TimerIds
  /\ Uninit \notin Sids

VARIABLES
  mapSessions,      (* m_mapSessions: session id -> SessionInfo             *)
  timersMap,        (* m_TimersMap: live TimerData, ordered by due          *)
  count,            (* m_Count, and the timer manager's other counters:     *)
  created,          (* m_CreatedCount                                       *)
  cancelled,        (* m_CancelledCount                                     *)
  triggered,        (* m_TriggeredCount                                     *)
  notifications,    (* m_SessionNotifications not yet called back           *)
  delivered,        (* number of OnResponseTimeout / OnSessionTimeout calls *)
  pc,               (* where the timer thread is in CTimerManager::svc      *)
  currentTime,      (* SignalTimers' snapshot of the clock                  *)
  batch,            (* what the last SignalTimers returned                  *)
  now,              (* the clock nowMSec() reads                            *)
  lastHeard         (* history: when the last message of a session was
                       accepted                                             *)

counters   == <<count, created, cancelled, triggered>>
timerVars  == <<timersMap, counters>>
threadVars == <<pc, currentTime, batch>>
vars == <<mapSessions, timerVars, notifications, delivered,
          threadVars, now, lastHeard>>

Opening      == {"INITIAL", "EVENT"}
RequestTypes == Opening \cup {"UPDATE", "TERMINATION"}

SessionInfo == [client : Clients, response : BOOLEAN, isActive : BOOLEAN,
                timer : TimerIds \cup {NullTimer}]
TimerData   == [due : Nat, smData : Sids \cup {Uninit}]
Notification == [sid : Sids, client : Clients,
                 state : {"TERMINATED", "ANSWER_TURN", "REQUEST_TURN"}]

TypeOK ==
  /\ DOMAIN mapSessions \subseteq Sids
  /\ mapSessions \in [DOMAIN mapSessions -> SessionInfo]
  /\ DOMAIN timersMap \subseteq TimerIds
  /\ timersMap \in [DOMAIN timersMap -> TimerData]
  /\ count \in Int
  /\ created \in Nat
  /\ cancelled \in Nat
  /\ triggered \in Nat
  /\ notifications \subseteq Notification
  /\ delivered \in Nat
  /\ pc \in {"CalculateTimeout", "nowMSec", "SignalTimers", "Flush"}
  /\ currentTime \in Nat
  /\ batch \in Nat
  /\ now \in Nat
  /\ lastHeard \in [Sids -> Nat]

Init ==
  /\ mapSessions = [s \in {} |-> NullTimer]
  /\ timersMap = [t \in {} |-> NullTimer]
  /\ count = 0
  /\ created = 0
  /\ cancelled = 0
  /\ triggered = 0
  /\ notifications = {}
  /\ delivered = 0
  /\ pc = "CalculateTimeout"
  /\ currentTime = 0
  /\ batch = 0
  /\ now = 0
  /\ lastHeard = [s \in Sids |-> 0]

(* f with x mapped to v, and f without the points of S. *)
Put(f, x, v)  == [y \in DOMAIN f \cup {x} |-> IF y = x THEN v ELSE f[y]]
Without(f, S) == [y \in DOMAIN f \ S |-> f[y]]

-----------------------------------------------------------------------------
(* CTimerManager, called with the mutex held *)

SetTimer(t, ms, data) ==
  /\ created < MaxCreated
  /\ timersMap' = Put(timersMap, t, [due |-> now + ms, smData |-> data])
  /\ count' = count + 1
  /\ created' = created + 1
  /\ UNCHANGED <<cancelled, triggered>>

CancelTimer_Uncounted(t) ==   \* faulty: m_Count keeps the cancelled timer
  /\ timersMap' = Without(timersMap, {t})
  /\ cancelled' = cancelled + 1
  /\ UNCHANGED <<count, created, triggered>>

CancelTimer(t) ==
  /\ timersMap' = Without(timersMap, {t})
  /\ count' = count - 1
  /\ cancelled' = cancelled + 1
  /\ UNCHANGED <<created, triggered>>

UpdateTimer_Extends(t, ms) ==   \* faulty: counts from the old deadline
  /\ timersMap' = [timersMap EXCEPT ![t].due = @ + ms]
  /\ UNCHANGED counters

UpdateTimer(t, ms) ==
  /\ timersMap' = [timersMap EXCEPT ![t].due = now + ms]
  /\ UNCHANGED counters

StopTimer(t) == IF t # NullTimer THEN CancelTimer(t) ELSE UNCHANGED timerVars

-----------------------------------------------------------------------------
(* CSessionManager *)

(* Store info for session s and let its timer run for ms: the one it has,
   or a new one, whose back pointer is data.                                *)
StoreTimed(s, info, ms, data) ==
  IF info.timer # NullTimer
  THEN /\ UpdateTimer(info.timer, ms)
       /\ mapSessions' = Put(mapSessions, s, info)
  ELSE \E t \in TimerIds \ DOMAIN timersMap :
         /\ SetTimer(t, ms, data)
         /\ mapSessions' = Put(mapSessions, s, [info EXCEPT !.timer = t])

StoreUntimed(s, info) ==
  /\ StopTimer(info.timer)
  /\ mapSessions' = Put(mapSessions, s, [info EXCEPT !.timer = NullTimer])

Drop_LeavesTimer(s) ==   \* faulty: the timer survives its session
  /\ mapSessions' = Without(mapSessions, {s})
  /\ UNCHANGED timerVars

Drop(s) ==
  /\ StopTimer(mapSessions[s].timer)
  /\ mapSessions' = Without(mapSessions, {s})

NewSession(c) ==
  [client |-> c, response |-> TRUE, isActive |-> TRUE, timer |-> NullTimer]

(* What OnRequestMessage answers in _flagSkipPacket. *)
SkipsPacket(s, c, type) ==
  IF type \in Opening
  THEN s \in DOMAIN mapSessions
  ELSE s \notin DOMAIN mapSessions \/ mapSessions[s].client # c

OnRequestMessage(s, c, type) ==
  /\ ~SkipsPacket(s, c, type)
  /\ LET info == IF type \in Opening
                 THEN NewSession(c)
                 ELSE [mapSessions[s] EXCEPT !.response = TRUE]
     IN  IF ResponseTimeout > 0
         THEN StoreTimed(s, info, ResponseTimeout, s)
         ELSE StoreUntimed(s, info)
  /\ lastHeard' = [lastHeard EXCEPT ![s] = now]
  /\ UNCHANGED <<notifications, delivered, threadVars, now>>

(* An answer is of interest only while the session awaits one. *)
AwaitsAnswer(s) == s \in DOMAIN mapSessions /\ mapSessions[s].response

(* Both overloads; good is "result code 2001, or a final-unit indication". *)
OnAnswerMessage(s, type, good) ==
  /\ AwaitsAnswer(s)
  /\ LET info == [mapSessions[s] EXCEPT !.response = FALSE]
     IN  IF type \in {"INITIAL", "UPDATE"} /\ good
         THEN IF SessionTimeout > 0
              THEN StoreTimed(s, info, SessionTimeout, Uninit)
              ELSE StoreUntimed(s, info)
         ELSE Drop(s)
  /\ lastHeard' = [lastHeard EXCEPT ![s] = now]
  /\ UNCHANGED <<notifications, delivered, threadVars, now>>

(* Timed sessions are left to the timer thread, the others go at once. *)
Erase(S) ==
  LET timed == {s \in S : mapSessions[s].timer # NullTimer}
  IN  /\ mapSessions' =
           [s \in DOMAIN mapSessions \ (S \ timed) |->
              IF s \in timed THEN [mapSessions[s] EXCEPT !.isActive = FALSE]
                             ELSE mapSessions[s]]
      /\ timersMap' =
           [t \in DOMAIN timersMap |->
              IF \E s \in timed : mapSessions[s].timer = t
              THEN [timersMap[t] EXCEPT !.due = now]
              ELSE timersMap[t]]
      /\ UNCHANGED <<counters, notifications, delivered, threadVars, now,
                     lastHeard>>

EraseSessions(c) == Erase({s \in DOMAIN mapSessions : mapSessions[s].client = c})

EraseSession(s) == s \in DOMAIN mapSessions /\ Erase({s})

-----------------------------------------------------------------------------
(* The timer thread *)

DueBy_Early(time) ==   \* faulty: signals a tick too soon
  {t \in DOMAIN timersMap : timersMap[t].due <= time + 1}

DueBy(time) == {t \in DOMAIN timersMap : timersMap[t].due <= time}

CalculateTimeout ==
  /\ pc = "CalculateTimeout"
  /\ pc' = IF DueBy(now) # {} THEN "nowMSec" ELSE "CalculateTimeout"
  /\ UNCHANGED <<mapSessions, timerVars, notifications, delivered,
                 currentTime, batch, now, lastHeard>>

ReadClock_Cached ==   \* faulty: works on the clock of an earlier call
  /\ pc = "nowMSec"
  /\ pc' = "SignalTimers"
  /\ UNCHANGED <<mapSessions, timerVars, notifications, delivered,
                 currentTime, batch, now, lastHeard>>

(* SignalTimers reads the clock before it asks for the lock. *)
ReadClock ==
  /\ pc = "nowMSec"
  /\ currentTime' = now
  /\ pc' = "SignalTimers"
  /\ UNCHANGED <<mapSessions, timerVars, notifications, delivered, batch, now,
                 lastHeard>>

(* The batches one call can signal: the earliest due timers, at most BatchSize
   of them.                                                                 *)
Batches ==
  LET due == DueBy(currentTime)
  IN  {B \in SUBSET due :
         /\ Cardinality(B) <= BatchSize
         /\ B # due => Cardinality(B) = BatchSize
         /\ \A b \in B, t \in due \ B : timersMap[b].due <= timersMap[t].due}

(* OnTimer's notification for session s. *)
NotificationOf(s) ==
  LET info == mapSessions[s]
  IN  [sid    |-> s,
       client |-> info.client,
       state  |-> IF ~info.isActive THEN "TERMINATED"
                  ELSE IF info.response THEN "ANSWER_TURN" ELSE "REQUEST_TURN"]

SignalTimers ==
  /\ pc = "SignalTimers"
  /\ \E B \in Batches :
       LET expired == {timersMap[t].smData : t \in B}
       IN  /\ Uninit \notin expired    \* OnTimer would dereference it
           /\ mapSessions' = Without(mapSessions, expired)
           /\ notifications' = notifications \cup
                                 {NotificationOf(s) : s \in expired}
           /\ timersMap' = Without(timersMap, B)
           /\ count' = count - Cardinality(B)
           /\ triggered' = triggered + Cardinality(B)
           /\ batch' = Cardinality(B)
  /\ pc' = "Flush"
  /\ UNCHANGED <<created, cancelled, delivered, currentTime, now, lastHeard>>

(* One callback of Flush, made without the lock. *)
FlushOne ==
  /\ pc = "Flush"
  /\ \E n \in notifications : notifications' = notifications \ {n}
  /\ delivered' = delivered + 1
  /\ UNCHANGED <<mapSessions, timerVars, threadVars, now, lastHeard>>

FlushDone_Early ==   \* faulty: may return with callbacks outstanding
  /\ pc = "Flush"
  /\ pc' = IF batch < BatchSize THEN "CalculateTimeout" ELSE "nowMSec"
  /\ UNCHANGED <<mapSessions, timerVars, notifications, delivered,
                 currentTime, batch, now, lastHeard>>

FlushDone ==
  /\ pc = "Flush"
  /\ notifications = {}
  /\ pc' = IF batch < BatchSize THEN "CalculateTimeout" ELSE "nowMSec"
  /\ UNCHANGED <<mapSessions, timerVars, notifications, delivered,
                 currentTime, batch, now, lastHeard>>

Tick ==
  /\ now < MaxTime
  /\ now' = now + 1
  /\ UNCHANGED <<mapSessions, timerVars, notifications, delivered, threadVars,
                 lastHeard>>

TimerThread ==
  CalculateTimeout \/ ReadClock \/ SignalTimers \/ FlushOne \/ FlushDone

Next ==
  \/ \E s \in Sids, c \in Clients, type \in RequestTypes :
       OnRequestMessage(s, c, type)
  \/ \E s \in Sids, type \in RequestTypes, good \in BOOLEAN :
       OnAnswerMessage(s, type, good)
  \/ \E c \in Clients : EraseSessions(c)
  \/ \E s \in Sids : EraseSession(s)
  \/ TimerThread
  \/ Tick

Spec == Init /\ [][Next]_vars

(* The thread sleeps at most half a second and only ever waits for a mutex
   that every holder releases within a call.                                *)
FairSpec == Spec /\ WF_vars(TimerThread)

-----------------------------------------------------------------------------
(* Sessions and timers point at each other: a session's timer is live and
   carries that session, and every live timer is the timer of the live session
   it carries.  OnTimer (SessionManager.cpp:126-133) dereferences and erases
   through that pointer without looking the session up.                     *)
TimersLinked ==
  /\ \A s \in DOMAIN mapSessions :
       mapSessions[s].timer # NullTimer =>
         /\ mapSessions[s].timer \in DOMAIN timersMap
         /\ timersMap[mapSessions[s].timer].smData = s
  /\ \A t \in DOMAIN timersMap :
       /\ timersMap[t].smData \in DOMAIN mapSessions
       /\ mapSessions[timersMap[t].smData].timer = t

(* No timer is lost and none fires twice: m_Count is the number of timers in
   the multiset, a timer created is there, cancelled or triggered, and each
   triggered one makes exactly one callback.                                *)
TimersConserved ==
  /\ count = Cardinality(DOMAIN timersMap)
  /\ created = count + cancelled + triggered
  /\ triggered = delivered + Cardinality(notifications)

(* The time a session may stay silent in its present turn. *)
TimeoutOf(info) == IF info.response THEN ResponseTimeout ELSE SessionTimeout

(* What the timer thread relies on between its steps: the last Flush left no
   notification behind, and the snapshot of the clock is not ahead of it.   *)
ThreadState ==
  /\ pc # "Flush" => notifications = {}
  /\ currentTime <= now

(* A session of a connected client expires exactly one timeout after the last
   message accepted for it, the timeout being that of whose turn it is; with
   that timeout disabled it has no timer.                                   *)
DeadlineFollowsTraffic ==
  \A s \in DOMAIN mapSessions :
    LET info == mapSessions[s]
    IN  info.isActive =>
          IF TimeoutOf(info) = 0
          THEN info.timer = NullTimer
          ELSE /\ info.timer \in DOMAIN timersMap
               /\ timersMap[info.timer].due = lastHeard[s] + TimeoutOf(info)

(* The timer thread never removes a session of a connected client before it
   has been silent for its timeout.                                         *)
NoEarlyExpiry ==
  [][SignalTimers =>
       \A s \in DOMAIN mapSessions \ DOMAIN mapSessions' :
         mapSessions[s].isActive =>
           lastHeard[s] + TimeoutOf(mapSessions[s]) <= now]_vars

(* A session whose deadline has passed is expired, unless a message comes
   first: nothing starves, whatever the batch size.                         *)
Overdue(s) ==
  /\ s \in DOMAIN mapSessions
  /\ mapSessions[s].timer \in DueBy(now)

OverdueExpires == \A s \in Sids : Overdue(s) ~> ~Overdue(s)

(* Every notification reaches the adapter. *)
NotificationsDelivered == (notifications # {}) ~> (notifications = {})
=============================================================================
