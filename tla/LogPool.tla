------------------------------- MODULE LogPool -------------------------------
(***************************************************************************)
(* The logger: a pool of LogMessages that every thread of the mediator     *)
(* draws from, a queue of filled ones and the service thread that writes   *)
(* them and gives them back.  Two semaphores count what is in the pool and *)
(* in the queue; each container has a mutex of its own.                    *)
(*                                                                         *)
(* A record stands for the text of one LOG_ macro and its level.  An       *)
(* output is the file of a level or, under the index MAX_LOGLVL, the       *)
(* common file; each has a row of files, of which the last one is open.    *)
(* The time stamp in a file's name is left out: all files are opened in    *)
(* one second, and only their numbers tell them apart.  So is syslog, and  *)
(* what follows when close() returns and release() frees the logger.       *)
(***************************************************************************)
EXTENDS Integers, Sequences, FiniteSets

CONSTANTS
  Threads,          (* threads that log                                     *)
  Messages,         (* the LogMessages of the pool                          *)
  Null,             (* no message                                           *)
  MAX_LOGLVL,       (* the number of levels                                 *)
  commonLogLevel, separateLogLevel,         (* the lowest level of each ... *)
  isLogInCommonFile, logInSeparateFiles,    (* ... and whether it is used   *)
  recordCount,      (* records of a file before the next one is opened      *)
  MaxFile,          (* the largest number of a file: 999                    *)
  MaxRecords        (* bound: LOG_ macros a thread executes                 *)

ASSUME LogPoolAssumption ==
  /\ IsFiniteSet(Threads)
  /\ IsFiniteSet(Messages)
  /\ Messages # {}
  /\ Null \notin Messages
  /\ {commonLogLevel, separateLogLevel, MaxFile, MaxRecords} \subseteq Nat
  /\ {isLogInCommonFile, logInSeparateFiles} \subseteq BOOLEAN
  /\ {MAX_LOGLVL, recordCount} \subseteq Nat \ {0}

VARIABLES
  pool,             (* ObjectPool: its queue                                *)
  sema,             (*   and the count of its semaphore                     *)
  queue,            (* queue_                                               *)
  newMsg,           (* newMsgSemaphore                                      *)
  active,           (* isActiveFlag                                         *)
  text,             (* message -> the records it holds                      *)
  level,            (* message -> its level                                 *)
  pc, msg, logged,  (* thread -> where it is, its message, its LOG_ macros  *)
  svc, svcMsg,      (* the same of the service thread                       *)
  outputs           (* output -> its files and counters                     *)

poolVars == <<pool, sema>>
queueVars == <<queue, newMsg>>
threadVars == <<pc, msg, logged>>
svcVars == <<svc, svcMsg>>
vars == <<poolVars, queueVars, active, text, level, threadVars, svcVars, outputs>>

Levels == 0 .. MAX_LOGLVL - 1
Record == Threads \X (1 .. MaxRecords) \X Levels
File == [number : 0 .. MaxFile, records : Seq(Record)]
Output == [open : BOOLEAN, fileCounter : 0 .. MaxFile + 1,
           recordCounter : 0 .. recordCount, files : Seq(File)]

TypeOK ==
  /\ pool \in Seq(Messages)
  /\ sema \in Nat
  /\ queue \in Seq(Messages)
  /\ newMsg \in Nat
  /\ active \in BOOLEAN
  /\ text \in [Messages -> Seq(Record)]
  /\ level \in [Messages -> Levels]
  /\ pc \in [Threads -> {"idle", "wait", "pop", "fill", "put", "signal"}]
  /\ msg \in [Threads -> Messages \cup {Null}]
  /\ logged \in [Threads -> 0 .. MaxRecords]
  /\ svc \in {"check", "wait", "dequeue", "write", "clear", "push", "signal",
              "done", "crashed"}
  /\ svcMsg \in Messages \cup {Null}
  /\ outputs \in [0 .. MAX_LOGLVL -> Output]

-----------------------------------------------------------------------------
(* The files of one output *)

(* fopen succeeds, or leaves NULL in files[lvl]. *)
openFS(f, good) ==
  IF good
  THEN [f EXCEPT !.open = TRUE, !.fileCounter = @ + 1,
                 !.files = Append(@, [number |-> f.fileCounter, records |-> <<>>])]
  ELSE [f EXCEPT !.open = FALSE]

Rotates(f) == f.recordCounter + 1 > recordCount

NextNumber_Wraps(f) == IF f.fileCounter + 1 < MaxFile THEN 0 ELSE f.fileCounter + 1   \* faulty

NextNumber(f) == IF f.fileCounter + 1 > MaxFile THEN 0 ELSE f.fileCounter + 1

checkCounters(f, good) ==
  IF Rotates(f)
  THEN openFS([f EXCEPT !.recordCounter = 0, !.fileCounter = NextNumber(f)], good)
  ELSE [f EXCEPT !.recordCounter = @ + 1]

(* The record that finds its file full is lost when the next cannot be opened. *)
Logged(f, records, good) ==
  IF Rotates(f) /\ ~good THEN checkCounters(f, good)
  ELSE LET g == checkCounters(f, good)
       IN  [g EXCEPT !.files[Len(g.files)].records = @ \o records]

Belongs(o, lvl) ==
  IF o = MAX_LOGLVL THEN isLogInCommonFile /\ lvl >= commonLogLevel
  ELSE logInSeparateFiles /\ o = lvl /\ lvl >= separateLogLevel

Closed == [open |-> FALSE, fileCounter |-> 0, recordCounter |-> 0, files |-> <<>>]

Opened_Below(o) ==   \* faulty: the files of the levels that are not logged
  IF o = MAX_LOGLVL THEN isLogInCommonFile ELSE logInSeparateFiles /\ o < separateLogLevel

Opened(o) ==
  IF o = MAX_LOGLVL THEN isLogInCommonFile ELSE logInSeparateFiles /\ o >= separateLogLevel

-----------------------------------------------------------------------------
(* init(): the pool is full and the files are open before the service thread starts. *)
Init ==
  /\ pool \in {q \in [1 .. Cardinality(Messages) -> Messages] :
                 \A i, j \in DOMAIN q : q[i] = q[j] => i = j}
  /\ sema = Cardinality(Messages)
  /\ queue = <<>>
  /\ newMsg = 0
  /\ active = TRUE
  /\ text = [m \in Messages |-> <<>>]
  /\ level = [m \in Messages |-> 0]
  /\ pc = [t \in Threads |-> "idle"]
  /\ msg = [t \in Threads |-> Null]
  /\ logged = [t \in Threads |-> 0]
  /\ svc = "check"
  /\ svcMsg = Null
  /\ outputs = [o \in 0 .. MAX_LOGLVL |-> IF Opened(o) THEN openFS(Closed, TRUE) ELSE Closed]

-----------------------------------------------------------------------------
(* A thread that logs: getLogMsg, the text, putLogMsg *)

(* ObjectPool::push signals with the pool's mutex held. *)
PoolLocked == svc = "signal"

Goes(t, from, to) == pc[t] = from /\ pc' = [pc EXCEPT ![t] = to]

(* Some thread changes the pool while size() reads it without the mutex. *)
PoolChanging(t) ==
  \/ svc \in {"push", "signal"}
  \/ \E u \in Threads \ {t} : pc[u] = "pop"

(* size() > 0, or not: then the record is dropped.  The read races. *)
GetLogMsg(t) ==
  /\ logged[t] < MaxRecords
  /\ logged' = [logged EXCEPT ![t] = @ + 1]
  /\ \/ (pool # <<>> \/ PoolChanging(t)) /\ Goes(t, "idle", "wait")
     \/ (pool = <<>> \/ PoolChanging(t)) /\ Goes(t, "idle", "idle")
  /\ UNCHANGED <<poolVars, queueVars, active, text, level, msg, svcVars, outputs>>

PoolWait_Unchecked(t) ==   \* faulty: does not wait for a count
  /\ Goes(t, "wait", "pop")
  /\ sema' = sema - 1
  /\ UNCHANGED <<pool, queueVars, active, text, level, msg, logged,
                 svcVars, outputs>>

PoolWait(t) ==
  /\ Goes(t, "wait", "pop")
  /\ sema > 0
  /\ sema' = sema - 1
  /\ UNCHANGED <<pool, queueVars, active, text, level, msg, logged,
                 svcVars, outputs>>

PoolPop_Keeps(t) ==   \* faulty: front() without pop()
  /\ Goes(t, "pop", "fill")
  /\ ~PoolLocked
  /\ pool # <<>>
  /\ msg' = [msg EXCEPT ![t] = Head(pool)]
  /\ UNCHANGED <<poolVars, queueVars, active, text, level, logged, svcVars, outputs>>

(* front() of an empty queue would be undefined; see PromisesKept. *)
PoolPop(t) ==
  /\ Goes(t, "pop", "fill")
  /\ ~PoolLocked
  /\ pool # <<>>
  /\ pool' = Tail(pool)
  /\ msg' = [msg EXCEPT ![t] = Head(pool)]
  /\ UNCHANGED <<sema, queueVars, active, text, level, logged, svcVars,
                 outputs>>

(* The level is set in getLogMsg, the text added by the macro. *)
Fill(t) ==
  /\ Goes(t, "fill", "put")
  /\ \E lvl \in Levels :
       /\ level' = [level EXCEPT ![msg[t]] = lvl]
       /\ text' = [text EXCEPT ![msg[t]] = Append(@, <<t, logged[t], lvl>>)]
  /\ UNCHANGED <<poolVars, queueVars, active, msg, logged, svcVars, outputs>>

Enqueue(t) ==
  /\ Goes(t, "put", "signal")
  /\ queue' = Append(queue, msg[t])
  /\ msg' = [msg EXCEPT ![t] = Null]
  /\ UNCHANGED <<poolVars, newMsg, active, text, level, logged, svcVars, outputs>>

SignalNew_First(t) ==   \* faulty: a signal only for the first of a burst
  /\ Goes(t, "signal", "idle")
  /\ newMsg' = IF newMsg = 0 THEN 1 ELSE newMsg
  /\ UNCHANGED <<poolVars, queue, active, text, level, msg, logged, svcVars, outputs>>

SignalNew(t) ==
  /\ Goes(t, "signal", "idle")
  /\ newMsg' = newMsg + 1
  /\ UNCHANGED <<poolVars, queue, active, text, level, msg, logged, svcVars, outputs>>

Log(t) ==
  \/ GetLogMsg(t) \/ PoolWait(t) \/ PoolPop(t) \/ Fill(t) \/ Enqueue(t)
  \/ SignalNew(t)

-----------------------------------------------------------------------------
(* The service thread *)

SvcGoes(from, to) == svc = from /\ svc' = to

SvcCheck ==
  /\ SvcGoes("check", IF active THEN "wait" ELSE "done")
  /\ UNCHANGED <<poolVars, queueVars, active, text, level, threadVars, svcMsg,
                 outputs>>

SvcWait ==
  /\ SvcGoes("wait", "dequeue")
  /\ newMsg > 0
  /\ newMsg' = newMsg - 1
  /\ UNCHANGED <<poolVars, queue, active, text, level, threadVars, svcMsg, outputs>>

SvcDequeue ==
  /\ IF active /\ queue # <<>>
     THEN /\ SvcGoes("dequeue", "write")
          /\ svcMsg' = Head(queue)
          /\ queue' = Tail(queue)
     ELSE SvcGoes("dequeue", "check") /\ UNCHANGED <<svcMsg, queue>>
  /\ UNCHANGED <<poolVars, newMsg, active, text, level, threadVars, outputs>>

(* The outputs of the message's level; the next file of some may fail to
   open.  Writing to NULL ends the program.                                 *)
Due == {o \in DOMAIN outputs : Belongs(o, level[svcMsg])}
WritesToNull == \E o \in Due : ~outputs[o].open /\ ~Rotates(outputs[o])

SvcWrite ==
  /\ SvcGoes("write", "clear")
  /\ ~WritesToNull
  /\ \E failing \in SUBSET {o \in Due : Rotates(outputs[o])} :
       outputs' = [o \in DOMAIN outputs |->
                     IF o \in Due THEN Logged(outputs[o], text[svcMsg], o \notin failing)
                     ELSE outputs[o]]
  /\ UNCHANGED <<poolVars, queueVars, active, text, level, threadVars, svcMsg>>

SvcCrash ==
  /\ SvcGoes("write", "crashed")
  /\ WritesToNull
  /\ UNCHANGED <<poolVars, queueVars, active, text, level, threadVars, svcMsg, outputs>>

SvcClear_Skipped ==   \* faulty: the text stays
  /\ SvcGoes("clear", "push")
  /\ UNCHANGED <<poolVars, queueVars, active, text, level, threadVars, svcMsg,
                 outputs>>

SvcClear ==
  /\ SvcGoes("clear", "push")
  /\ text' = [text EXCEPT ![svcMsg] = <<>>]
  /\ UNCHANGED <<poolVars, queueVars, active, level, threadVars, svcMsg, outputs>>

SvcPush ==
  /\ SvcGoes("push", "signal")
  /\ pool' = Append(pool, svcMsg)
  /\ svcMsg' = Null
  /\ UNCHANGED <<sema, queueVars, active, text, level, threadVars, outputs>>

SvcSignal_First ==   \* faulty: signals only that the pool is no longer empty
  /\ SvcGoes("signal", "check")
  /\ sema' = IF Len(pool) = 1 THEN sema + 1 ELSE sema
  /\ UNCHANGED <<pool, queueVars, active, text, level, threadVars, svcMsg, outputs>>

SvcSignal ==
  /\ SvcGoes("signal", "check")
  /\ sema' = sema + 1
  /\ UNCHANGED <<pool, queueVars, active, text, level, threadVars, svcMsg, outputs>>

Svc ==
  \/ SvcCheck \/ SvcWait \/ SvcDequeue \/ SvcWrite \/ SvcCrash \/ SvcClear
  \/ SvcPush \/ SvcSignal

-----------------------------------------------------------------------------
(* close(), by the main thread at the end *)
Close ==
  /\ active
  /\ active' = FALSE
  /\ UNCHANGED <<poolVars, queueVars, text, level, threadVars, svcVars, outputs>>

Next == svc # "crashed" /\ ((\E t \in Threads : Log(t)) \/ Svc \/ Close)

Spec == Init /\ [][Next]_vars

(* The scheduler lets every thread go on.  The semaphore and the mutex of the
   pool are free again and again, and do not pass over one thread for ever.  *)
FairSpec ==
  /\ Spec
  /\ WF_vars(Svc)
  /\ \A t \in Threads :
       /\ WF_vars(Fill(t) \/ Enqueue(t) \/ SignalNew(t))
       /\ SF_vars(PoolWait(t))
       /\ SF_vars(PoolPop(t))

-----------------------------------------------------------------------------
Occurrences(m, q) == Cardinality({i \in DOMAIN q : q[i] = m})

(* No LogMessage is in two hands or lost: each is once in the pool or in the
   queue, or with one thread (get, putLogMsg and the end of svc).           *)
OneOwner ==
  \A m \in Messages :
    Occurrences(m, pool) + Occurrences(m, queue)
      + Cardinality({t \in Threads : msg[t] = m})
      + (IF svcMsg = m THEN 1 ELSE 0) = 1

(* The semaphores keep their promise: a thread past the pool's finds a message
   there once it has the mutex, and so does the service thread in the queue
   until the logger is closed (front() of an empty queue is undefined).     *)
PromisesKept ==
  /\ ~PoolLocked => Len(pool) >= Cardinality({t \in Threads : pc[t] = "pop"})
  /\ svc = "dequeue" => queue # <<>>

(* Every output has the records of each thread in the order in which it logged
   them, none twice and none mixed into another's message, and only those of
   its own levels; dropped and lost ones are missing (getLogMsg, svc).      *)
LogInOrder ==
  \A o \in DOMAIN outputs :
    LET files == outputs[o].files
    IN  \A i, j \in DOMAIN files :
          \A k \in DOMAIN files[i].records, l \in DOMAIN files[j].records :
            LET r == files[i].records[k]
                s == files[j].records[l]
            IN  /\ Belongs(o, r[3])
                /\ r[1] = s[1] /\ (i < j \/ (i = j /\ k < l)) => r[2] < s[2]

(* fopen empties a file that has the name already: a number comes back only
   after half as many files as there are numbers, so that none is reopened in
   the second it was made in, and a file holds no more than recordCount records
   and the one it was opened for (openFS and checkCounters both count files). *)
FilesKept ==
  \A o \in DOMAIN outputs :
    LET files == outputs[o].files
    IN  /\ \A i \in DOMAIN files : Len(files[i].records) <= recordCount + 1
        /\ \A i, j \in DOMAIN files :
             i < j /\ files[i].number = files[j].number => j - i >= (MaxFile + 1) \div 2

(* The service thread writes to NULL only after a file could not be opened
   later on: init() has opened every file svc() writes to (logger.cpp:151,
   logger.cpp:236).                                                         *)
NullAfterFailure == svc = "crashed" => \A o \in Due : outputs[o].files # <<>>

(* While the logger is open a record that has been put in the queue reaches the
   service thread, and with it the log (logger.cpp:222).                    *)
QueuedIsLogged ==
  \A m \in Messages :
    (\E i \in DOMAIN queue : queue[i] = m) ~> (svcMsg = m \/ ~active \/ svc = "crashed")

(* While the logger is open a thread that waits for a message in get() gets one
   in the end (utills.h:211): the service thread gives every message back.  *)
WaitingIsServed ==
  \A t \in Threads : pc[t] = "wait" ~> (pc[t] = "fill" \/ ~active \/ svc = "crashed")

(* The comment in getLogMsg says that a record that finds the pool empty is not
   written (logger.cpp:199); then nobody waits for the service thread in get(). *)
NobodyWaits ==
  \A t \in Threads : pc[t] = "wait" => sema > 0
===============================================================================
