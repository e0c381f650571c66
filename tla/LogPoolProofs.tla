---------------------------- MODULE LogPoolProofs ----------------------------
(***************************************************************************)
(* What the logger guarantees for any number of threads, messages, levels  *)
(* and records and any size of its files, until it is closed and after.    *)
(***************************************************************************)
EXTENDS LogPool, SequencesExt, FiniteSetTheorems, TLAPS

Distinct(q) == \A i, j \in 1 .. Len(q) : q[i] = q[j] => i = j

(* Where a LogMessage is: in one place at most, and each is somewhere.  A thread
   has one while it fills it, the service thread while it writes it.        *)
Owners ==
  /\ Distinct(pool)
  /\ Distinct(queue)
  /\ ToSet(pool) \cap ToSet(queue) = {}
  /\ \A t \in Threads : msg[t] # Null =>
       /\ msg[t] \notin ToSet(pool) \cup ToSet(queue) \cup {svcMsg}
       /\ \A u \in Threads : msg[u] = msg[t] => u = t
  /\ svcMsg \notin ToSet(pool) \cup ToSet(queue)
  /\ \A m \in Messages :
       \/ m \in ToSet(pool) \cup ToSet(queue) \cup {svcMsg}
       \/ \E t \in Threads : msg[t] = m

Holding ==
  /\ \A t \in Threads : msg[t] # Null <=> pc[t] \in {"fill", "put"}
  /\ svcMsg # Null <=> svc \in {"write", "clear", "push", "crashed"}

(* The threads at one point of the code. *)
At(label) == {t \in Threads : pc[t] = label}

(* What the semaphores count. *)
Counted ==
  /\ Len(pool) = sema + Cardinality(At("pop")) + (IF svc = "signal" THEN 1 ELSE 0)
  /\ Len(queue) >= newMsg + Cardinality(At("signal"))
                     + (IF svc = "dequeue" THEN 1 ELSE 0)

(* The record a LogMessage carries to the service thread. *)
Carries(m) == Len(text[m]) = 1 /\ text[m][1][3] = level[m]
RecordOf(m) == text[m][1]

Newer(r, s) == r[1] = s[1] => r[2] < s[2]

(* A record of an earlier LOG_ macro of its thread, or of the one just over. *)
Past(r) ==
  /\ r[2] <= logged[r[1]]
  /\ pc[r[1]] \notin {"idle", "signal"} => r[2] < logged[r[1]]

Texts ==
  /\ \A m \in ToSet(pool) : text[m] = <<>>
  /\ \A t \in Threads : pc[t] = "fill" => text[msg[t]] = <<>>
  /\ svc = "push" => text[svcMsg] = <<>>
  /\ \A t \in Threads : pc[t] = "put" =>
       Carries(msg[t]) /\ RecordOf(msg[t])[1] = t /\ RecordOf(msg[t])[2] = logged[t]
  /\ \A m \in ToSet(queue) : Carries(m) /\ Past(RecordOf(m))
  /\ svc = "write" => Carries(svcMsg) /\ Past(RecordOf(svcMsg))
  /\ \A t \in Threads : pc[t] # "idle" => logged[t] > 0

Queued ==
  /\ \A i, j \in 1 .. Len(queue) : i < j => Newer(RecordOf(queue[i]), RecordOf(queue[j]))
  /\ svc = "write" => \A m \in ToSet(queue) : Newer(RecordOf(svcMsg), RecordOf(m))

Written ==
  \A o \in 0 .. MAX_LOGLVL : \A i \in DOMAIN outputs[o].files :
    \A k \in DOMAIN outputs[o].files[i].records :
      LET r == outputs[o].files[i].records[k]
      IN  /\ Past(r)
          /\ \A m \in ToSet(queue) : Newer(r, RecordOf(m))
          /\ svc = "write" => Newer(r, RecordOf(svcMsg))

(* The files of one output *)
LastFile(f) == f.files[Len(f.files)]

Current(f) ==
  IF f.open
  THEN /\ f.files # <<>>
       /\ f.fileCounter = LastFile(f).number + 1
       /\ Len(LastFile(f).records) <= f.recordCounter + 1
  ELSE f.recordCounter = 0

Spread(f) ==
  f.open => \A i \in DOMAIN f.files :
    LET back == 2 * (Len(f.files) - i)
        n == f.files[i].number
    IN  back >= LastFile(f).number - n + (IF n > LastFile(f).number THEN MaxFile + 1 ELSE 0)

Recycled(f) ==
  \A i, j \in DOMAIN f.files :
    i < j /\ f.files[i].number = f.files[j].number => 2 * (j - i) >= MaxFile + 1

Short(f) == \A i \in DOMAIN f.files : Len(f.files[i].records) <= recordCount + 1

Kept(f) == Current(f) /\ Spread(f) /\ Recycled(f) /\ Short(f)

Files ==
  \A o \in 0 .. MAX_LOGLVL :
    Kept(outputs[o]) /\ (Opened(o) => outputs[o].files # <<>>)

PCs == {"idle", "wait", "pop", "fill", "put", "signal"}

IInv ==
  /\ TypeOK
  /\ Owners /\ Holding
  /\ Counted
  /\ Texts /\ Queued /\ Written /\ LogInOrder
  /\ Files

-----------------------------------------------------------------------------
(* Sequences and sets *)

(* Appending adds one element, at the end. *)
LEMMA AppendFacts ==
  ASSUME NEW S, NEW q \in Seq(S), NEW m \in S
  PROVE  /\ Append(q, m) \in Seq(S)
         /\ Len(Append(q, m)) = Len(q) + 1
         /\ \A i \in 1 .. Len(q) : Append(q, m)[i] = q[i]
         /\ Append(q, m)[Len(q) + 1] = m
         /\ ToSet(Append(q, m)) = ToSet(q) \cup {m}
         /\ Distinct(q) /\ m \notin ToSet(q) => Distinct(Append(q, m))
<1>1. /\ Append(q, m) \in Seq(S)
      /\ Len(Append(q, m)) = Len(q) + 1
      /\ \A i \in 1 .. Len(q) : Append(q, m)[i] = q[i]
      /\ Append(q, m)[Len(q) + 1] = m
  OBVIOUS
<1>2. /\ DOMAIN Append(q, m) = 1 .. Len(q) + 1
      /\ DOMAIN q = 1 .. Len(q)
      /\ Len(q) \in Nat
  OBVIOUS
<1> DEFINE a == Append(q, m)
<1> HIDE DEF a
<1>3. ToSet(a) = ToSet(q) \cup {m}
  BY <1>1, <1>2 DEF ToSet, a
<1>4. Distinct(q) /\ m \notin ToSet(q) => Distinct(a)
  BY <1>1, <1>2 DEF ToSet, Distinct, a
<1> QED  BY <1>1, <1>3, <1>4 DEF a

(* Taking the head leaves the rest, one place further on. *)
LEMMA TailFacts ==
  ASSUME NEW S, NEW q \in Seq(S), q # <<>>
  PROVE  /\ Tail(q) \in Seq(S)
         /\ Len(Tail(q)) = Len(q) - 1
         /\ Head(q) = q[1]
         /\ Head(q) \in S
         /\ \A i \in 1 .. Len(q) - 1 : Tail(q)[i] = q[i + 1]
         /\ ToSet(q) = ToSet(Tail(q)) \cup {Head(q)}
         /\ Distinct(q) => Distinct(Tail(q)) /\ Head(q) \notin ToSet(Tail(q))
<1>1. /\ Tail(q) \in Seq(S)
      /\ Len(Tail(q)) = Len(q) - 1
      /\ Len(q) \in Nat \ {0}
      /\ Head(q) = q[1]
      /\ Head(q) \in S
      /\ \A i \in 1 .. Len(q) - 1 : Tail(q)[i] = q[i + 1]
  OBVIOUS
<1>2. DOMAIN Tail(q) = 1 .. Len(q) - 1 /\ DOMAIN q = 1 .. Len(q)
  BY <1>1
<1> DEFINE r == Tail(q)
           h == Head(q)
<1> HIDE DEF r, h
<1>3. ToSet(q) = ToSet(r) \cup {h}
  <2>1. ASSUME NEW i \in 1 .. Len(q)
        PROVE  q[i] = h \/ q[i] \in ToSet(r)
    <3>1. CASE i = 1
      BY <1>1, <3>1 DEF h
    <3>2. CASE i # 1
      <4>1. i - 1 \in 1 .. Len(q) - 1 /\ r[i - 1] = q[i]
        BY <1>1, <3>2 DEF r
      <4> QED  BY <1>2, <4>1 DEF ToSet, r
    <3> QED  BY <3>1, <3>2
  <2>2. ASSUME NEW i \in 1 .. Len(q) - 1
        PROVE  r[i] \in ToSet(q)
    BY <1>1, <1>2 DEF ToSet, r
  <2>3. h \in ToSet(q)
    BY <1>1, <1>2 DEF ToSet, h
  <2> QED  BY <1>1, <1>2, <2>1, <2>2, <2>3 DEF ToSet, r
<1>4. Distinct(q) => Distinct(r) /\ h \notin ToSet(r)
  BY <1>1, <1>2 DEF ToSet, Distinct, r, h
<1> QED  BY <1>1, <1>3, <1>4 DEF r, h
-----------------------------------------------------------------------------
(* What checkCounters and openFS do to an output *)

(* What a file is made of. *)
LEMMA FileType ==
  ASSUME NEW x \in File
  PROVE  x.number \in 0 .. MaxFile /\ x.records \in Seq(Record)
<1>1. x.number \in 0 .. MaxFile
  BY DEF File
<1>2. x.records \in Seq(Record)
  BY DEF File
<1> QED  BY <1>1, <1>2

(* A file with other records. *)
LEMMA FileMade ==
  ASSUME NEW x \in File, NEW r \in Seq(Record)
  PROVE  /\ [x EXCEPT !.records = r] \in File
         /\ [x EXCEPT !.records = r].number = x.number
         /\ [x EXCEPT !.records = r].records = r
<1>1. [x EXCEPT !.records = r] \in File
  BY DEF File
<1>2. [x EXCEPT !.records = r].number = x.number /\ [x EXCEPT !.records = r].records = r
  BY DEF File
<1> QED  BY <1>1, <1>2

(* What an output is made of. *)
LEMMA FilesType ==
  ASSUME NEW f \in Output
  PROVE  /\ f.open \in BOOLEAN
         /\ f.fileCounter \in 0 .. MaxFile + 1
         /\ f.recordCounter \in 0 .. recordCount
         /\ f.files \in Seq(File)
         /\ DOMAIN f.files = 1 .. Len(f.files)
         /\ Len(f.files) \in Nat
         /\ \A i \in 1 .. Len(f.files) :
              /\ f.files[i] \in File
              /\ f.files[i].number \in 0 .. MaxFile
              /\ f.files[i].records \in Seq(Record)
              /\ Len(f.files[i].records) \in Nat
<1>1. f.open \in BOOLEAN
  BY DEF Output
<1>2. /\ f.fileCounter \in 0 .. MaxFile + 1
      /\ f.recordCounter \in 0 .. recordCount
      /\ f.files \in Seq(File)
  BY DEF Output
<1>3. ASSUME NEW i \in 1 .. Len(f.files)
      PROVE  /\ f.files[i] \in File
             /\ f.files[i].number \in 0 .. MaxFile
             /\ f.files[i].records \in Seq(Record)
  <2>1. f.files[i] \in File
    BY <1>2
  <2> QED  BY <2>1, FileType
<1> QED  BY <1>1, <1>2, <1>3

(* An output whose fields are right. *)
LEMMA OutputMade ==
  ASSUME NEW o \in BOOLEAN, NEW n \in 0 .. MaxFile + 1, NEW k \in 0 .. recordCount,
         NEW q \in Seq(File)
  PROVE  LET g == [open |-> o, fileCounter |-> n, recordCounter |-> k, files |-> q]
         IN  /\ g \in Output
             /\ g.open = o /\ g.fileCounter = n /\ g.recordCounter = k
             /\ g.files = q
BY DEF Output

(* The file with the next number cannot be opened: the record is lost. *)
LEMMA LoggedFails ==
  ASSUME NEW f \in Output, NEW rs, Rotates(f)
  PROVE  LET g == Logged(f, rs, FALSE)
         IN  /\ g \in Output
             /\ ~g.open
             /\ g.recordCounter = 0
             /\ g.files = f.files
<1>1. NextNumber(f) \in 0 .. MaxFile + 1
  BY LogPoolAssumption DEF NextNumber, Output
<1>2. recordCount \in Nat
  BY LogPoolAssumption
<1>3. Logged(f, rs, FALSE)
        = [open |-> FALSE, fileCounter |-> NextNumber(f), recordCounter |-> 0,
           files |-> f.files]
  BY DEF Logged, checkCounters, openFS, Output
<1> DEFINE g == Logged(f, rs, FALSE)
<1> HIDE DEF g
<1>4. FALSE \in BOOLEAN /\ 0 \in 0 .. recordCount /\ f.files \in Seq(File)
  BY <1>2, FilesType
<1>5. g \in Output /\ g.open = FALSE /\ g.recordCounter = 0 /\ g.files = f.files
  <2> DEFINE n == NextNumber(f)
             q == f.files
  <2> HIDE DEF n, q
  <2>1. n \in 0 .. MaxFile + 1 /\ q \in Seq(File)
    BY <1>1, <1>4 DEF n, q
  <2>2. g = [open |-> FALSE, fileCounter |-> n, recordCounter |-> 0, files |-> q]
    BY <1>3 DEF g, n, q
  <2> QED  BY <1>4, <2>1, <2>2, OutputMade DEF q
<1> QED  BY <1>5 DEF g

(* It is opened, and the record is its first. *)
LEMMA LoggedRotates ==
  ASSUME NEW f \in Output, NEW rs \in Seq(Record), Rotates(f)
  PROVE  LET g == Logged(f, rs, TRUE)
             n == Len(f.files)
         IN  /\ g \in Output
             /\ g.open
             /\ g.recordCounter = 0
             /\ g.fileCounter = NextNumber(f) + 1
             /\ Len(g.files) = n + 1
             /\ \A i \in 1 .. n : g.files[i] = f.files[i]
             /\ g.files[n + 1].number = NextNumber(f)
             /\ g.files[n + 1].records = rs
<1> DEFINE n == Len(f.files)
           new == [number |-> NextNumber(f), records |-> <<>>]
           c == checkCounters(f, TRUE)
           g == Logged(f, rs, TRUE)
<1>1. /\ NextNumber(f) \in 0 .. MaxFile
      /\ recordCount \in Nat
      /\ MaxFile \in Nat
  BY LogPoolAssumption DEF NextNumber, Output
<1>2. f.files \in Seq(File) /\ n \in Nat
  BY FilesType
<1>3. new \in File
  BY <1>1 DEF File
<1>4. c = [open |-> TRUE, fileCounter |-> NextNumber(f) + 1, recordCounter |-> 0,
           files |-> Append(f.files, new)]
  BY DEF checkCounters, openFS, Output
<1> HIDE DEF new, c
<1>5. /\ Len(c.files) = n + 1
      /\ \A i \in 1 .. n : c.files[i] = f.files[i]
      /\ c.files[n + 1] = new
      /\ c.files \in Seq(File)
  BY <1>2, <1>3, <1>4
<1>6. g = [c EXCEPT !.files[n + 1].records = @ \o rs]
  BY <1>5 DEF Logged, c
<1>7. new.records \o rs = rs
  BY DEF new
<1> DEFINE last == [new EXCEPT !.records = rs]
           h == [c.files EXCEPT ![n + 1] = last]
<1>8. g = [open |-> TRUE, fileCounter |-> NextNumber(f) + 1, recordCounter |-> 0,
           files |-> h]
  <2>1. g = [c EXCEPT !.files = h]
    BY <1>5, <1>6, <1>7
  <2> HIDE DEF h, g
  <2> QED  BY <1>4, <2>1
<1>9. last \in File /\ last.number = NextNumber(f) /\ last.records = rs
  BY <1>3, FileMade DEF new
<1> HIDE DEF last
<1>10. /\ h \in Seq(File)
       /\ Len(h) = n + 1
       /\ \A i \in 1 .. n : h[i] = f.files[i]
       /\ h[n + 1] = last
  BY <1>2, <1>5, <1>9
<1> HIDE DEF h, g
<1>11. NextNumber(f) + 1 \in 0 .. MaxFile + 1 /\ 0 \in 0 .. recordCount
  BY <1>1
<1>12. g \in Output /\ g.open = TRUE /\ g.fileCounter = NextNumber(f) + 1
       /\ g.recordCounter = 0 /\ g.files = h
  BY <1>8, <1>10, <1>11, OutputMade
<1> QED  BY <1>9, <1>10, <1>12 DEF g

(* The record goes to the end of the file that is open. *)
LEMMA LoggedAppends ==
  ASSUME NEW f \in Output, NEW rs \in Seq(Record), NEW good \in BOOLEAN,
         ~Rotates(f), f.files # <<>>
  PROVE  LET g == Logged(f, rs, good)
             n == Len(f.files)
         IN  /\ g \in Output
             /\ g.open = f.open
             /\ g.recordCounter = f.recordCounter + 1
             /\ g.fileCounter = f.fileCounter
             /\ Len(g.files) = n
             /\ \A i \in 1 .. n - 1 : g.files[i] = f.files[i]
             /\ g.files[n].number = f.files[n].number
             /\ g.files[n].records = f.files[n].records \o rs
<1> DEFINE n == Len(f.files)
           c == checkCounters(f, good)
           g == Logged(f, rs, good)
           last == [f.files[n] EXCEPT !.records = @ \o rs]
<1>1. /\ f.files \in Seq(File) /\ n \in Nat \ {0}
      /\ f.recordCounter + 1 \in 0 .. recordCount
  BY FilesType, LogPoolAssumption DEF Rotates
<1>2. f.files[n] \in File
  BY <1>1
<1>3. /\ last \in File
      /\ last.number = f.files[n].number
      /\ last.records = f.files[n].records \o rs
  <2>1. f.files[n].records \o rs \in Seq(Record)
    <3>1. f.files[n].records \in Seq(Record)
      BY <1>2, FileType
    <3> QED  BY <3>1
  <2> QED  BY <1>2, <2>1, FileMade
<1> DEFINE h == [f.files EXCEPT ![n] = last]
<1>4. c = [open |-> f.open, fileCounter |-> f.fileCounter,
           recordCounter |-> f.recordCounter + 1, files |-> f.files]
  BY DEF checkCounters, Output
<1> HIDE DEF c
<1>5. g = [c EXCEPT !.files[n].records = @ \o rs]
  BY <1>4 DEF Logged, c
<1>6. g = [open |-> f.open, fileCounter |-> f.fileCounter,
           recordCounter |-> f.recordCounter + 1, files |-> h]
  BY <1>4, <1>5
<1> HIDE DEF last, g
<1>7. /\ h \in Seq(File)
      /\ Len(h) = n
      /\ \A i \in 1 .. n - 1 : h[i] = f.files[i]
      /\ h[n] = last
  BY <1>1, <1>3
<1> HIDE DEF h
<1>8. /\ g \in Output
      /\ g.open = f.open /\ g.fileCounter = f.fileCounter
      /\ g.recordCounter = f.recordCounter + 1 /\ g.files = h
  BY <1>1, <1>6, <1>7, FilesType, OutputMade
<1> QED  BY <1>3, <1>7, <1>8 DEF last, g

(* The constants are numbers. *)
LEMMA MaxRecordsType == MaxRecords \in Nat /\ MaxFile \in Nat
BY LogPoolAssumption

-----------------------------------------------------------------------------
(* A thread goes from one point of the code to another *)

(* Only that thread moves. *)
LEMMA GoesFacts ==
  ASSUME TypeOK, NEW t \in Threads, NEW from, NEW to \in PCs, Goes(t, from, to)
  PROVE  /\ pc[t] = from
         /\ pc' \in [Threads -> PCs]
         /\ pc'[t] = to
         /\ \A u \in Threads : u # t => pc'[u] = pc[u]
BY DEF Goes, TypeOK, PCs

(* One point loses a thread and the other gets it. *)
LEMMA GoesCounts ==
  ASSUME TypeOK, NEW t \in Threads, NEW from, NEW to \in PCs, Goes(t, from, to),
         from # to
  PROVE  /\ Cardinality(At(from)) \in Nat
         /\ Cardinality(At(to)) \in Nat
         /\ Cardinality(At(from)') = Cardinality(At(from)) - 1
         /\ Cardinality(At(to)') = Cardinality(At(to)) + 1
         /\ \A l : l # from /\ l # to => At(l)' = At(l)
<1>1. \A l : IsFiniteSet(At(l)) /\ Cardinality(At(l)) \in Nat
  <2>1. ASSUME NEW l PROVE IsFiniteSet(At(l)) /\ Cardinality(At(l)) \in Nat
    BY LogPoolAssumption, FS_Subset, FS_CardinalityType DEF At
  <2> QED  BY <2>1
<1>2. At(from)' = At(from) \ {t} /\ t \in At(from)
  BY GoesFacts DEF At
<1>3. At(to)' = At(to) \cup {t} /\ t \notin At(to)
  BY GoesFacts DEF At
<1>4. \A l : l # from /\ l # to => At(l)' = At(l)
  BY GoesFacts DEF At
<1>5. IsFiniteSet(At(from)) /\ IsFiniteSet(At(to))
  BY <1>1
<1>6. Cardinality(At(from) \ {t}) = Cardinality(At(from)) - 1
  BY <1>2, <1>5, FS_RemoveElement
<1>7. Cardinality(At(to) \cup {t}) = Cardinality(At(to)) + 1
  BY <1>3, <1>5, FS_AddElement
<1> QED  BY <1>1, <1>2, <1>3, <1>4, <1>6, <1>7

-----------------------------------------------------------------------------
(* Types *)

(* The outputs after a record has been written. *)
LEMMA OutputsType ==
  ASSUME IInv, SvcWrite
  PROVE  outputs' \in [0 .. MAX_LOGLVL -> Output]
<1>1. /\ outputs \in [0 .. MAX_LOGLVL -> Output]
      /\ svc = "write"
      /\ svcMsg \in Messages
      /\ text[svcMsg] \in Seq(Record)
  BY LogPoolAssumption DEF IInv, TypeOK, Holding, SvcWrite, SvcGoes
<1>2. PICK failing \in SUBSET {o \in Due : Rotates(outputs[o])} :
        outputs' = [o \in DOMAIN outputs |->
                      IF o \in Due THEN Logged(outputs[o], text[svcMsg], o \notin failing)
                      ELSE outputs[o]]
  BY DEF SvcWrite
<1>3. ASSUME NEW o \in 0 .. MAX_LOGLVL, o \in Due, NEW good \in BOOLEAN
      PROVE  Logged(outputs[o], text[svcMsg], good) \in Output
  <2>1. outputs[o] \in Output
    BY <1>1
  <2>2. CASE Rotates(outputs[o]) /\ good = FALSE
    BY <1>1, <2>1, <2>2, LoggedFails
  <2>3. CASE Rotates(outputs[o]) /\ good = TRUE
    BY <1>1, <2>1, <2>3, LoggedRotates
  <2>4. CASE ~Rotates(outputs[o])
    <3>1. outputs[o].files # <<>>
      BY <1>1, <1>3, <2>4 DEF IInv, Files, Kept, Current, SvcWrite, WritesToNull
    <3> QED  BY <1>1, <2>1, <2>4, <3>1, LoggedAppends
  <2> QED  BY <2>2, <2>3, <2>4
<1> QED
  <2>1. ASSUME NEW o \in 0 .. MAX_LOGLVL
        PROVE  outputs'[o] \in Output
    <3>1. CASE o \in Due
      <4>1. (o \notin failing) \in BOOLEAN
        OBVIOUS
      <4>2. outputs'[o] = Logged(outputs[o], text[svcMsg], o \notin failing)
        BY <1>1, <1>2, <3>1
      <4> QED  BY <1>3, <3>1, <4>1, <4>2
    <3>2. CASE o \notin Due
      BY <1>1, <1>2, <3>2
    <3> QED  BY <3>1, <3>2
  <2> QED  BY <1>1, <1>2, <2>1

(* A step of a thread that logs keeps the types. *)
LEMMA LogType ==
  ASSUME IInv, NEW t \in Threads, Log(t)
  PROVE  TypeOK'
<1> USE DEF poolVars, queueVars, svcVars, PCs
<1>0. TypeOK /\ Holding /\ Texts
  BY DEF IInv
<1>1. active' \in BOOLEAN /\ outputs' \in [0 .. MAX_LOGLVL -> Output]
  BY <1>0 DEF TypeOK, Log, GetLogMsg, PoolWait, PoolPop, Fill, Enqueue, SignalNew
<1>2. CASE GetLogMsg(t)
  <2>1. pc' \in [Threads -> PCs]
    BY <1>0, <1>2, GoesFacts DEF GetLogMsg
  <2>2. logged' \in [Threads -> 0 .. MaxRecords]
    BY <1>0, <1>2, MaxRecordsType DEF GetLogMsg, TypeOK
  <2> QED  BY <1>0, <1>1, <1>2, <2>1, <2>2 DEF GetLogMsg, TypeOK
<1>3. CASE PoolWait(t)
  <2>1. pc' \in [Threads -> PCs]
    BY <1>0, <1>3, GoesFacts DEF PoolWait
  <2> QED  BY <1>0, <1>1, <1>3, <2>1 DEF PoolWait, TypeOK
<1>4. CASE PoolPop(t)
  <2>1. pc' \in [Threads -> PCs]
    BY <1>0, <1>4, GoesFacts DEF PoolPop
  <2>2. pool' \in Seq(Messages) /\ Head(pool) \in Messages
    BY <1>0, <1>4 DEF PoolPop, TypeOK
  <2> QED  BY <1>0, <1>1, <1>4, <2>1, <2>2 DEF PoolPop, TypeOK
<1>5. CASE Fill(t)
  <2>1. pc' \in [Threads -> PCs] /\ pc[t] = "fill"
    BY <1>0, <1>5, GoesFacts DEF Fill
  <2>2. msg[t] \in Messages
    BY <1>0, <2>1 DEF TypeOK, Holding
  <2>6. logged[t] \in 1 .. MaxRecords
    <3>1. logged[t] > 0
      BY <1>0, <2>1 DEF Texts
    <3> QED  BY <1>0, <3>1, MaxRecordsType DEF TypeOK
  <2>3. PICK lvl \in Levels :
          /\ level' = [level EXCEPT ![msg[t]] = lvl]
          /\ text' = [text EXCEPT ![msg[t]] = Append(@, <<t, logged[t], lvl>>)]
    BY <1>5 DEF Fill
  <2>4. <<t, logged[t], lvl>> \in Record
    BY <2>6 DEF Record
  <2>5. level' \in [Messages -> Levels] /\ text' \in [Messages -> Seq(Record)]
    BY <1>0, <2>2, <2>3, <2>4 DEF TypeOK
  <2> QED  BY <1>0, <1>1, <1>5, <2>1, <2>5 DEF Fill, TypeOK
<1>6. CASE Enqueue(t)
  <2>1. pc' \in [Threads -> PCs] /\ pc[t] = "put"
    BY <1>0, <1>6, GoesFacts DEF Enqueue
  <2>2. msg[t] \in Messages
    BY <1>0, <2>1 DEF TypeOK, Holding
  <2>3. queue' \in Seq(Messages)
    BY <1>0, <1>6, <2>2 DEF Enqueue, TypeOK
  <2> QED  BY <1>0, <1>1, <1>6, <2>1, <2>3 DEF Enqueue, TypeOK
<1>7. CASE SignalNew(t)
  <2>1. pc' \in [Threads -> PCs]
    BY <1>0, <1>7, GoesFacts DEF SignalNew
  <2> QED  BY <1>0, <1>1, <1>7, <2>1 DEF SignalNew, TypeOK
<1> QED  BY <1>2, <1>3, <1>4, <1>5, <1>6, <1>7 DEF Log

(* So does a step of the service thread, and close(). *)
LEMMA SvcType ==
  ASSUME IInv, Svc \/ Close
  PROVE  TypeOK'
<1> USE DEF poolVars, queueVars, threadVars, svcVars, SvcGoes
<1>0. TypeOK /\ Holding
  BY DEF IInv
<1>1. active' \in BOOLEAN
  <2>1. CASE Svc
    BY <1>0, <2>1 DEF TypeOK, Svc, SvcCheck, SvcWait, SvcDequeue, SvcWrite, SvcCrash,
       SvcClear, SvcPush, SvcSignal
  <2>2. CASE Close
    BY <2>2 DEF Close
  <2> QED  BY <2>1, <2>2
<1>2. outputs' \in [0 .. MAX_LOGLVL -> Output]
  <2>1. CASE SvcWrite
    BY <2>1, OutputsType
  <2>2. CASE ~SvcWrite
    BY <1>0, <2>2 DEF TypeOK, Svc, SvcCheck, SvcWait, SvcDequeue, SvcCrash, SvcClear,
       SvcPush, SvcSignal, Close
  <2> QED  BY <2>1, <2>2
<1>3. CASE SvcCheck
  BY <1>0, <1>1, <1>2, <1>3 DEF SvcCheck, TypeOK
<1>4. CASE SvcWait
  BY <1>0, <1>1, <1>2, <1>4 DEF SvcWait, TypeOK
<1>5. CASE SvcDequeue
  <2>1. CASE active /\ queue # <<>>
    <3>1. Head(queue) \in Messages /\ Tail(queue) \in Seq(Messages)
      BY <1>0, <2>1 DEF TypeOK
    <3> QED  BY <1>0, <1>1, <1>2, <1>5, <2>1, <3>1 DEF SvcDequeue, TypeOK
  <2>2. CASE ~(active /\ queue # <<>>)
    BY <1>0, <1>1, <1>2, <1>5, <2>2 DEF SvcDequeue, TypeOK
  <2> QED  BY <2>1, <2>2
<1>6. CASE SvcWrite \/ SvcCrash
  BY <1>0, <1>1, <1>2, <1>6 DEF SvcWrite, SvcCrash, TypeOK
<1>7. CASE SvcClear
  <2>1. <<>> \in Seq(Record)
    OBVIOUS
  <2> DEFINE none == <<>>
  <2> HIDE DEF none
  <2>2. none \in Seq(Record) /\ text' = [text EXCEPT ![svcMsg] = none]
    BY <1>7, <2>1 DEF SvcClear, none
  <2>3. text' \in [Messages -> Seq(Record)]
    BY <1>0, <2>2 DEF TypeOK
  <2> QED  BY <1>0, <1>1, <1>2, <1>7, <2>3 DEF SvcClear, TypeOK
<1>8. CASE SvcPush
  <2>1. svcMsg \in Messages
    BY <1>0, <1>8 DEF SvcPush, TypeOK, Holding
  <2> QED  BY <1>0, <1>1, <1>2, <1>8, <2>1 DEF SvcPush, TypeOK
<1>9. CASE SvcSignal
  BY <1>0, <1>1, <1>2, <1>9 DEF SvcSignal, TypeOK
<1>10. CASE Close
  BY <1>0, <1>1, <1>2, <1>10 DEF Close, TypeOK
<1> QED  BY <1>3, <1>4, <1>5, <1>6, <1>7, <1>8, <1>9, <1>10 DEF Svc

-----------------------------------------------------------------------------
(* No message in two hands *)

(* The messages stay where they are. *)
LEMMA OwnersSame ==
  ASSUME Owners, UNCHANGED <<pool, queue, msg, svcMsg>>
  PROVE  Owners'
BY DEF Owners

(* get() moves one from the pool to the thread. *)
LEMMA PopOwners ==
  ASSUME IInv, NEW t \in Threads, PoolPop(t)
  PROVE  Owners'
<1> DEFINE h == Head(pool)
           q == Tail(pool)
<1>0. TypeOK /\ Owners /\ Holding
  BY DEF IInv
<1>1. pool \in Seq(Messages) /\ pool # <<>> /\ pc[t] = "pop"
  BY <1>0, GoesFacts DEF PoolPop, TypeOK, Goes
<1>2. /\ h \in Messages
      /\ ToSet(pool) = ToSet(q) \cup {h}
      /\ Distinct(q)
      /\ h \notin ToSet(q)
  BY <1>0, <1>1, TailFacts DEF Owners
<1>3. msg[t] = Null /\ msg \in [Threads -> Messages \cup {Null}]
  BY <1>0, <1>1 DEF Holding, TypeOK
<1> HIDE DEF h, q
<1>4. /\ pool' = q /\ msg' = [msg EXCEPT ![t] = h]
      /\ queue' = queue /\ svcMsg' = svcMsg
  BY DEF PoolPop, q, h, queueVars, svcVars
<1>5. h # Null
  BY <1>2, LogPoolAssumption
<1>6. /\ h \notin ToSet(queue) /\ h # svcMsg
      /\ \A u \in Threads : msg[u] # h
  BY <1>0, <1>2, <1>5 DEF Owners
<1>7. msg'[t] = h /\ \A u \in Threads : u # t => msg'[u] = msg[u]
  BY <1>3, <1>4
<1>8. Distinct(pool') /\ Distinct(queue') /\ ToSet(pool') \cap ToSet(queue') = {}
  BY <1>0, <1>2, <1>4 DEF Owners
<1>9. ASSUME NEW u \in Threads, msg'[u] # Null
      PROVE  /\ msg'[u] \notin ToSet(pool') \cup ToSet(queue') \cup {svcMsg'}
             /\ \A v \in Threads : msg'[v] = msg'[u] => v = u
  BY <1>0, <1>2, <1>4, <1>6, <1>7, <1>9 DEF Owners
<1>10. svcMsg' \notin ToSet(pool') \cup ToSet(queue')
  BY <1>0, <1>2, <1>4 DEF Owners
<1>11. ASSUME NEW m \in Messages
       PROVE  \/ m \in ToSet(pool') \cup ToSet(queue') \cup {svcMsg'}
              \/ \E u \in Threads : msg'[u] = m
  BY <1>0, <1>2, <1>3, <1>4, <1>7, LogPoolAssumption DEF Owners
<1> QED  BY <1>8, <1>9, <1>10, <1>11 DEF Owners

(* putLogMsg moves it from the thread to the queue. *)
LEMMA EnqueueOwners ==
  ASSUME IInv, NEW t \in Threads, Enqueue(t)
  PROVE  Owners'
<1> DEFINE h == msg[t]
           q == Append(queue, h)
<1>0. TypeOK /\ Owners /\ Holding
  BY DEF IInv
<1>1. queue \in Seq(Messages) /\ pc[t] = "put"
  BY <1>0 DEF Enqueue, TypeOK, Goes
<1>2. h # Null /\ h \in Messages /\ msg \in [Threads -> Messages \cup {Null}]
  BY <1>0, <1>1 DEF Holding, TypeOK
<1>3. /\ h \notin ToSet(queue) \cup ToSet(pool) \cup {svcMsg}
      /\ \A u \in Threads : msg[u] = h => u = t
  BY <1>0, <1>2 DEF Owners
<1>4. ToSet(q) = ToSet(queue) \cup {h} /\ Distinct(q)
  BY <1>0, <1>1, <1>2, <1>3, AppendFacts DEF Owners
<1> HIDE DEF q
<1>5. /\ queue' = q /\ msg' = [msg EXCEPT ![t] = Null]
      /\ pool' = pool /\ svcMsg' = svcMsg
  BY DEF Enqueue, q, poolVars, svcVars
<1>6. msg'[t] = Null /\ \A u \in Threads : u # t => msg'[u] = msg[u]
  BY <1>2, <1>5
<1> HIDE DEF h
<1>7. Distinct(pool') /\ Distinct(queue') /\ ToSet(pool') \cap ToSet(queue') = {}
  BY <1>0, <1>3, <1>4, <1>5 DEF Owners
<1>8. ASSUME NEW u \in Threads, msg'[u] # Null
      PROVE  /\ msg'[u] \notin ToSet(pool') \cup ToSet(queue') \cup {svcMsg'}
             /\ \A v \in Threads : msg'[v] = msg'[u] => v = u
  BY <1>0, <1>3, <1>4, <1>5, <1>6, <1>8 DEF Owners
<1>9. svcMsg' \notin ToSet(pool') \cup ToSet(queue')
  BY <1>0, <1>3, <1>4, <1>5 DEF Owners
<1>10. ASSUME NEW m \in Messages
       PROVE  \/ m \in ToSet(pool') \cup ToSet(queue') \cup {svcMsg'}
              \/ \E u \in Threads : msg'[u] = m
  BY <1>0, <1>4, <1>5, <1>6 DEF Owners, h
<1> QED  BY <1>7, <1>8, <1>9, <1>10 DEF Owners

(* The service thread takes one from the queue ... *)
LEMMA DequeueOwners ==
  ASSUME IInv, SvcDequeue, active, queue # <<>>
  PROVE  Owners'
<1> DEFINE h == Head(queue)
           q == Tail(queue)
<1>0. TypeOK /\ Owners /\ Holding
  BY DEF IInv
<1>1. queue \in Seq(Messages)
  BY <1>0 DEF TypeOK
<1>2. /\ h \in Messages
      /\ ToSet(queue) = ToSet(q) \cup {h}
      /\ Distinct(q)
      /\ h \notin ToSet(q)
  BY <1>0, <1>1, TailFacts DEF Owners
<1> HIDE DEF h, q
<1>3. /\ queue' = q /\ svcMsg' = h
      /\ pool' = pool /\ msg' = msg
      /\ svcMsg = Null
  BY <1>0 DEF SvcDequeue, SvcGoes, q, h, poolVars, threadVars, Holding
<1>4. h # Null
  BY <1>2, LogPoolAssumption
<1>5. h \notin ToSet(pool) /\ \A u \in Threads : msg[u] # h
  BY <1>0, <1>2, <1>4 DEF Owners
<1> QED  BY <1>0, <1>2, <1>3, <1>4, <1>5, LogPoolAssumption DEF Owners

(* ... and gives it back to the pool. *)
LEMMA PushOwners ==
  ASSUME IInv, SvcPush
  PROVE  Owners'
<1> DEFINE h == svcMsg
           q == Append(pool, h)
<1>0. TypeOK /\ Owners /\ Holding
  BY DEF IInv
<1>1. pool \in Seq(Messages) /\ queue \in Seq(Messages) /\ h \in Messages /\ h # Null
  BY <1>0 DEF TypeOK, Holding, SvcPush, SvcGoes
<1>2. h \notin ToSet(pool) \cup ToSet(queue)
  BY <1>0 DEF Owners
<1>3. ToSet(q) = ToSet(pool) \cup {h} /\ Distinct(q)
  BY <1>0, <1>1, <1>2, AppendFacts DEF Owners
<1> HIDE DEF q
<1>4. /\ pool' = q /\ svcMsg' = Null
      /\ queue' = queue /\ msg' = msg
  BY DEF SvcPush, q, queueVars, threadVars
<1>5. Null \notin ToSet(pool) \cup ToSet(queue)
  BY <1>1, LogPoolAssumption DEF ToSet
<1>6. \A u \in Threads : msg[u] # h
  BY <1>0, <1>1 DEF Owners
<1> QED  BY <1>0, <1>1, <1>2, <1>3, <1>4, <1>5, <1>6 DEF Owners

(* The other steps move none. *)
LEMMA OwnersStep ==
  ASSUME IInv, Next
  PROVE  Owners'
<1> USE DEF poolVars, queueVars, threadVars, svcVars
<1>0. Owners
  BY DEF IInv
<1>1. CASE \E t \in Threads : PoolPop(t)
  BY <1>1, PopOwners
<1>2. CASE \E t \in Threads : Enqueue(t)
  BY <1>2, EnqueueOwners
<1>3. CASE SvcDequeue /\ active /\ queue # <<>>
  BY <1>3, DequeueOwners
<1>4. CASE SvcPush
  BY <1>4, PushOwners
<1>5. CASE \E t \in Threads : GetLogMsg(t) \/ PoolWait(t) \/ Fill(t) \/ SignalNew(t)
  <2>1. UNCHANGED <<pool, queue, msg, svcMsg>>
    BY <1>5 DEF GetLogMsg, PoolWait, Fill, SignalNew
  <2> QED  BY <1>0, <2>1, OwnersSame
<1>6. CASE \/ SvcCheck \/ SvcWait \/ SvcWrite \/ SvcCrash \/ SvcClear \/ SvcSignal \/ Close
           \/ SvcDequeue /\ ~(active /\ queue # <<>>)
  <2>1. UNCHANGED <<pool, queue, msg, svcMsg>>
    BY <1>6 DEF SvcCheck, SvcWait, SvcWrite, SvcCrash, SvcClear, SvcSignal, Close,
       SvcDequeue
  <2> QED  BY <1>0, <2>1, OwnersSame
<1> QED  BY <1>1, <1>2, <1>3, <1>4, <1>5, <1>6 DEF Next, Log, Svc

(* Who has a message follows from where each thread is. *)
LEMMA HoldingStep ==
  ASSUME IInv, Next
  PROVE  Holding'
<1> USE DEF poolVars, queueVars, threadVars, svcVars, SvcGoes
<1>0. TypeOK /\ Holding
  BY DEF IInv
<1>1. ASSUME NEW t \in Threads, Log(t)
      PROVE  Holding'
  <2>1. svc' = svc /\ svcMsg' = svcMsg
    BY <1>1 DEF Log, GetLogMsg, PoolWait, PoolPop, Fill, Enqueue, SignalNew
  <2>2. ASSUME NEW u \in Threads
        PROVE  msg'[u] # Null <=> pc'[u] \in {"fill", "put"}
    <3>1. CASE GetLogMsg(t) \/ PoolWait(t) \/ SignalNew(t) \/ Fill(t)
      BY <1>0, <3>1 DEF Holding, TypeOK, Goes, GetLogMsg, PoolWait, SignalNew, Fill
    <3>2. CASE PoolPop(t)
      <4>1. Head(pool) \in Messages
        BY <1>0, <3>2 DEF TypeOK, PoolPop
      <4>2. Head(pool) # Null
        BY <4>1, LogPoolAssumption
      <4> QED  BY <1>0, <3>2, <4>2 DEF Holding, TypeOK, Goes, PoolPop
    <3>3. CASE Enqueue(t)
      BY <1>0, <3>3 DEF Holding, TypeOK, Goes, Enqueue
    <3> QED  BY <1>1, <3>1, <3>2, <3>3 DEF Log
  <2> QED  BY <1>0, <2>1, <2>2 DEF Holding
<1>2. CASE SvcDequeue
  <2>1. CASE active /\ queue # <<>>
    <3>1. Head(queue) \in Messages
      BY <1>0, <2>1 DEF TypeOK
    <3>2. Head(queue) # Null
      BY <3>1, LogPoolAssumption
    <3> QED  BY <1>0, <1>2, <2>1, <3>2 DEF Holding, SvcDequeue
  <2>2. CASE ~(active /\ queue # <<>>)
    BY <1>0, <1>2, <2>2 DEF Holding, SvcDequeue
  <2> QED  BY <2>1, <2>2
<1>3. CASE SvcCheck \/ SvcWait \/ SvcWrite \/ SvcCrash \/ SvcClear \/ SvcPush \/ SvcSignal
           \/ Close
  BY <1>0, <1>3 DEF Holding, SvcCheck, SvcWait, SvcWrite, SvcCrash, SvcClear, SvcPush,
     SvcSignal, Close
<1> QED  BY <1>1, <1>2, <1>3 DEF Next, Svc

-----------------------------------------------------------------------------
(* The semaphores count *)

(* Nobody changes what is counted. *)
LEMMA CountedSame ==
  ASSUME Counted, UNCHANGED <<pool, sema, queue, newMsg, pc>>, svc' = svc
  PROVE  Counted'
<1>1. At("pop")' = At("pop") /\ At("signal")' = At("signal")
  BY DEF At
<1> QED  BY <1>1 DEF Counted

(* A thread that logs keeps the counts: PoolWait takes the count that PoolPop
   cashes, and SignalNew adds what Enqueue has brought.                     *)
LEMMA LogCounted ==
  ASSUME IInv, NEW t \in Threads, Log(t)
  PROVE  Counted'
<1> USE DEF poolVars, queueVars, threadVars, svcVars
<1>0. TypeOK /\ Counted
  BY DEF IInv
<1>1. /\ sema \in Nat /\ newMsg \in Nat
      /\ Len(pool) \in Nat /\ Len(queue) \in Nat
      /\ pool \in Seq(Messages) /\ queue \in Seq(Messages)
  BY <1>0 DEF TypeOK
<1>2. CASE GetLogMsg(t)
  <2>1. \/ Goes(t, "idle", "wait")
        \/ Goes(t, "idle", "idle")
    BY <1>2 DEF GetLogMsg
  <2>2. At("pop")' = At("pop") /\ At("signal")' = At("signal")
    BY <1>0, <2>1, GoesFacts DEF At, PCs
  <2> QED  BY <1>0, <1>2, <2>2 DEF GetLogMsg, Counted
<1>3. CASE PoolWait(t)
  <2>1. Goes(t, "wait", "pop")
    BY <1>3 DEF PoolWait
  <2>2. /\ Cardinality(At("pop")) \in Nat
        /\ Cardinality(At("pop")') = Cardinality(At("pop")) + 1
        /\ At("signal")' = At("signal")
    BY <1>0, <2>1, GoesCounts DEF PCs
  <2> QED  BY <1>0, <1>1, <1>3, <2>2 DEF PoolWait, Counted
<1>4. CASE PoolPop(t)
  <2>1. Goes(t, "pop", "fill")
    BY <1>4 DEF PoolPop
  <2>2. /\ Cardinality(At("pop")) \in Nat
        /\ Cardinality(At("pop")') = Cardinality(At("pop")) - 1
        /\ At("signal")' = At("signal")
    BY <1>0, <2>1, GoesCounts DEF PCs
  <2>3. Len(pool') = Len(pool) - 1
    BY <1>1, <1>4, TailFacts DEF PoolPop
  <2> QED  BY <1>0, <1>1, <1>4, <2>2, <2>3 DEF PoolPop, Counted
<1>5. CASE Fill(t)
  <2>1. Goes(t, "fill", "put")
    BY <1>5 DEF Fill
  <2>2. At("pop")' = At("pop") /\ At("signal")' = At("signal")
    BY <1>0, <2>1, GoesFacts DEF At, PCs
  <2> QED  BY <1>0, <1>5, <2>2 DEF Fill, Counted
<1>6. CASE Enqueue(t)
  <2>1. Goes(t, "put", "signal")
    BY <1>6 DEF Enqueue
  <2>2. /\ Cardinality(At("signal")) \in Nat
        /\ Cardinality(At("signal")') = Cardinality(At("signal")) + 1
        /\ At("pop")' = At("pop")
    BY <1>0, <2>1, GoesCounts DEF PCs
  <2>3. Len(queue') = Len(queue) + 1
    <3>1. queue' = Append(queue, msg[t])
      BY <1>6 DEF Enqueue
    <3>2. msg[t] \in Messages \cup {Null}
      BY <1>0 DEF TypeOK
    <3>3. queue \in Seq(Messages \cup {Null})
      BY <1>1
    <3> QED  BY <3>1, <3>2, <3>3, AppendFacts
  <2> QED  BY <1>0, <1>1, <1>6, <2>2, <2>3 DEF Enqueue, Counted
<1>7. CASE SignalNew(t)
  <2>1. Goes(t, "signal", "idle")
    BY <1>7 DEF SignalNew
  <2>2. /\ Cardinality(At("signal")) \in Nat
        /\ Cardinality(At("signal")') = Cardinality(At("signal")) - 1
        /\ At("pop")' = At("pop")
    BY <1>0, <2>1, GoesCounts DEF PCs
  <2> QED  BY <1>0, <1>1, <1>7, <2>2 DEF SignalNew, Counted
<1> QED  BY <1>2, <1>3, <1>4, <1>5, <1>6, <1>7 DEF Log

(* So does the service thread: push() signals after it has pushed, and a count
   of newMsgSemaphore is taken for each message dequeued.                   *)
LEMMA SvcCounted ==
  ASSUME IInv, Svc \/ Close
  PROVE  Counted'
<1> USE DEF poolVars, queueVars, threadVars, svcVars, SvcGoes
<1>0. TypeOK /\ Counted /\ Holding
  BY DEF IInv
<1>1. /\ sema \in Nat /\ newMsg \in Nat
      /\ Len(pool) \in Nat /\ Len(queue) \in Nat
      /\ pool \in Seq(Messages) /\ queue \in Seq(Messages)
  BY <1>0 DEF TypeOK
<1>2. pc' = pc
  BY DEF Svc, SvcCheck, SvcWait, SvcDequeue, SvcWrite, SvcCrash, SvcClear, SvcPush,
     SvcSignal, Close
<1>3. At("pop")' = At("pop") /\ At("signal")' = At("signal")
  BY <1>2 DEF At
<1>4. \A l : Cardinality(At(l)) \in Nat
  <2>1. ASSUME NEW l PROVE Cardinality(At(l)) \in Nat
    BY LogPoolAssumption, FS_Subset, FS_CardinalityType DEF At
  <2> QED  BY <2>1
<1>5. Cardinality(At("pop")) \in Nat /\ Cardinality(At("signal")) \in Nat
  BY <1>4
<1>6. CASE SvcCheck \/ SvcWrite \/ SvcCrash \/ SvcClear \/ Close
  BY <1>0, <1>3, <1>6 DEF Counted, SvcCheck, SvcWrite, SvcCrash, SvcClear, Close
<1>7. CASE SvcWait
  BY <1>0, <1>1, <1>3, <1>5, <1>7 DEF Counted, SvcWait
<1>8. CASE SvcDequeue
  <2>1. CASE active /\ queue # <<>>
    <3>1. Len(queue') = Len(queue) - 1
      BY <1>1, <1>8, <2>1, TailFacts DEF SvcDequeue
    <3> QED  BY <1>0, <1>1, <1>3, <1>5, <1>8, <2>1, <3>1 DEF Counted, SvcDequeue
  <2>2. CASE ~(active /\ queue # <<>>)
    BY <1>0, <1>1, <1>3, <1>5, <1>8, <2>2 DEF Counted, SvcDequeue
  <2> QED  BY <2>1, <2>2
<1>9. CASE SvcPush
  <2>1. svcMsg \in Messages
    BY <1>0, <1>9 DEF TypeOK, Holding, SvcPush
  <2>2. Len(pool') = Len(pool) + 1
    BY <1>1, <1>9, <2>1, AppendFacts DEF SvcPush
  <2> QED  BY <1>0, <1>1, <1>3, <1>5, <1>9, <2>2 DEF Counted, SvcPush
<1>10. CASE SvcSignal
  BY <1>0, <1>1, <1>3, <1>5, <1>10 DEF Counted, SvcSignal
<1> QED  BY <1>6, <1>7, <1>8, <1>9, <1>10 DEF Svc

-----------------------------------------------------------------------------
(* What the messages carry *)

(* The parts of a record. *)
LEMMA RecordType ==
  ASSUME NEW r \in Record
  PROVE  r[1] \in Threads /\ r[2] \in Nat \ {0} /\ r[3] \in Levels
BY MaxRecordsType DEF Record

(* What a message carries is a record. *)
LEMMA CarriedType ==
  ASSUME TypeOK, NEW m \in Messages, Carries(m)
  PROVE  text[m] = <<RecordOf(m)>> /\ RecordOf(m) \in Record
<1>1. text[m] \in Seq(Record) /\ Len(text[m]) = 1
  BY DEF TypeOK, Carries
<1> QED  BY <1>1 DEF RecordOf

(* Only a thread that fills a message and the service thread when it clears
   one write to a message.                                                  *)
LEMMA TextKept ==
  ASSUME IInv, Next, NEW m \in Messages,
         \A t \in Threads : Fill(t) => msg[t] # m,
         SvcClear => svcMsg # m
  PROVE  text'[m] = text[m] /\ level'[m] = level[m]
<1>0. text \in [Messages -> Seq(Record)] /\ level \in [Messages -> Levels]
  BY DEF IInv, TypeOK
<1>1. CASE \E t \in Threads : Fill(t)
  BY <1>0, <1>1 DEF Fill
<1>2. CASE SvcClear
  BY <1>0, <1>2 DEF SvcClear
<1>3. CASE ~(\E t \in Threads : Fill(t)) /\ ~SvcClear
  BY <1>3 DEF Next, Log, GetLogMsg, PoolWait, PoolPop, Enqueue, SignalNew, Svc, SvcCheck,
     SvcWait, SvcDequeue, SvcWrite, SvcCrash, SvcPush, SvcSignal, Close
<1> QED  BY <1>1, <1>2, <1>3

(* Who holds a message shares it with nobody. *)
LEMMA HolderAlone ==
  ASSUME IInv, NEW t \in Threads, pc[t] \in {"fill", "put"}
  PROVE  /\ msg[t] \in Messages
         /\ msg[t] \notin ToSet(pool) \cup ToSet(queue) \cup {svcMsg}
         /\ \A u \in Threads : msg[u] = msg[t] => u = t
BY DEF IInv, TypeOK, Owners, Holding

(* Nor does the service thread with the one it is working on. *)
LEMMA ServiceAlone ==
  ASSUME IInv, svc \in {"write", "clear", "push"}
  PROVE  /\ svcMsg \in Messages
         /\ svcMsg \notin ToSet(pool) \cup ToSet(queue)
         /\ \A u \in Threads : msg[u] # svcMsg
BY DEF IInv, TypeOK, Owners, Holding

(* A message that is in the pool or the queue is not written to. *)
LEMMA ShelfKept ==
  ASSUME IInv, Next, NEW m \in ToSet(pool) \cup ToSet(queue)
  PROVE  m \in Messages /\ text'[m] = text[m] /\ level'[m] = level[m]
<1>1. m \in Messages
  BY DEF IInv, TypeOK, ToSet
<1>2. ASSUME NEW t \in Threads, Fill(t) PROVE msg[t] # m
  BY <1>2, HolderAlone DEF Fill, Goes
<1>3. ASSUME SvcClear PROVE svcMsg # m
  BY <1>3, ServiceAlone DEF SvcClear, SvcGoes
<1> QED  BY <1>1, <1>2, <1>3, TextKept

(* Only the service thread adds to the pool, ... *)
LEMMA PoolGrows ==
  ASSUME IInv, Next, NEW m \in ToSet(pool')
  PROVE  m \in ToSet(pool) \/ (SvcPush /\ m = svcMsg)
<1>0. pool \in Seq(Messages) /\ svcMsg \in Messages \cup {Null}
  BY DEF IInv, TypeOK
<1>1. CASE \E t \in Threads : PoolPop(t)
  BY <1>0, <1>1, TailFacts DEF PoolPop
<1>2. CASE SvcPush
  <2>1. svcMsg \in Messages
    BY <1>2, ServiceAlone DEF SvcPush, SvcGoes
  <2> QED  BY <1>0, <1>2, <2>1, AppendFacts DEF SvcPush
<1>3. CASE ~(\E t \in Threads : PoolPop(t)) /\ ~SvcPush
  BY <1>3 DEF Next, Log, GetLogMsg, PoolWait, Fill, Enqueue, SignalNew, Svc, SvcCheck,
     SvcWait, SvcDequeue, SvcWrite, SvcCrash, SvcClear, SvcSignal, Close, poolVars
<1> QED  BY <1>1, <1>2, <1>3

(* ... and only a thread that logs to the queue. *)
LEMMA QueueGrows ==
  ASSUME IInv, Next, NEW m \in ToSet(queue')
  PROVE  m \in ToSet(queue) \/ \E t \in Threads : Enqueue(t) /\ m = msg[t]
<1>0. queue \in Seq(Messages)
  BY DEF IInv, TypeOK
<1>1. CASE \E t \in Threads : Enqueue(t)
  <2>1. PICK t \in Threads : Enqueue(t)
    BY <1>1
  <2>2. msg[t] \in Messages
    BY <2>1, HolderAlone DEF Enqueue, Goes
  <2>3. ToSet(Append(queue, msg[t])) = ToSet(queue) \cup {msg[t]}
    BY <1>0, <2>2, AppendFacts
  <2>4. queue' = Append(queue, msg[t])
    BY <2>1 DEF Enqueue
  <2> QED  BY <2>1, <2>3, <2>4
<1>2. CASE SvcDequeue
  BY <1>0, <1>2, TailFacts DEF SvcDequeue
<1>3. CASE ~(\E t \in Threads : Enqueue(t)) /\ ~SvcDequeue
  BY <1>3 DEF Next, Log, GetLogMsg, PoolWait, PoolPop, Fill, SignalNew, Svc, SvcCheck,
     SvcWait, SvcWrite, SvcCrash, SvcClear, SvcPush, SvcSignal, Close, queueVars
<1> QED  BY <1>1, <1>2, <1>3

(* Records stay in the past: a thread counts up before it logs again. *)
LEMMA PastStep ==
  ASSUME IInv, Next, NEW r \in Record, Past(r)
  PROVE  Past(r)'
<1>0. TypeOK
  BY DEF IInv
<1>1. r[1] \in Threads /\ r[2] \in Nat /\ logged[r[1]] \in Nat
  BY <1>0, RecordType, MaxRecordsType DEF TypeOK
<1>2. CASE Svc \/ Close
  BY <1>2 DEF Past, Svc, SvcCheck, SvcWait, SvcDequeue, SvcWrite, SvcCrash, SvcClear,
     SvcPush, SvcSignal, Close, threadVars
<1>3. ASSUME NEW t \in Threads, Log(t)
      PROVE  Past(r)'
  <2>1. CASE t # r[1]
    BY <1>0, <1>1, <1>3, <2>1 DEF Past, TypeOK, Log, GetLogMsg, PoolWait, PoolPop, Fill,
       Enqueue, SignalNew, Goes
  <2>2. CASE t = r[1]
    <3>1. CASE GetLogMsg(t)
      <4>1. logged'[t] = logged[t] + 1
        BY <1>0, <3>1 DEF GetLogMsg, TypeOK
      <4> QED  BY <1>1, <2>2, <4>1 DEF Past
    <3>2. CASE Enqueue(t) \/ SignalNew(t)
      <4>1. logged'[t] = logged[t] /\ pc'[t] \in {"idle", "signal"}
        BY <1>0, <3>2 DEF Enqueue, SignalNew, Goes, TypeOK
      <4> QED  BY <1>1, <2>2, <4>1 DEF Past
    <3>3. CASE PoolWait(t) \/ PoolPop(t) \/ Fill(t)
      <4>1. logged'[t] = logged[t] /\ pc[t] \notin {"idle", "signal"}
        BY <1>0, <3>3 DEF PoolWait, PoolPop, Fill, Goes, TypeOK
      <4> QED  BY <1>1, <2>2, <4>1 DEF Past
    <3> QED  BY <1>3, <3>1, <3>2, <3>3 DEF Log
  <2> QED  BY <2>1, <2>2
<1> QED  BY <1>2, <1>3 DEF Next

(* A message that is filled carries one record, that of its thread. *)
LEMMA FillFacts ==
  ASSUME IInv, NEW t \in Threads, Fill(t)
  PROVE  /\ Carries(msg[t])'
         /\ RecordOf(msg[t])'[1] = t
         /\ RecordOf(msg[t])'[2] = logged[t]
<1>0. TypeOK /\ Texts
  BY DEF IInv
<1>1. pc[t] = "fill" /\ msg' = msg
  BY DEF Fill, Goes
<1>2. msg[t] \in Messages /\ text[msg[t]] = <<>>
  BY <1>0, <1>1, HolderAlone DEF Texts
<1>3. PICK lvl \in Levels :
        /\ level' = [level EXCEPT ![msg[t]] = lvl]
        /\ text' = [text EXCEPT ![msg[t]] = Append(@, <<t, logged[t], lvl>>)]
  BY DEF Fill
<1> DEFINE r == <<t, logged[t], lvl>>
<1>4. r[1] = t /\ r[2] = logged[t] /\ r[3] = lvl
  OBVIOUS
<1> HIDE DEF r
<1>5. text'[msg[t]] = <<r>> /\ level'[msg[t]] = lvl
  BY <1>0, <1>2, <1>3 DEF r, TypeOK
<1> QED  BY <1>1, <1>4, <1>5 DEF Carries, RecordOf

(* What each message carries follows from where it is. *)
LEMMA TextsStep ==
  ASSUME IInv, Next
  PROVE  Texts'
<1> USE DEF poolVars, queueVars, threadVars, svcVars, SvcGoes
<1>0. TypeOK /\ Texts
  BY DEF IInv
<1>1. ASSUME NEW m \in ToSet(pool')
      PROVE  text'[m] = <<>>
  <2>1. CASE m \in ToSet(pool)
    BY <1>0, <2>1, ShelfKept DEF Texts
  <2>2. CASE SvcPush /\ m = svcMsg
    BY <1>0, <2>2 DEF Texts, SvcPush
  <2> QED  BY <2>1, <2>2, PoolGrows
<1>2. ASSUME NEW t \in Threads, pc'[t] = "fill"
      PROVE  text'[msg'[t]] = <<>>
  <2>1. CASE PoolPop(t)
    <3>1. Head(pool) \in ToSet(pool) /\ Head(pool) \in Messages
      BY <1>0, <2>1, TailFacts DEF TypeOK, PoolPop
    <3>2. msg'[t] = Head(pool) /\ text' = text
      BY <1>0, <2>1 DEF PoolPop, TypeOK
    <3> QED  BY <1>0, <3>1, <3>2 DEF Texts
  <2>2. CASE ~PoolPop(t)
    <3>1. pc[t] = "fill" /\ msg'[t] = msg[t] /\ ~Fill(t)
      BY <1>0, <1>2, <2>2 DEF TypeOK, Next, Log, GetLogMsg, PoolWait, PoolPop, Fill, Enqueue,
         SignalNew, Goes, Svc, SvcCheck, SvcWait, SvcDequeue, SvcWrite, SvcCrash, SvcClear,
         SvcPush, SvcSignal, Close
    <3>2. msg[t] \in Messages /\ \A u \in Threads : msg[u] = msg[t] => u = t
      BY <3>1, HolderAlone
    <3>3. ASSUME SvcClear PROVE svcMsg # msg[t]
      BY <3>3, ServiceAlone DEF SvcClear
    <3>4. text'[msg[t]] = text[msg[t]]
      BY <3>1, <3>2, <3>3, TextKept
    <3> QED  BY <1>0, <3>1, <3>4 DEF Texts
  <2> QED  BY <2>1, <2>2
<1>3. ASSUME svc' = "push"
      PROVE  text'[svcMsg'] = <<>>
  <2>1. CASE SvcClear
    <3>1. svcMsg \in Messages
      BY <2>1, ServiceAlone DEF SvcClear
    <3> QED  BY <1>0, <2>1, <3>1 DEF SvcClear, TypeOK
  <2>2. CASE ~SvcClear
    <3>1. svc = "push" /\ svcMsg' = svcMsg
      BY <1>3, <2>2 DEF Next, Log, GetLogMsg, PoolWait, PoolPop, Fill, Enqueue, SignalNew,
         Svc, SvcCheck, SvcWait, SvcDequeue, SvcWrite, SvcCrash, SvcPush, SvcSignal, Close
    <3>2. svcMsg \in Messages /\ \A u \in Threads : msg[u] # svcMsg
      BY <3>1, ServiceAlone
    <3>3. text'[svcMsg] = text[svcMsg]
      BY <2>2, <3>2, TextKept
    <3> QED  BY <1>0, <3>1, <3>3 DEF Texts
  <2> QED  BY <2>1, <2>2
<1>4. ASSUME NEW t \in Threads, pc'[t] = "put"
      PROVE  /\ Carries(msg[t])'
             /\ RecordOf(msg[t])'[1] = t
             /\ RecordOf(msg[t])'[2] = logged'[t]
  <2>1. CASE Fill(t)
    <3>1. logged' = logged
      BY <2>1 DEF Fill
    <3> QED  BY <2>1, <3>1, FillFacts
  <2>2. CASE ~Fill(t)
    <3>1. pc[t] = "put" /\ msg'[t] = msg[t] /\ logged'[t] = logged[t]
      BY <1>0, <1>4, <2>2 DEF TypeOK, Next, Log, GetLogMsg, PoolWait, PoolPop, Fill, Enqueue,
         SignalNew, Goes, Svc, SvcCheck, SvcWait, SvcDequeue, SvcWrite, SvcCrash, SvcClear,
         SvcPush, SvcSignal, Close
    <3>2. msg[t] \in Messages /\ \A u \in Threads : msg[u] = msg[t] => u = t
      BY <3>1, HolderAlone
    <3>3. ASSUME SvcClear PROVE svcMsg # msg[t]
      BY <3>1, <3>3, HolderAlone
    <3>4. text'[msg[t]] = text[msg[t]] /\ level'[msg[t]] = level[msg[t]]
      BY <2>2, <3>2, <3>3, TextKept
    <3> QED  BY <1>0, <3>1, <3>4 DEF Texts, Carries, RecordOf
  <2> QED  BY <2>1, <2>2
<1>5. ASSUME NEW m \in ToSet(queue')
      PROVE  Carries(m)' /\ Past(RecordOf(m))'
  <2>1. CASE m \in ToSet(queue)
    <3>1. m \in Messages /\ text'[m] = text[m] /\ level'[m] = level[m]
      BY <2>1, ShelfKept
    <3>2. Carries(m) /\ Past(RecordOf(m)) /\ RecordOf(m) \in Record
      BY <1>0, <2>1, <3>1, CarriedType DEF Texts
    <3>3. Past(RecordOf(m))'
      <4> DEFINE r == RecordOf(m)
      <4>1. r \in Record /\ Past(r) /\ RecordOf(m)' = r
        BY <3>1, <3>2 DEF RecordOf
      <4> QED  BY <3>1, <3>2, <4>1, PastStep DEF RecordOf
    <3> QED  BY <3>1, <3>2, <3>3 DEF Carries
  <2>2. CASE \E t \in Threads : Enqueue(t) /\ m = msg[t]
    <3>1. PICK t \in Threads : Enqueue(t) /\ m = msg[t]
      BY <2>2
    <3>2. /\ pc[t] = "put" /\ pc'[t] = "signal"
          /\ text' = text /\ level' = level /\ logged' = logged
      BY <1>0, <3>1 DEF Enqueue, Goes, TypeOK
    <3>3. Carries(m) /\ RecordOf(m)[1] = t /\ RecordOf(m)[2] = logged[t]
      BY <1>0, <3>1, <3>2 DEF Texts
    <3>4. logged[t] \in Nat
      BY <1>0, MaxRecordsType DEF TypeOK
    <3> QED  BY <3>2, <3>3, <3>4 DEF Carries, Past, RecordOf
  <2> QED  BY <2>1, <2>2, QueueGrows
<1>6. ASSUME svc' = "write"
      PROVE  Carries(svcMsg)' /\ Past(RecordOf(svcMsg))'
  <2> DEFINE m == svcMsg'
  <2>1. /\ m \in Messages /\ text'[m] = text[m] /\ level'[m] = level[m]
        /\ Carries(m) /\ Past(RecordOf(m))
    <3>1. CASE SvcDequeue
      <4>1. m = Head(queue) /\ queue # <<>>
        BY <1>6, <3>1 DEF SvcDequeue
      <4>2. m \in ToSet(queue) /\ m \in Messages
        BY <1>0, <4>1, TailFacts DEF TypeOK
      <4> QED  BY <1>0, <4>2, ShelfKept DEF Texts
    <3>2. CASE ~SvcDequeue
      <4>1. svc = "write" /\ m = svcMsg
        BY <1>6, <3>2 DEF Next, Log, GetLogMsg, PoolWait, PoolPop, Fill, Enqueue, SignalNew,
           Svc, SvcCheck, SvcWait, SvcWrite, SvcCrash, SvcClear, SvcPush, SvcSignal, Close
      <4>2. m \in Messages /\ \A u \in Threads : msg[u] # m
        BY <4>1, ServiceAlone
      <4>3. ~SvcClear
        BY <4>1 DEF SvcClear
      <4> QED  BY <1>0, <4>1, <4>2, <4>3, TextKept DEF Texts
    <3> QED  BY <3>1, <3>2
  <2>2. RecordOf(m) \in Record
    BY <1>0, <2>1, CarriedType
  <2> QED  BY <2>1, <2>2, PastStep DEF Carries, RecordOf
<1>7. ASSUME NEW t \in Threads, pc'[t] # "idle"
      PROVE  logged'[t] > 0
  <2>1. logged[t] \in Nat
    BY <1>0, MaxRecordsType DEF TypeOK
  <2>2. CASE GetLogMsg(t)
    <3>1. logged'[t] = logged[t] + 1
      BY <1>0, <2>2 DEF GetLogMsg, TypeOK
    <3> QED  BY <2>1, <3>1
  <2>3. CASE ~GetLogMsg(t)
    <3>1. pc[t] # "idle" /\ logged'[t] = logged[t]
      BY <1>0, <1>7, <2>3 DEF TypeOK, Next, Log, GetLogMsg, PoolWait, PoolPop, Fill, Enqueue,
         SignalNew, Goes, Svc, SvcCheck, SvcWait, SvcDequeue, SvcWrite, SvcCrash, SvcClear,
         SvcPush, SvcSignal, Close
    <3> QED  BY <1>0, <3>1 DEF Texts
  <2> QED  BY <2>2, <2>3
<1> QED  BY <1>1, <1>2, <1>3, <1>4, <1>5, <1>6, <1>7 DEF Texts, RecordOf, Carries

-----------------------------------------------------------------------------
(* The queue keeps the order in which a thread has logged *)

(* While it writes a message the service thread keeps it as it was filled. *)
LEMMA WriteKept ==
  ASSUME IInv, Next, svc' = "write", ~SvcDequeue
  PROVE  /\ svc = "write"
         /\ svcMsg' = svcMsg
         /\ text'[svcMsg] = text[svcMsg]
<1>1. svc = "write" /\ svcMsg' = svcMsg
  BY DEF Next, Log, GetLogMsg, PoolWait, PoolPop, Fill, Enqueue, SignalNew, Svc, SvcCheck,
     SvcWait, SvcWrite, SvcCrash, SvcClear, SvcPush, SvcSignal, Close, SvcGoes, svcVars
<1>2. svcMsg \in Messages /\ \A u \in Threads : msg[u] # svcMsg
  BY <1>1, ServiceAlone
<1>3. ~SvcClear
  BY <1>1 DEF SvcClear, SvcGoes
<1> QED  BY <1>1, <1>2, <1>3, TextKept

(* A record that a thread has just filled is newer than its earlier ones. *)
LEMMA FilledIsNewer ==
  ASSUME IInv, NEW t \in Threads, pc[t] = "put", NEW r \in Record, Past(r)
  PROVE  Newer(r, RecordOf(msg[t]))
BY DEF IInv, Texts, Past, Newer

(* So the queue stays in order, and behind what is being written. *)
LEMMA QueuedStep ==
  ASSUME IInv, Next
  PROVE  Queued'
<1>0. TypeOK /\ Texts /\ Queued
  BY DEF IInv
<1>1. queue \in Seq(Messages) /\ Len(queue) \in Nat
  BY <1>0 DEF TypeOK
<1>2. \A i \in 1 .. Len(queue) : queue[i] \in ToSet(queue)
  BY <1>1 DEF ToSet
<1>3. ASSUME NEW m \in ToSet(queue)
      PROVE  /\ m \in Messages
             /\ RecordOf(m)' = RecordOf(m)
             /\ RecordOf(m) \in Record
             /\ Past(RecordOf(m))
  BY <1>0, <1>3, ShelfKept, CarriedType DEF Texts, RecordOf
<1>4. CASE \E t \in Threads : Enqueue(t)
  <2>1. PICK t \in Threads : Enqueue(t)
    BY <1>4
  <2> DEFINE h == msg[t]
  <2>2. pc[t] = "put" /\ h \in Messages
    BY <2>1, HolderAlone DEF Enqueue, Goes
  <2>3. queue' = Append(queue, h) /\ text' = text /\ svc' = svc /\ svcMsg' = svcMsg
    BY <2>1 DEF Enqueue, svcVars
  <2> HIDE DEF h
  <2>4. /\ Len(queue') = Len(queue) + 1
        /\ \A i \in 1 .. Len(queue) : queue'[i] = queue[i]
        /\ queue'[Len(queue) + 1] = h
        /\ ToSet(queue') = ToSet(queue) \cup {h}
    <3>1. LET q == Append(queue, h)
          IN  /\ Len(q) = Len(queue) + 1
              /\ \A i \in 1 .. Len(queue) : q[i] = queue[i]
              /\ q[Len(queue) + 1] = h
              /\ ToSet(q) = ToSet(queue) \cup {h}
      BY <1>1, <2>2, AppendFacts
    <3> QED  BY <2>3, <3>1
  <2>5. ASSUME NEW r \in Record, Past(r)
        PROVE  Newer(r, RecordOf(h))
    BY <2>2, <2>5, FilledIsNewer DEF h
  <2>6. ASSUME NEW i \in 1 .. Len(queue'), NEW j \in 1 .. Len(queue'), i < j
        PROVE  Newer(RecordOf(queue'[i]), RecordOf(queue'[j]))
    <3>1. i \in 1 .. Len(queue) /\ queue'[i] = queue[i]
      BY <1>1, <2>4, <2>6
    <3>2. CASE j = Len(queue) + 1
      BY <1>2, <1>3, <2>4, <2>5, <3>1, <3>2
    <3>3. CASE j # Len(queue) + 1
      <4>1. j \in 1 .. Len(queue) /\ queue'[j] = queue[j]
        BY <1>1, <2>4, <3>3
      <4> QED  BY <1>0, <2>6, <3>1, <4>1 DEF Queued
    <3> QED  BY <3>2, <3>3
  <2>7. ASSUME svc = "write", NEW m \in ToSet(queue')
        PROVE  Newer(RecordOf(svcMsg), RecordOf(m))
    <3>1. RecordOf(svcMsg) \in Record /\ Past(RecordOf(svcMsg))
      BY <1>0, <2>7, ServiceAlone, CarriedType DEF Texts
    <3> QED  BY <1>0, <2>4, <2>5, <2>7, <3>1 DEF Queued
  <2> QED  BY <2>3, <2>6, <2>7 DEF Queued, RecordOf
<1>5. CASE SvcDequeue /\ active /\ queue # <<>>
  <2>1. /\ queue' = Tail(queue) /\ svcMsg' = Head(queue) /\ text' = text
    BY <1>5 DEF SvcDequeue
  <2>2. /\ Len(queue') = Len(queue) - 1
        /\ queue' \in Seq(Messages)
        /\ svcMsg' = queue[1]
        /\ \A i \in 1 .. Len(queue) - 1 : queue'[i] = queue[i + 1]
    BY <1>1, <1>5, <2>1, TailFacts
  <2>3. ASSUME NEW i \in 1 .. Len(queue'), NEW j \in 1 .. Len(queue'), i < j
        PROVE  Newer(RecordOf(queue'[i]), RecordOf(queue'[j]))
    <3>1. i + 1 \in 1 .. Len(queue) /\ j + 1 \in 1 .. Len(queue) /\ i + 1 < j + 1
      BY <1>1, <2>2, <2>3
    <3>2. queue'[i] = queue[i + 1] /\ queue'[j] = queue[j + 1]
      BY <1>1, <2>2
    <3> QED  BY <1>0, <3>1, <3>2 DEF Queued
  <2>4. ASSUME NEW m \in ToSet(queue')
        PROVE  Newer(RecordOf(svcMsg'), RecordOf(m))
    <3>1. PICK i \in 1 .. Len(queue) - 1 : m = queue[i + 1]
      BY <2>2 DEF ToSet
    <3>2. 1 \in 1 .. Len(queue) /\ i + 1 \in 1 .. Len(queue) /\ 1 < i + 1
      BY <1>1
    <3> QED  BY <1>0, <2>2, <3>1, <3>2 DEF Queued
  <2> QED  BY <2>1, <2>3, <2>4 DEF Queued, RecordOf
<1>6. CASE ~(\E t \in Threads : Enqueue(t)) /\ ~(SvcDequeue /\ active /\ queue # <<>>)
  <2>1. queue' = queue
    BY <1>6 DEF Next, Log, GetLogMsg, PoolWait, PoolPop, Fill, SignalNew, Svc, SvcCheck,
       SvcWait, SvcDequeue, SvcWrite, SvcCrash, SvcClear, SvcPush, SvcSignal, Close, queueVars
  <2>2. ASSUME NEW i \in 1 .. Len(queue), NEW j \in 1 .. Len(queue), i < j
        PROVE  Newer(RecordOf(queue[i])', RecordOf(queue[j])')
    <3>1. RecordOf(queue[i])' = RecordOf(queue[i]) /\ RecordOf(queue[j])' = RecordOf(queue[j])
      BY <1>2, <1>3, <2>1 DEF RecordOf
    <3> QED  BY <1>0, <2>2, <3>1 DEF Queued
  <2>3. ASSUME svc' = "write", NEW m \in ToSet(queue)
        PROVE  Newer(RecordOf(svcMsg)', RecordOf(m)')
    <3>1. ~SvcDequeue
      BY <1>6, <2>3 DEF SvcDequeue, SvcGoes
    <3>2. svc = "write" /\ RecordOf(svcMsg)' = RecordOf(svcMsg)
      BY <2>3, <3>1, WriteKept DEF RecordOf
    <3> QED  BY <1>0, <1>3, <3>2 DEF Queued
  <2> QED  BY <2>1, <2>2, <2>3 DEF Queued, Newer, RecordOf
<1> QED  BY <1>4, <1>5, <1>6

-----------------------------------------------------------------------------
(* The files of an output *)

(* One that cannot open its next file keeps those it has. *)
LEMMA FailsKept ==
  ASSUME NEW f \in Output, NEW rs, Rotates(f), Kept(f)
  PROVE  Kept(Logged(f, rs, FALSE))
<1> DEFINE g == Logged(f, rs, FALSE)
<1> HIDE DEF g
<1>1. ~g.open /\ g.recordCounter = 0 /\ g.files = f.files
  BY LoggedFails DEF g
<1>2. Kept(g)
  BY <1>1 DEF Kept, Current, Spread, Recycled, Short
<1> QED  BY <1>2 DEF g

(* The next number is two on, or 0: it comes back after half of them. *)
LEMMA RotatesKept ==
  ASSUME NEW f \in Output, NEW rs \in Seq(Record), Len(rs) <= 1,
         Rotates(f), f.open, Kept(f)
  PROVE  Kept(Logged(f, rs, TRUE))
<1> DEFINE g == Logged(f, rs, TRUE)
           n == Len(f.files)
           last == f.files[n].number
           num(i) == f.files[i].number
<1> HIDE DEF g
<1>1. /\ g \in Output
      /\ g.open
      /\ g.recordCounter = 0
      /\ g.fileCounter = NextNumber(f) + 1
      /\ Len(g.files) = n + 1
      /\ \A i \in 1 .. n : g.files[i] = f.files[i]
      /\ g.files[n + 1].number = NextNumber(f)
      /\ g.files[n + 1].records = rs
  BY LoggedRotates DEF g
<1>2. /\ f.files \in Seq(File) /\ n \in Nat
      /\ DOMAIN f.files = 1 .. n
      /\ \A i \in 1 .. n : num(i) \in 0 .. MaxFile
      /\ DOMAIN g.files = 1 .. n + 1
  BY <1>1, FilesType
<1>3. /\ n \in 1 .. n
      /\ last \in 0 .. MaxFile
      /\ f.fileCounter = last + 1
      /\ MaxFile \in Nat /\ recordCount \in Nat
  BY <1>2, MaxRecordsType, LogPoolAssumption DEF Kept, Current, LastFile
<1>4. \/ NextNumber(f) = 0 /\ last + 2 > MaxFile
      \/ NextNumber(f) = last + 2
  BY <1>3 DEF NextNumber
<1>5. NextNumber(f) \in 0 .. MaxFile
  BY <1>3, <1>4 DEF NextNumber
<1>6. LastFile(g).number = NextNumber(f) /\ LastFile(g).records = rs
  BY <1>1 DEF LastFile
<1>7. Current(g)
  <2>1. g.files # <<>>
    BY <1>1, <1>2
  <2>2. Len(LastFile(g).records) <= g.recordCounter + 1
    BY <1>1, <1>6
  <2> QED  BY <1>1, <1>6, <2>1, <2>2 DEF Current
<1>8. ASSUME NEW i \in 1 .. n
      PROVE  2 * (n - i) >= last - num(i) + (IF num(i) > last THEN MaxFile + 1 ELSE 0)
  BY <1>2 DEF Kept, Spread, LastFile
<1>9. ASSUME NEW i \in 1 .. n
      PROVE  2 * (n + 1 - i) >= NextNumber(f) - num(i)
                                + (IF num(i) >= NextNumber(f) THEN MaxFile + 1 ELSE 0)
  <2>1. /\ num(i) \in Nat /\ num(i) <= MaxFile /\ last \in Nat /\ last <= MaxFile
        /\ n \in Nat /\ i \in Nat /\ MaxFile \in Nat /\ i <= n
    BY <1>2, <1>3
  <2> HIDE DEF num, last, n
  <2>2. CASE NextNumber(f) = 0 /\ last + 2 > MaxFile
    BY <1>8, <2>1, <2>2
  <2>3. CASE NextNumber(f) = last + 2
    BY <1>8, <2>1, <2>3
  <2> QED  BY <1>4, <2>2, <2>3
<1>10. ASSUME NEW i \in 1 .. n + 1
       PROVE  2 * (n + 1 - i) >= NextNumber(f) - g.files[i].number
                + (IF g.files[i].number > NextNumber(f) THEN MaxFile + 1 ELSE 0)
  <2>1. CASE i \in 1 .. n
    <3>1. g.files[i].number = num(i) /\ num(i) \in Nat /\ NextNumber(f) \in Nat
      BY <1>1, <1>2, <1>5, <2>1
    <3>2. 2 * (n + 1 - i) >= NextNumber(f) - num(i)
                             + (IF num(i) >= NextNumber(f) THEN MaxFile + 1 ELSE 0)
      BY <1>9, <2>1
    <3>3. n \in Nat /\ i \in Nat /\ MaxFile \in Nat
      BY <1>2, <1>3, <2>1
    <3> HIDE DEF num, n
    <3> QED  BY <3>1, <3>2, <3>3
  <2>2. CASE i = n + 1
    BY <1>1, <1>2, <1>5, <2>2
  <2> QED  BY <2>1, <2>2
<1>11. Spread(g)
  <2>1. ASSUME NEW i \in 1 .. n + 1
        PROVE  2 * (Len(g.files) - i) >= LastFile(g).number - g.files[i].number
                 + (IF g.files[i].number > LastFile(g).number THEN MaxFile + 1 ELSE 0)
    BY <1>1, <1>6, <1>10
  <2> QED  BY <1>2, <2>1 DEF Spread
<1>12. ASSUME NEW i \in 1 .. n + 1, NEW j \in 1 .. n + 1,
              i < j, g.files[i].number = g.files[j].number
       PROVE  2 * (j - i) >= MaxFile + 1
  <2>1. i \in 1 .. n /\ g.files[i].number = num(i)
    BY <1>1, <1>2, <1>12
  <2>2. CASE j = n + 1
    <3>1. num(i) = NextNumber(f)
      BY <1>1, <1>12, <2>1, <2>2
    <3>2. 2 * (n + 1 - i) >= NextNumber(f) - num(i) + MaxFile + 1
      <4> HIDE DEF num
      <4> QED  BY <1>3, <1>5, <1>9, <2>1, <3>1
    <3>3. num(i) \in Nat /\ n \in Nat
      BY <1>2, <2>1
    <3> HIDE DEF num, n
    <3> QED  BY <1>3, <1>5, <2>2, <3>1, <3>2, <3>3
  <2>3. CASE j # n + 1
    <3>1. j \in 1 .. n /\ g.files[j].number = num(j)
      BY <1>1, <1>2, <2>3
    <3> QED  BY <1>2, <1>12, <2>1, <3>1 DEF Kept, Recycled
  <2> QED  BY <2>2, <2>3
<1>13. Recycled(g)
  BY <1>2, <1>12 DEF Recycled
<1>14. Short(g)
  <2>1. ASSUME NEW i \in 1 .. n + 1
        PROVE  Len(g.files[i].records) <= recordCount + 1
    <3>1. CASE i = n + 1
      <4>1. g.files[i].records = rs
        BY <1>1, <3>1
      <4> QED  BY <1>3, <4>1
    <3>2. CASE i # n + 1
      <4>1. i \in 1 .. n
        BY <1>2, <3>2
      <4> QED  BY <1>1, <1>2, <4>1 DEF Kept, Short
    <3> QED  BY <3>1, <3>2
  <2> QED  BY <1>2, <2>1 DEF Short
<1> QED  BY <1>7, <1>11, <1>13, <1>14 DEF Kept, g

(* A file is full before it has more than recordCount + 1 records. *)
LEMMA AppendsKept ==
  ASSUME NEW f \in Output, NEW rs \in Seq(Record), Len(rs) <= 1,
         NEW good \in BOOLEAN, ~Rotates(f), f.open, Kept(f)
  PROVE  Kept(Logged(f, rs, good))
<1> DEFINE g == Logged(f, rs, good)
           n == Len(f.files)
<1> HIDE DEF g
<1>0. f.files # <<>>
  BY DEF Kept, Current
<1>1. /\ g \in Output
      /\ g.open
      /\ g.recordCounter = f.recordCounter + 1
      /\ g.fileCounter = f.fileCounter
      /\ Len(g.files) = n
      /\ \A i \in 1 .. n - 1 : g.files[i] = f.files[i]
      /\ g.files[n].number = f.files[n].number
      /\ g.files[n].records = f.files[n].records \o rs
  BY <1>0, LoggedAppends DEF g
<1>2. /\ f.files \in Seq(File) /\ n \in Nat \ {0}
      /\ DOMAIN f.files = 1 .. n
      /\ DOMAIN g.files = 1 .. n
      /\ f.recordCounter \in Nat /\ recordCount \in Nat
  BY <1>0, <1>1, FilesType, LogPoolAssumption
<1>3. LastFile(g) = g.files[n] /\ LastFile(f) = f.files[n]
  BY <1>1 DEF LastFile
<1>4. Len(g.files[n].records) <= Len(f.files[n].records) + 1
      /\ Len(g.files[n].records) \in Nat
      /\ Len(f.files[n].records) \in Nat
  <2>1. f.files[n].records \in Seq(Record)
    <3>1. n \in 1 .. n
      BY <1>2
    <3> QED  BY <3>1, FilesType
  <2>2. Len(f.files[n].records \o rs) = Len(f.files[n].records) + Len(rs)
    BY <2>1
  <2> QED  BY <1>1, <2>1, <2>2
<1>5. /\ Len(f.files[n].records) <= f.recordCounter + 1
      /\ f.fileCounter = f.files[n].number + 1
  BY <1>3 DEF Kept, Current
<1>6. f.recordCounter + 1 <= recordCount
  BY <1>2 DEF Rotates
<1>7. Len(g.files[n].records) <= g.recordCounter + 1
       /\ Len(g.files[n].records) <= recordCount + 1
  <2> DEFINE a == Len(g.files[n].records)
             b == Len(f.files[n].records)
  <2>1. a <= b + 1 /\ a \in Nat /\ b \in Nat /\ b <= f.recordCounter + 1
    BY <1>4, <1>5
  <2> HIDE DEF a, b
  <2>2. a <= g.recordCounter + 1 /\ a <= recordCount + 1
    BY <1>1, <1>2, <1>6, <2>1
  <2> QED  BY <2>2 DEF a
<1>8. ASSUME NEW i \in 1 .. n
      PROVE  g.files[i].number = f.files[i].number
  <2>1. CASE i = n
    BY <1>1, <2>1
  <2>2. CASE i # n
    <3>1. i \in 1 .. n - 1
      BY <1>2, <2>2
    <3> QED  BY <1>1, <3>1
  <2> QED  BY <2>1, <2>2
<1>9. Current(g)
  <2>1. g.files # <<>>
    BY <1>1, <1>2
  <2> QED  BY <1>1, <1>3, <1>5, <1>7, <2>1 DEF Current
<1>10. Spread(g)
  BY <1>1, <1>2, <1>3, <1>8 DEF Kept, Spread
<1>11. Recycled(g)
  BY <1>2, <1>8 DEF Kept, Recycled
<1>12. Short(g)
  <2>1. ASSUME NEW i \in 1 .. n
        PROVE  Len(g.files[i].records) <= recordCount + 1
    <3>1. CASE i = n
      BY <1>7, <3>1
    <3>2. CASE i # n
      <4>1. i \in 1 .. n - 1
        BY <1>2, <3>2
      <4> QED  BY <1>1, <1>2, <4>1 DEF Kept, Short
    <3> QED  BY <3>1, <3>2
  <2> QED  BY <1>2, <2>1 DEF Short
<1> QED  BY <1>9, <1>10, <1>11, <1>12 DEF Kept, g

(* So an output keeps its promises when a record is written to it. *)
LEMMA LoggedKept ==
  ASSUME NEW f \in Output, NEW rs \in Seq(Record), Len(rs) <= 1,
         NEW good \in BOOLEAN, f.open, Kept(f)
  PROVE  Kept(Logged(f, rs, good)) /\ Logged(f, rs, good).files # <<>>
<1>1. f.files # <<>> /\ Len(f.files) \in Nat
  BY FilesType DEF Kept, Current
<1>2. CASE Rotates(f) /\ good = FALSE
  BY <1>1, <1>2, FailsKept, LoggedFails
<1>3. CASE Rotates(f) /\ good = TRUE
  <2>1. Logged(f, rs, TRUE).files # <<>>
    <3> DEFINE g == Logged(f, rs, TRUE)
    <3> HIDE DEF g
    <3>1. Len(g.files) = Len(f.files) + 1
      BY <1>3, LoggedRotates DEF g
    <3>2. g.files # <<>>
      BY <1>1, <3>1
    <3> QED  BY <3>2 DEF g
  <2> QED  BY <1>3, <2>1, RotatesKept
<1>4. CASE ~Rotates(f)
  <2>1. Len(f.files) # 0
    BY <1>1, FilesType
  <2>2. Logged(f, rs, good).files # <<>>
    BY <1>1, <1>4, <2>1, LoggedAppends
  <2> QED  BY <1>4, <2>2, AppendsKept
<1> QED  BY <1>2, <1>3, <1>4

(* The records of an output stay where they are, and the new one is the last of
   the last file.                                                           *)
LEMMA LoggedPlaces ==
  ASSUME NEW f \in Output, NEW r \in Record, NEW good \in BOOLEAN, f.files # <<>>,
         NEW i \in DOMAIN Logged(f, <<r>>, good).files,
         NEW k \in DOMAIN Logged(f, <<r>>, good).files[i].records
  PROVE  LET g == Logged(f, <<r>>, good)
         IN  \/ /\ i \in DOMAIN f.files
                /\ k \in DOMAIN f.files[i].records
                /\ g.files[i].records[k] = f.files[i].records[k]
             \/ /\ i = Len(g.files)
                /\ k = Len(g.files[i].records)
                /\ g.files[i].records[k] = r
<1> DEFINE g == Logged(f, <<r>>, good)
           n == Len(f.files)
           rs == <<r>>
<1>1. rs \in Seq(Record)
  OBVIOUS
<1>2. f.files \in Seq(File) /\ n \in Nat \ {0} /\ DOMAIN f.files = 1 .. n
  BY FilesType
<1> SUFFICES \/ /\ i \in DOMAIN f.files
                /\ k \in DOMAIN f.files[i].records
                /\ g.files[i].records[k] = f.files[i].records[k]
             \/ /\ i = Len(g.files)
                /\ k = Len(g.files[i].records)
                /\ g.files[i].records[k] = r
  OBVIOUS
<1>3. g = Logged(f, rs, good) /\ i \in DOMAIN g.files /\ k \in DOMAIN g.files[i].records
  OBVIOUS
<1>4. DOMAIN rs = {1} /\ rs[1] = r /\ Len(rs) = 1
  OBVIOUS
<1> HIDE DEF g, rs
<1>5. CASE Rotates(f) /\ good = FALSE
  BY <1>3, <1>5, LoggedFails
<1>6. CASE Rotates(f) /\ good = TRUE
  <2>1. /\ g \in Output
        /\ Len(g.files) = n + 1
        /\ \A h \in 1 .. n : g.files[h] = f.files[h]
        /\ g.files[n + 1].records = rs
    <3>1. g = Logged(f, rs, TRUE)
      BY <1>3, <1>6
    <3>2. LET q == Logged(f, rs, TRUE)
          IN  /\ q \in Output
              /\ Len(q.files) = n + 1
              /\ \A h \in 1 .. n : q.files[h] = f.files[h]
              /\ q.files[n + 1].records = rs
      BY <1>1, <1>6, LoggedRotates
    <3> QED  BY <3>1, <3>2
  <2>2. i \in 1 .. n + 1
    BY <1>3, <2>1, FilesType
  <2>3. CASE i = n + 1
    BY <1>3, <1>4, <2>1, <2>3
  <2>4. CASE i # n + 1
    BY <1>2, <1>3, <2>1, <2>2, <2>4
  <2> QED  BY <2>3, <2>4
<1>7. CASE ~Rotates(f)
  <2>1. /\ g \in Output
        /\ Len(g.files) = n
        /\ \A h \in 1 .. n - 1 : g.files[h] = f.files[h]
        /\ g.files[n].records = f.files[n].records \o rs
    BY <1>1, <1>3, <1>7, LoggedAppends
  <2>2. i \in 1 .. n
    BY <1>3, <2>1, FilesType
  <2>3. CASE i = n
    <3> DEFINE a == f.files[n].records
               b == g.files[n].records
    <3>1. a \in Seq(Record) /\ b = a \o rs
      <4>1. n \in 1 .. n
        BY <1>2
      <4> QED  BY <2>1, <4>1, FilesType
    <3>2. k \in DOMAIN b
      BY <1>3, <2>3
    <3> HIDE DEF a, b
    <3>3. /\ DOMAIN b = 1 .. Len(a) + 1
          /\ Len(b) = Len(a) + 1
          /\ DOMAIN a = 1 .. Len(a)
          /\ Len(a) \in Nat
          /\ \A h \in 1 .. Len(a) : b[h] = a[h]
          /\ b[Len(a) + 1] = rs[1]
      BY <3>1 DEF rs
    <3>4. (k \in DOMAIN a /\ b[k] = a[k]) \/ (k = Len(b) /\ b[k] = r)
      BY <1>4, <3>2, <3>3
    <3> QED  BY <1>2, <2>1, <2>2, <2>3, <3>4 DEF a, b
  <2>4. CASE i # n
    <3>1. i \in 1 .. n - 1
      BY <1>2, <2>2, <2>4
    <3> QED  BY <1>2, <1>3, <2>1, <2>2, <3>1
  <2> QED  BY <2>3, <2>4
<1> QED  BY <1>5, <1>6, <1>7

(* What one SvcWrite does to an output: it is not concerned, or it is open and
   gets the record.                                                         *)
LEMMA WriteCases ==
  ASSUME IInv, SvcWrite, NEW o \in 0 .. MAX_LOGLVL
  PROVE  /\ outputs[o] \in Output
         /\ Kept(outputs[o])
         /\ RecordOf(svcMsg) \in Record
         /\ \/ outputs'[o] = outputs[o]
            \/ /\ Belongs(o, level[svcMsg])
               /\ outputs[o].open
               /\ outputs[o].files # <<>>
               /\ \E good \in BOOLEAN :
                    outputs'[o] = Logged(outputs[o], <<RecordOf(svcMsg)>>, good)
<1>0. TypeOK /\ Texts /\ Files /\ svc = "write"
  BY DEF IInv, SvcWrite, SvcGoes
<1>1. /\ svcMsg \in Messages
      /\ text[svcMsg] = <<RecordOf(svcMsg)>>
      /\ RecordOf(svcMsg) \in Record
  BY <1>0, ServiceAlone, CarriedType DEF Texts
<1>2. /\ outputs \in [0 .. MAX_LOGLVL -> Output]
      /\ outputs[o] \in Output
      /\ Kept(outputs[o])
  BY <1>0 DEF TypeOK, Files
<1>3. PICK failing \in SUBSET {x \in Due : Rotates(outputs[x])} :
        outputs' = [x \in DOMAIN outputs |->
                      IF x \in Due THEN Logged(outputs[x], text[svcMsg], x \notin failing)
                      ELSE outputs[x]]
  BY DEF SvcWrite
<1>4. CASE o \notin Due
  BY <1>1, <1>2, <1>3, <1>4
<1>5. CASE o \in Due
  <2>1. outputs[o].open
    <3>1. outputs[o].open \/ Rotates(outputs[o])
      BY <1>5 DEF SvcWrite, WritesToNull
    <3>2. ASSUME ~outputs[o].open PROVE ~Rotates(outputs[o])
      <4>1. outputs[o].recordCounter = 0
        BY <1>2, <3>2 DEF Kept, Current
      <4>2. recordCount \in Nat \ {0}
        BY LogPoolAssumption
      <4> QED  BY <4>1, <4>2 DEF Rotates
    <3> QED  BY <3>1, <3>2
  <2>2. outputs[o].files # <<>>
    BY <1>2, <2>1 DEF Kept, Current
  <2>3. (o \notin failing) \in BOOLEAN
    OBVIOUS
  <2>4. outputs'[o] = Logged(outputs[o], <<RecordOf(svcMsg)>>, o \notin failing)
    BY <1>1, <1>2, <1>3, <1>5
  <2>5. Belongs(o, level[svcMsg])
    BY <1>5 DEF Due
  <2> QED  BY <1>1, <1>2, <2>1, <2>2, <2>3, <2>4, <2>5
<1> QED  BY <1>4, <1>5

(* Every output keeps its promises. *)
LEMMA FilesStep ==
  ASSUME IInv, Next
  PROVE  Files'
<1>0. Files
  BY DEF IInv
<1>1. CASE SvcWrite
  <2>1. ASSUME NEW o \in 0 .. MAX_LOGLVL
        PROVE  Kept(outputs'[o]) /\ (Opened(o) => outputs'[o].files # <<>>)
    <3>1. CASE outputs'[o] = outputs[o]
      BY <1>0, <3>1 DEF Files
    <3>2. CASE outputs'[o] # outputs[o]
      <4>1. PICK good \in BOOLEAN :
              outputs'[o] = Logged(outputs[o], <<RecordOf(svcMsg)>>, good)
        BY <1>1, <3>2, WriteCases
      <4>2. outputs[o] \in Output /\ Kept(outputs[o]) /\ outputs[o].open
            /\ RecordOf(svcMsg) \in Record
        BY <1>1, <3>2, WriteCases
      <4> DEFINE rs == <<RecordOf(svcMsg)>>
      <4>3. rs \in Seq(Record) /\ Len(rs) <= 1
        BY <4>2
      <4> HIDE DEF rs
      <4>4. outputs'[o] = Logged(outputs[o], rs, good)
        BY <4>1 DEF rs
      <4>5. Kept(Logged(outputs[o], rs, good)) /\ Logged(outputs[o], rs, good).files # <<>>
        BY <4>2, <4>3, LoggedKept
      <4> QED  BY <4>4, <4>5
    <3> QED  BY <3>1, <3>2
  <2> QED  BY <2>1 DEF Files
<1>2. CASE ~SvcWrite
  <2>1. outputs' = outputs
    BY <1>2 DEF Next, Log, GetLogMsg, PoolWait, PoolPop, Fill, Enqueue, SignalNew, Svc,
       SvcCheck, SvcWait, SvcDequeue, SvcCrash, SvcClear, SvcPush, SvcSignal, Close
  <2> QED  BY <1>0, <2>1 DEF Files
<1> QED  BY <1>1, <1>2

-----------------------------------------------------------------------------
(* The files keep the order of the queue *)

(* What is written to a file are records. *)
LEMMA WrittenType ==
  ASSUME NEW f \in Output, NEW i \in DOMAIN f.files, NEW k \in DOMAIN f.files[i].records
  PROVE  f.files[i].records[k] \in Record
<1>1. f.files[i].records \in Seq(Record)
  BY FilesType
<1> QED  BY <1>1

(* A record that is older than what is queued or being written stays so. *)
LEMMA NewerStep ==
  ASSUME IInv, Next, NEW r \in Record, Past(r),
         \A m \in ToSet(queue) : Newer(r, RecordOf(m)),
         svc = "write" /\ ~SvcWrite => Newer(r, RecordOf(svcMsg))
  PROVE  /\ Past(r)'
         /\ \A m \in ToSet(queue') : Newer(r, RecordOf(m)')
         /\ svc' = "write" => Newer(r, RecordOf(svcMsg)')
<1>0. queue \in Seq(Messages)
  BY DEF IInv, TypeOK
<1>1. Past(r)'
  BY PastStep
<1>2. ASSUME NEW m \in ToSet(queue')
      PROVE  Newer(r, RecordOf(m)')
  <2>1. CASE m \in ToSet(queue)
    <3>1. RecordOf(m)' = RecordOf(m)
      BY <2>1, ShelfKept DEF RecordOf
    <3> QED  BY <2>1, <3>1
  <2>2. CASE \E t \in Threads : Enqueue(t) /\ m = msg[t]
    <3>1. PICK t \in Threads : Enqueue(t) /\ m = msg[t]
      BY <2>2
    <3>2. pc[t] = "put" /\ text' = text
      BY <3>1 DEF Enqueue, Goes
    <3> QED  BY <3>1, <3>2, FilledIsNewer DEF RecordOf
  <2> QED  BY <2>1, <2>2, QueueGrows
<1>3. ASSUME svc' = "write"
      PROVE  Newer(r, RecordOf(svcMsg)')
  <2>1. CASE SvcDequeue
    <3>1. queue # <<>> /\ svcMsg' = Head(queue) /\ text' = text
      BY <1>3, <2>1 DEF SvcDequeue, SvcGoes
    <3>2. Head(queue) \in ToSet(queue)
      BY <1>0, <3>1, TailFacts
    <3> QED  BY <3>1, <3>2 DEF RecordOf
  <2>2. CASE ~SvcDequeue
    <3>1. svc = "write" /\ RecordOf(svcMsg)' = RecordOf(svcMsg)
      BY <1>3, <2>2, WriteKept DEF RecordOf
    <3>2. ~SvcWrite
      BY <1>3 DEF SvcWrite, SvcGoes
    <3> QED  BY <3>1, <3>2
  <2> QED  BY <2>1, <2>2
<1> QED  BY <1>1, <1>2, <1>3

(* Where the records of an output come from, after any step. *)
LEMMA PlacesStep ==
  ASSUME IInv, Next, NEW o \in 0 .. MAX_LOGLVL,
         NEW i \in DOMAIN outputs'[o].files,
         NEW k \in DOMAIN outputs'[o].files[i].records
  PROVE  \/ /\ i \in DOMAIN outputs[o].files
            /\ k \in DOMAIN outputs[o].files[i].records
            /\ outputs'[o].files[i].records[k] = outputs[o].files[i].records[k]
         \/ /\ SvcWrite
            /\ Belongs(o, level[svcMsg])
            /\ i = Len(outputs'[o].files)
            /\ k = Len(outputs'[o].files[i].records)
            /\ outputs'[o].files[i].records[k] = RecordOf(svcMsg)
<1>1. CASE outputs'[o] = outputs[o]
  BY <1>1
<1>2. CASE outputs'[o] # outputs[o]
  <2>1. SvcWrite
    BY <1>2 DEF Next, Log, GetLogMsg, PoolWait, PoolPop, Fill, Enqueue, SignalNew, Svc,
       SvcCheck, SvcWait, SvcDequeue, SvcCrash, SvcClear, SvcPush, SvcSignal, Close
  <2>2. /\ outputs[o] \in Output
        /\ RecordOf(svcMsg) \in Record
        /\ Belongs(o, level[svcMsg])
        /\ outputs[o].files # <<>>
    BY <1>2, <2>1, WriteCases
  <2>3. PICK good \in BOOLEAN :
          outputs'[o] = Logged(outputs[o], <<RecordOf(svcMsg)>>, good)
    BY <1>2, <2>1, WriteCases
  <2>4. i \in DOMAIN Logged(outputs[o], <<RecordOf(svcMsg)>>, good).files
        /\ k \in DOMAIN Logged(outputs[o], <<RecordOf(svcMsg)>>, good).files[i].records
    BY <2>3
  <2> DEFINE g == Logged(outputs[o], <<RecordOf(svcMsg)>>, good)
  <2>5. \/ /\ i \in DOMAIN outputs[o].files
           /\ k \in DOMAIN outputs[o].files[i].records
           /\ g.files[i].records[k] = outputs[o].files[i].records[k]
        \/ /\ i = Len(g.files)
           /\ k = Len(g.files[i].records)
           /\ g.files[i].records[k] = RecordOf(svcMsg)
    BY <2>2, <2>4, LoggedPlaces
  <2>6. outputs'[o] = g
    BY <2>3
  <2> HIDE DEF g
  <2> QED  BY <2>1, <2>2, <2>5, <2>6
<1> QED  BY <1>1, <1>2

(* What is written is older than what is not yet. *)
LEMMA WrittenStep ==
  ASSUME IInv, Next
  PROVE  Written'
<1>0. TypeOK /\ Texts /\ Queued /\ Written
  BY DEF IInv
<1> DEFINE PastThen(r) ==
             /\ r[2] <= logged'[r[1]]
             /\ pc'[r[1]] \notin {"idle", "signal"} => r[2] < logged'[r[1]]
<1> SUFFICES ASSUME NEW o \in 0 .. MAX_LOGLVL,
                    NEW i \in DOMAIN outputs'[o].files,
                    NEW k \in DOMAIN outputs'[o].files[i].records
             PROVE  LET r == outputs'[o].files[i].records[k]
                    IN  /\ PastThen(r)
                        /\ \A m \in ToSet(queue') : Newer(r, RecordOf(m)')
                        /\ svc' = "write" => Newer(r, RecordOf(svcMsg)')
  BY DEF Written, Newer, Past
<1>1. outputs[o] \in Output
  BY <1>0 DEF TypeOK
<1> DEFINE r == outputs'[o].files[i].records[k]
<1>2. /\ r \in Record
      /\ Past(r)
      /\ \A m \in ToSet(queue) : Newer(r, RecordOf(m))
      /\ svc = "write" /\ ~SvcWrite => Newer(r, RecordOf(svcMsg))
  <2>1. CASE /\ i \in DOMAIN outputs[o].files
             /\ k \in DOMAIN outputs[o].files[i].records
             /\ r = outputs[o].files[i].records[k]
    <3>1. r \in Record
      BY <1>1, <2>1, WrittenType
    <3> QED  BY <1>0, <2>1, <3>1 DEF Written
  <2>2. CASE SvcWrite /\ r = RecordOf(svcMsg)
    <3>1. svc = "write"
      BY <2>2 DEF SvcWrite, SvcGoes
    <3>2. svcMsg \in Messages /\ Carries(svcMsg) /\ Past(RecordOf(svcMsg))
      BY <1>0, <3>1, ServiceAlone DEF Texts
    <3>3. RecordOf(svcMsg) \in Record
      BY <1>0, <3>2, CarriedType
    <3> QED  BY <1>0, <2>2, <3>1, <3>2, <3>3 DEF Queued
  <2> QED  BY <2>1, <2>2, PlacesStep
<1> HIDE DEF r
<1>3. /\ PastThen(r)
      /\ \A m \in ToSet(queue') : Newer(r, RecordOf(m)')
      /\ svc' = "write" => Newer(r, RecordOf(svcMsg)')
  <2>1. PICK s \in Record : s = r
    BY <1>2
  <2>2. /\ Past(s)'
        /\ \A m \in ToSet(queue') : Newer(s, RecordOf(m)')
        /\ svc' = "write" => Newer(s, RecordOf(svcMsg)')
    BY <1>2, <2>1, NewerStep
  <2> QED  BY <2>1, <2>2 DEF Past
<1> QED  BY <1>3 DEF r

(* So a new record follows the older ones of its thread. *)
LEMMA OrderStep ==
  ASSUME IInv, Next
  PROVE  LogInOrder'
<1>0. TypeOK /\ Texts /\ Written /\ LogInOrder
  BY DEF IInv
<1>1. TypeOK'
  BY LogType, SvcType DEF Next
<1>2. DOMAIN outputs = 0 .. MAX_LOGLVL /\ DOMAIN outputs' = 0 .. MAX_LOGLVL
  BY <1>0, <1>1 DEF TypeOK
<1>3. ASSUME NEW o \in 0 .. MAX_LOGLVL,
             NEW i \in DOMAIN outputs'[o].files, NEW j \in DOMAIN outputs'[o].files,
             NEW k \in DOMAIN outputs'[o].files[i].records,
             NEW l \in DOMAIN outputs'[o].files[j].records
      PROVE  LET r == outputs'[o].files[i].records[k]
                 s == outputs'[o].files[j].records[l]
             IN  /\ Belongs(o, r[3])
                 /\ r[1] = s[1] /\ (i < j \/ (i = j /\ k < l)) => r[2] < s[2]
  <2> DEFINE r == outputs'[o].files[i].records[k]
             s == outputs'[o].files[j].records[l]
             Old(h, n, x) == /\ h \in DOMAIN outputs[o].files
                             /\ n \in DOMAIN outputs[o].files[h].records
                             /\ x = outputs[o].files[h].records[n]
             New(h, n, x) == /\ SvcWrite
                             /\ Belongs(o, level[svcMsg])
                             /\ h = Len(outputs'[o].files)
                             /\ n = Len(outputs'[o].files[h].records)
                             /\ x = RecordOf(svcMsg)
  <2>1. Old(i, k, r) \/ New(i, k, r)
    BY PlacesStep
  <2>2. Old(j, l, s) \/ New(j, l, s)
    BY PlacesStep
  <2>3. outputs'[o] \in Output
    BY <1>1 DEF TypeOK
  <2>4. /\ DOMAIN outputs'[o].files = 1 .. Len(outputs'[o].files)
        /\ Len(outputs'[o].files) \in Nat
    BY <2>3, FilesType
  <2>5. ASSUME NEW h \in DOMAIN outputs'[o].files
        PROVE  /\ DOMAIN outputs'[o].files[h].records = 1 .. Len(outputs'[o].files[h].records)
               /\ Len(outputs'[o].files[h].records) \in Nat
    <3>1. outputs'[o].files[h].records \in Seq(Record)
      BY <2>3, <2>4, FilesType
    <3> QED  BY <3>1
  <2> HIDE DEF r, s
  <2>6. Belongs(o, r[3])
    <3>1. CASE Old(i, k, r)
      BY <1>0, <1>2, <3>1 DEF LogInOrder
    <3>2. CASE New(i, k, r)
      <4>1. Carries(svcMsg)
        BY <1>0, <3>2 DEF Texts, SvcWrite, SvcGoes
      <4> QED  BY <3>2, <4>1 DEF Carries, RecordOf
    <3> QED  BY <2>1, <3>1, <3>2
  <2>7. ASSUME r[1] = s[1], i < j \/ (i = j /\ k < l)
        PROVE  r[2] < s[2]
    <3>1. Old(i, k, r)
      <4>1. CASE New(i, k, r)
        <5>1. ~(i < j)
          BY <2>4, <4>1
        <5>2. i = j => ~(k < l)
          BY <2>4, <2>5, <4>1
        <5> QED  BY <2>7, <5>1, <5>2
      <4> QED  BY <2>1, <4>1
    <3>2. CASE Old(j, l, s)
      BY <1>0, <1>2, <2>7, <3>1, <3>2 DEF LogInOrder
    <3>3. CASE New(j, l, s)
      <4>1. svc = "write"
        BY <3>3 DEF SvcWrite, SvcGoes
      <4>2. Newer(r, RecordOf(svcMsg))
        BY <1>0, <3>1, <4>1 DEF Written
      <4> QED  BY <2>7, <3>3, <4>2 DEF Newer
    <3> QED  BY <2>2, <3>2, <3>3
  <2> QED  BY <2>6, <2>7 DEF r, s
<1> QED  BY <1>2, <1>3 DEF LogInOrder

-----------------------------------------------------------------------------
(* At the start *)

(* A row of as many messages as there are, none twice, has them all. *)
LEMMA FullPool ==
  ASSUME NEW q \in [1 .. Cardinality(Messages) -> Messages],
         \A i, j \in DOMAIN q : q[i] = q[j] => i = j
  PROVE  /\ q \in Seq(Messages)
         /\ Len(q) = Cardinality(Messages)
         /\ Cardinality(Messages) \in Nat
         /\ Distinct(q)
         /\ ToSet(q) = Messages
<1> DEFINE n == Cardinality(Messages)
<1>1. IsFiniteSet(Messages) /\ n \in Nat
  BY LogPoolAssumption, FS_CardinalityType
<1> HIDE DEF n
<1>2. q \in [1 .. n -> Messages]
  BY DEF n
<1>3. q \in Seq(Messages) /\ Len(q) = n /\ DOMAIN q = 1 .. n
  BY <1>1, <1>2
<1>4. Distinct(q)
  BY <1>3 DEF Distinct
<1>5. IsFiniteSet(1 .. n) /\ Cardinality(1 .. n) = n
  BY <1>1, FS_Interval
<1>6. ToSet(q) \in SUBSET Messages
  BY <1>3 DEF ToSet
<1>7. Cardinality(ToSet(q)) = n
  <2>1. q \in Bijection(1 .. n, ToSet(q))
    <3>1. q \in [1 .. n -> ToSet(q)]
      BY <1>2, <1>3 DEF ToSet
    <3>2. \A i, j \in 1 .. n : q[i] = q[j] => i = j
      BY <1>3
    <3>3. \A m \in ToSet(q) : \E i \in 1 .. n : q[i] = m
      BY <1>3 DEF ToSet
    <3> QED  BY <3>1, <3>2, <3>3, Zenon DEF Bijection, Injection, Surjection, IsInjective
  <2>2. ExistsBijection(1 .. n, ToSet(q))
    BY <2>1 DEF ExistsBijection
  <2> QED  BY <1>5, <2>2, FS_Bijection
<1>8. ToSet(q) = Messages
  BY <1>1, <1>6, <1>7, FS_Subset DEF n
<1> QED  BY <1>1, <1>3, <1>4, <1>8 DEF n

(* A file that has just been opened. *)
LEMMA FirstFile ==
  /\ Closed \in Output /\ Kept(Closed) /\ Closed.files = <<>>
  /\ LET f == openFS(Closed, TRUE)
     IN  /\ f \in Output
         /\ Kept(f)
         /\ f.files # <<>>
         /\ \A i \in DOMAIN f.files : f.files[i].records = <<>>
<1>1. MaxFile \in Nat /\ recordCount \in Nat
  BY LogPoolAssumption
<1>2. Closed \in Output /\ Closed.files = <<>>
  <2>1. FALSE \in BOOLEAN /\ 0 \in 0 .. MaxFile + 1 /\ 0 \in 0 .. recordCount
        /\ <<>> \in Seq(File)
    BY <1>1
  <2> QED  BY <2>1, OutputMade DEF Closed
<1>3. Kept(Closed)
  BY DEF Closed, Kept, Current, Spread, Recycled, Short
<1> DEFINE new == [number |-> 0, records |-> <<>>]
           f == openFS(Closed, TRUE)
<1>4. new \in File /\ new.number = 0 /\ new.records = <<>> /\ Len(new.records) = 0
  BY <1>1 DEF File
<1> DEFINE q == Append(<<>>, new)
<1>5. f = [open |-> TRUE, fileCounter |-> 1, recordCounter |-> 0, files |-> q]
  <2>1. 0 + 1 = 1
    OBVIOUS
  <2> QED  BY <2>1 DEF openFS, Closed
<1> HIDE DEF new
<1>6. q \in Seq(File) /\ Len(q) \in 1 .. 1 /\ DOMAIN q = {1} /\ q[1] = new
  BY <1>4
<1> HIDE DEF q, f
<1>7. /\ f \in Output /\ f.open = TRUE /\ f.fileCounter = 1 /\ f.recordCounter = 0
      /\ f.files = q
  <2>1. TRUE \in BOOLEAN /\ 1 \in 0 .. MaxFile + 1 /\ 0 \in 0 .. recordCount
    BY <1>1
  <2> QED  BY <1>5, <1>6, <2>1, OutputMade
<1>8. q # <<>> /\ LastFile(f) = new
  <2>1. q # <<>> /\ \A i \in 1 .. 1 : q[i] = new
    BY <1>6
  <2>2. q[Len(q)] = new
    BY <1>6, <2>1
  <2> QED  BY <1>7, <2>1, <2>2 DEF LastFile
<1>9. Kept(f)
  <2>1. Current(f)
    BY <1>4, <1>7, <1>8 DEF Current
  <2>2. Spread(f)
    BY <1>4, <1>6, <1>7, <1>8 DEF Spread
  <2>3. Recycled(f) /\ Short(f)
    BY <1>1, <1>4, <1>6, <1>7 DEF Recycled, Short
  <2> QED  BY <2>1, <2>2, <2>3 DEF Kept
<1>10. f.files # <<>> /\ \A i \in DOMAIN f.files : f.files[i].records = <<>>
  BY <1>4, <1>6, <1>7, <1>8
<1> QED  BY <1>2, <1>3, <1>7, <1>9, <1>10 DEF f

(* The invariant holds when the service thread starts. *)
LEMMA InitIInv ==
  ASSUME Init
  PROVE  IInv
<1> USE DEF Init
<1>1. /\ pool \in Seq(Messages)
      /\ Len(pool) = Cardinality(Messages)
      /\ Cardinality(Messages) \in Nat
      /\ Distinct(pool)
      /\ ToSet(pool) = Messages
  BY FullPool
<1>2. queue \in Seq(Messages) /\ Len(queue) = 0 /\ ToSet(queue) = {} /\ Distinct(queue)
  <2>1. queue \in Seq(Messages) /\ Len(queue) = 0 /\ DOMAIN queue = {}
    OBVIOUS
  <2> QED  BY <2>1 DEF ToSet, Distinct
<1>3. /\ MAX_LOGLVL \in Nat \ {0} /\ MaxRecords \in Nat
      /\ Null \notin Messages
  BY LogPoolAssumption
<1>4. ASSUME NEW o \in 0 .. MAX_LOGLVL
      PROVE  /\ outputs[o] \in Output
             /\ Kept(outputs[o])
             /\ Opened(o) => outputs[o].files # <<>>
             /\ \A i \in DOMAIN outputs[o].files : outputs[o].files[i].records = <<>>
  <2>1. CASE Opened(o)
    <3>1. outputs[o] = openFS(Closed, TRUE)
      BY <2>1
    <3> QED  BY <3>1, FirstFile
  <2>2. CASE ~Opened(o)
    <3>1. outputs[o] = Closed
      BY <2>2
    <3> QED  BY <2>2, <3>1, FirstFile
  <2> QED  BY <2>1, <2>2
<1>5. outputs \in [0 .. MAX_LOGLVL -> Output] /\ DOMAIN outputs = 0 .. MAX_LOGLVL
  <2>1. outputs = [o \in 0 .. MAX_LOGLVL |-> outputs[o]]
    OBVIOUS
  <2> QED  BY <1>4, <2>1
<1>6. TypeOK
  <2>1. text \in [Messages -> Seq(Record)]
    OBVIOUS
  <2>2. level \in [Messages -> Levels] /\ logged \in [Threads -> 0 .. MaxRecords]
    BY <1>3 DEF Levels
  <2>3. active \in BOOLEAN
    OBVIOUS
  <2>4. /\ pc \in [Threads -> {"idle", "wait", "pop", "fill", "put", "signal"}]
        /\ msg \in [Threads -> Messages \cup {Null}]
        /\ svc \in {"check", "wait", "dequeue", "write", "clear", "push", "signal",
                    "done", "crashed"}
        /\ svcMsg \in Messages \cup {Null}
        /\ newMsg \in Nat
    OBVIOUS
  <2>5. sema \in Nat
    BY <1>1
  <2> QED  BY <1>1, <1>2, <1>5, <2>1, <2>2, <2>3, <2>4, <2>5 DEF TypeOK
<1>7. Owners
  BY <1>1, <1>2, <1>3 DEF Owners
<1>8. Holding
  BY DEF Holding
<1>9. Counted
  <2>1. At("pop") = {} /\ At("signal") = {}
    BY DEF At
  <2>2. Cardinality(At("pop")) = 0 /\ Cardinality(At("signal")) = 0
    BY <2>1, FS_EmptySet
  <2>3. sema = Cardinality(Messages) /\ newMsg = 0 /\ svc = "check"
    OBVIOUS
  <2> QED  BY <1>1, <1>2, <2>2, <2>3 DEF Counted
<1>10. Texts
  <2>1. \A m \in Messages : text[m] = <<>>
    OBVIOUS
  <2>2. \A t \in Threads : pc[t] = "idle"
    OBVIOUS
  <2>3. svc = "check"
    OBVIOUS
  <2> QED  BY <1>1, <1>2, <2>1, <2>2, <2>3 DEF Texts
<1>11. Queued
  BY <1>2 DEF Queued
<1>12. ASSUME NEW o \in 0 .. MAX_LOGLVL, NEW i \in DOMAIN outputs[o].files
       PROVE  DOMAIN outputs[o].files[i].records = {}
  <2>1. DOMAIN <<>> = {}
    OBVIOUS
  <2>2. outputs[o].files[i].records = <<>>
    BY <1>4
  <2> QED  BY <2>1, <2>2
<1>13. Written /\ LogInOrder
  <2>1. Written
    BY <1>12 DEF Written
  <2>2. LogInOrder
    <3> DEFINE rec(o, i, k) == outputs[o].files[i].records[k]
               InOrder(o, i, j, k, l) ==
                 /\ Belongs(o, rec(o, i, k)[3])
                 /\ rec(o, i, k)[1] = rec(o, j, l)[1] /\ (i < j \/ (i = j /\ k < l))
                      => rec(o, i, k)[2] < rec(o, j, l)[2]
    <3>1. ASSUME NEW o \in 0 .. MAX_LOGLVL,
                 NEW i \in DOMAIN outputs[o].files, NEW j \in DOMAIN outputs[o].files,
                 NEW k \in DOMAIN outputs[o].files[i].records,
                 NEW l \in DOMAIN outputs[o].files[j].records
          PROVE  InOrder(o, i, j, k, l)
      BY <1>12
    <3> QED  BY <1>5, <3>1 DEF LogInOrder
  <2> QED  BY <2>1, <2>2
<1>14. Files
  BY <1>4 DEF Files
<1> QED  BY <1>6, <1>7, <1>8, <1>9, <1>10, <1>11, <1>13, <1>14 DEF IInv

(* Every step keeps it. *)
LEMMA StepIInv ==
  ASSUME IInv, [Next]_vars
  PROVE  IInv'
<1>1. CASE Next
  <2>1. TypeOK'
    BY <1>1, LogType, SvcType DEF Next
  <2>2. Counted'
    BY <1>1, LogCounted, SvcCounted DEF Next
  <2> QED  BY <1>1, <2>1, <2>2, OwnersStep, HoldingStep, TextsStep, QueuedStep, WrittenStep,
              OrderStep, FilesStep DEF IInv
<1>2. CASE UNCHANGED vars
  <2> USE DEF vars, poolVars, queueVars, threadVars, svcVars
  <2>0. IInv
    OBVIOUS
  <2>1. TypeOK' /\ Owners' /\ Holding'
    BY <1>2 DEF IInv, TypeOK, Owners, Holding
  <2>2. Counted'
    BY <1>2, CountedSame DEF IInv
  <2>3. Texts' /\ Queued'
    BY <1>2 DEF IInv, Texts, Queued, Carries, RecordOf, Past
  <2>4. Written'
    BY <1>2 DEF IInv, Written, RecordOf, Past
  <2>5. LogInOrder' /\ Files'
    BY <1>2 DEF IInv, LogInOrder, Files
  <2> QED  BY <2>1, <2>2, <2>3, <2>4, <2>5 DEF IInv
<1> QED  BY <1>1, <1>2

(* So it always holds. *)
THEOREM Invariance == Spec => []IInv
BY InitIInv, StepIInv, PTL DEF Spec

-----------------------------------------------------------------------------
(* What the invariant promises *)

(* In a row without repetition a message occurs once or not at all. *)
LEMMA OccursOnce ==
  ASSUME NEW q \in Seq(Messages), Distinct(q), NEW m
  PROVE  Occurrences(m, q) = IF m \in ToSet(q) THEN 1 ELSE 0
<1>1. DOMAIN q = 1 .. Len(q)
  OBVIOUS
<1>2. CASE m \in ToSet(q)
  <2>1. PICK i \in 1 .. Len(q) : q[i] = m
    BY <1>1, <1>2 DEF ToSet
  <2>2. {j \in DOMAIN q : q[j] = m} = {i}
    BY <1>1, <2>1 DEF Distinct
  <2>3. Cardinality({i}) = 1
    BY FS_Singleton
  <2> QED  BY <1>2, <2>2, <2>3 DEF Occurrences
<1>3. CASE m \notin ToSet(q)
  <2>1. {j \in DOMAIN q : q[j] = m} = {}
    BY <1>3 DEF ToSet
  <2>2. Cardinality({}) = 0
    BY FS_EmptySet
  <2> QED  BY <1>3, <2>1, <2>2 DEF Occurrences
<1> QED  BY <1>2, <1>3

(* So does a message among the threads that hold one. *)
LEMMA HeldOnce ==
  ASSUME Owners, NEW m \in Messages, m # Null
  PROVE  Cardinality({t \in Threads : msg[t] = m})
           = IF \E t \in Threads : msg[t] = m THEN 1 ELSE 0
<1>1. CASE \E t \in Threads : msg[t] = m
  <2>1. PICK t \in Threads : msg[t] = m
    BY <1>1
  <2>2. {u \in Threads : msg[u] = m} = {t}
    BY <2>1 DEF Owners
  <2>3. Cardinality({t}) = 1
    BY FS_Singleton
  <2> QED  BY <1>1, <2>2, <2>3
<1>2. CASE ~(\E t \in Threads : msg[t] = m)
  <2>1. {t \in Threads : msg[t] = m} = {}
    BY <1>2
  <2>2. Cardinality({}) = 0
    BY FS_EmptySet
  <2> QED  BY <1>2, <2>1, <2>2
<1> QED  BY <1>1, <1>2

(* The types of the variables. *)
THEOREM TypeCorrect == Spec => []TypeOK
<1>1. IInv => TypeOK
  BY DEF IInv
<1> QED  BY <1>1, Invariance, PTL

(* No LogMessage is in two hands or lost, however the threads that log and the
   service thread interleave (getLogMsg, putLogMsg, svc).                   *)
THEOREM OneOwnerHolds == Spec => []OneOwner
<1>1. ASSUME IInv PROVE OneOwner
  <2>1. TypeOK /\ Owners
    BY <1>1 DEF IInv
  <2>2. ASSUME NEW m \in Messages
        PROVE  Occurrences(m, pool) + Occurrences(m, queue)
                 + Cardinality({t \in Threads : msg[t] = m})
                 + (IF svcMsg = m THEN 1 ELSE 0) = 1
    <3> DEFINE held == \E t \in Threads : msg[t] = m
    <3>1. m # Null
      BY LogPoolAssumption
    <3>2. Occurrences(m, pool) = IF m \in ToSet(pool) THEN 1 ELSE 0
      BY <2>1, OccursOnce DEF TypeOK, Owners
    <3>3. Occurrences(m, queue) = IF m \in ToSet(queue) THEN 1 ELSE 0
      BY <2>1, OccursOnce DEF TypeOK, Owners
    <3>4. Cardinality({t \in Threads : msg[t] = m}) = IF held THEN 1 ELSE 0
      BY <2>1, <3>1, HeldOnce
    <3>5. /\ m \in ToSet(pool) => m \notin ToSet(queue)
          /\ held => m \notin ToSet(pool) \cup ToSet(queue) \cup {svcMsg}
          /\ svcMsg = m => m \notin ToSet(pool) \cup ToSet(queue)
          /\ m \in ToSet(pool) \cup ToSet(queue) \cup {svcMsg} \/ held
      BY <2>1, <3>1 DEF Owners
    <3> HIDE DEF held
    <3>6. CASE m \in ToSet(pool)
      <4>1. m \notin ToSet(queue) /\ ~held /\ svcMsg # m
        BY <3>5, <3>6
      <4> QED  BY <3>2, <3>3, <3>4, <3>6, <4>1
    <3>7. CASE m \in ToSet(queue)
      <4>1. m \notin ToSet(pool) /\ ~held /\ svcMsg # m
        BY <3>5, <3>7
      <4> QED  BY <3>2, <3>3, <3>4, <3>7, <4>1
    <3>8. CASE svcMsg = m
      <4>1. m \notin ToSet(pool) /\ m \notin ToSet(queue) /\ ~held
        BY <3>5, <3>8
      <4> QED  BY <3>2, <3>3, <3>4, <3>8, <4>1
    <3>9. CASE held
      <4>1. m \notin ToSet(pool) /\ m \notin ToSet(queue) /\ svcMsg # m
        BY <3>5, <3>9
      <4> QED  BY <3>2, <3>3, <3>4, <3>9, <4>1
    <3> QED  BY <3>5, <3>6, <3>7, <3>8, <3>9
  <2> QED  BY <2>2 DEF OneOwner
<1> QED  BY <1>1, Invariance, PTL

(* Neither semaphore promises more than its container has: front() is never
   called on an empty queue while the logger is open (ObjectPool::get, svc). *)
THEOREM PromisesKeptHolds == Spec => []PromisesKept
<1>1. ASSUME IInv PROVE PromisesKept
  <2>1. /\ Counted
        /\ pool \in Seq(Messages) /\ queue \in Seq(Messages)
        /\ sema \in Nat /\ newMsg \in Nat
    BY <1>1 DEF IInv, TypeOK
  <2>2. \A l : Cardinality(At(l)) \in Nat
    <3>1. ASSUME NEW l PROVE Cardinality(At(l)) \in Nat
      BY LogPoolAssumption, FS_Subset, FS_CardinalityType DEF At
    <3> QED  BY <3>1
  <2>3. Len(pool) >= Cardinality(At("pop"))
    <3>1. Len(pool) \in Nat /\ Cardinality(At("pop")) \in Nat
      BY <2>1, <2>2
    <3> QED  BY <2>1, <3>1 DEF Counted
  <2>4. ASSUME svc = "dequeue" PROVE queue # <<>>
    <3>1. Len(queue) >= newMsg + Cardinality(At("signal")) + 1
      BY <2>1, <2>4 DEF Counted
    <3>2. Len(queue) # 0
      BY <2>1, <2>2, <3>1
    <3> QED  BY <3>2
  <2> QED  BY <2>3, <2>4 DEF PromisesKept, At
<1> QED  BY <1>1, Invariance, PTL

(* Each output has the records of a thread in the order in which it logged them,
   none twice, and only those of its levels (LogMessage, svc).              *)
THEOREM LogInOrderHolds == Spec => []LogInOrder
<1>1. IInv => LogInOrder
  BY DEF IInv
<1> QED  BY <1>1, Invariance, PTL

(* A file name comes back only after half as many files as there are numbers,
   and no file has more than recordCount + 1 records (openFS, checkCounters). *)
THEOREM FilesKeptHolds == Spec => []FilesKept
<1>1. ASSUME IInv PROVE FilesKept
  <2>1. TypeOK /\ Files
    BY <1>1 DEF IInv
  <2>2. DOMAIN outputs = 0 .. MAX_LOGLVL
    BY <2>1 DEF TypeOK
  <2>3. ASSUME NEW o \in 0 .. MAX_LOGLVL
        PROVE  LET files == outputs[o].files
               IN  /\ \A i \in DOMAIN files : Len(files[i].records) <= recordCount + 1
                   /\ \A i, j \in DOMAIN files :
                        i < j /\ files[i].number = files[j].number
                          => j - i >= (MaxFile + 1) \div 2
    <3>1. Short(outputs[o]) /\ Recycled(outputs[o]) /\ outputs[o] \in Output
      BY <2>1 DEF TypeOK, Files, Kept
    <3>2. DOMAIN outputs[o].files = 1 .. Len(outputs[o].files) /\ Len(outputs[o].files) \in Nat
      BY <3>1, FilesType
    <3>3. MaxFile \in Nat
      BY LogPoolAssumption
    <3>4. ASSUME NEW d \in Int, 2 * d >= MaxFile + 1 PROVE d >= (MaxFile + 1) \div 2
      BY <3>3, <3>4
    <3>5. ASSUME NEW i \in DOMAIN outputs[o].files, NEW j \in DOMAIN outputs[o].files,
                 i < j, outputs[o].files[i].number = outputs[o].files[j].number
          PROVE  j - i >= (MaxFile + 1) \div 2
      <4>1. 2 * (j - i) >= MaxFile + 1
        BY <3>1, <3>5 DEF Recycled
      <4>2. j - i \in Int
        BY <3>2
      <4> QED  BY <3>4, <4>1, <4>2
    <3> QED  BY <3>1, <3>5 DEF Short
  <2> QED  BY <2>2, <2>3 DEF FilesKept
<1> QED  BY <1>1, Invariance, PTL

(* The service thread ends the program only when a file that had been open could
   not be opened again: init() has opened every file that svc() writes to.  *)
THEOREM NullAfterFailureHolds == Spec => []NullAfterFailure
<1>1. ASSUME IInv PROVE NullAfterFailure
  <2>1. TypeOK /\ Files /\ Holding
    BY <1>1 DEF IInv
  <2>2. ASSUME svc = "crashed", NEW o \in Due
        PROVE  outputs[o].files # <<>>
    <3>1. svcMsg \in Messages /\ level[svcMsg] \in Levels
      BY <2>1, <2>2 DEF TypeOK, Holding
    <3>2. o \in 0 .. MAX_LOGLVL /\ Belongs(o, level[svcMsg])
      BY <2>1 DEF TypeOK, Due
    <3>3. Opened(o)
      BY <3>2 DEF Belongs, Opened
    <3> QED  BY <2>1, <3>2, <3>3 DEF Files
  <2> QED  BY <2>2 DEF NullAfterFailure
<1> QED  BY <1>1, Invariance, PTL

=============================================================================
