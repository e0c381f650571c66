--------------------------- MODULE SendQueueProofs ---------------------------
(***************************************************************************)
(* What the send queue guarantees for any number of producers, packets and *)
(* connections and any queue length: it keeps its bound, no wakeup of the  *)
(* send thread is lost, an overload is reported once per connection, and   *)
(* the sockets are given the accepted packets as PacketStream says.        *)
(***************************************************************************)
EXTENDS SendQueue, WellFoundedInduction, FiniteSetTheorems, TLAPS

(* m_unsentPacketsCount, which the polls and the waiter read in place of the
   list, counts the list: a partly sent packet is still one packet.         *)
CountMatches == unsent = Len(lstSendQueue)

(* A send thread that waits for its first signal has registered with an empty
   queue, and the first push after that has a signal on its way.            *)
Waiting ==
  sender = "wait" /\ ~event =>
    \/ havingWaiters /\ lstSendQueue = << >>
    \/ \E p \in Producers : pc[p] = "signal"

IInv ==
  /\ TypeOK
  /\ CountMatches
  /\ Waiting
  /\ OverloadReportedOnce

(* The queue starts empty and nobody waits. *)
LEMMA InitIInv == Init => IInv
<1> SUFFICES ASSUME Init PROVE IInv
  OBVIOUS
<1> USE SendQueueAssumption DEF Init
<1>1. lstSendQueue \in Seq(Queued) /\ Len(lstSendQueue) <= MaxQueueSize
  OBVIOUS
<1>2. pc \in [Producers -> {"idle", "signal", "overload", "report"}]
  OBVIOUS
<1>3. errNo \in [Producers -> 0..MaxQueueSize]
  OBVIOUS
<1>4. havingWaiters \in BOOLEAN /\ event \in BOOLEAN /\ overload \in BOOLEAN
  OBVIOUS
<1>5. TypeOK
  BY <1>1, <1>2, <1>3, <1>4 DEF TypeOK
<1> QED  BY <1>5 DEF IInv, CountMatches, Waiting, OverloadReportedOnce

(* A push keeps the invariant: it is refused by a full queue, and the one that
   finds a registered waiter goes on to signal it.                          *)
LEMMA PushStep ==
  ASSUME IInv, NEW p \in Producers, NEW d \in Packets, Push(p, d)
  PROVE  IInv'
<1> USE SendQueueAssumption
<1> DEFINE e == [packet |-> d, next |-> 1]
<1>0. TypeOK /\ CountMatches /\ Waiting /\ OverloadReportedOnce
  BY DEF IInv
<1>1. e \in Queued
  BY DEF Queued
<1>2. /\ lstSendQueue \in Seq(Queued)
      /\ lstSendQueue' = Append(lstSendQueue, e)
      /\ Len(lstSendQueue) < MaxQueueSize
  BY <1>0 DEF Push, TypeOK
<1> HIDE DEF e
<1>3. /\ lstSendQueue' \in Seq(Queued)
      /\ Len(lstSendQueue') = Len(lstSendQueue) + 1
      /\ Len(lstSendQueue') \in 0..MaxQueueSize
  BY <1>1, <1>2
<1>4. pc' \in [Producers -> {"idle", "signal", "overload", "report"}]
  BY <1>0 DEF Push, TypeOK, AfterPush
<1>5. errNo' \in [Producers -> 0..MaxQueueSize]
  BY <1>0, <1>3 DEF Push, TypeOK
<1>6. TypeOK'
  <2>1. /\ UNCHANGED <<event, overload, reports, sender, vecHandles, setHandles,
                      handle, spent>>
        /\ havingWaiters' = FALSE
        /\ unsent' = unsent + 1
    BY DEF Push, senderVars, socketVars
  <2>2. havingWaiters' \in BOOLEAN /\ event' \in BOOLEAN /\ overload' \in BOOLEAN
    BY <1>0, <2>1 DEF TypeOK
  <2>3. Len(lstSendQueue') <= MaxQueueSize /\ unsent' \in Nat
    BY <1>0, <1>3, <2>1 DEF TypeOK
  <2> QED  BY <1>0, <1>3, <1>4, <1>5, <2>1, <2>2, <2>3 DEF TypeOK
<1>7. CountMatches'
  BY <1>0, <1>3 DEF Push, CountMatches
<1>8. Waiting'
  <2>1. SUFFICES ASSUME sender = "wait", ~event
                 PROVE  \E q \in Producers : pc'[q] = "signal"
    BY DEF Push, Waiting, senderVars
  <2>2. CASE havingWaiters /\ lstSendQueue = << >>
    <3>1. unsent' = 1
      BY <1>0, <2>2 DEF Push, CountMatches
    <3> QED  BY <1>0, <2>2, <3>1 DEF Push, TypeOK
  <2>3. ASSUME NEW q \in Producers, pc[q] = "signal"
        PROVE  pc'[q] = "signal"
    BY <1>0, <2>3 DEF Push, TypeOK
  <2> QED  BY <1>0, <2>1, <2>2, <2>3 DEF Waiting
<1>9. OverloadReportedOnce'
  BY <1>0 DEF Push, OverloadReportedOnce
<1> QED  BY <1>6, <1>7, <1>8, <1>9 DEF IInv

(* So do the steps a producer takes after its push. *)
LEMMA ProducerStep ==
  ASSUME IInv, NEW p \in Producers,
         Signal(p) \/ CheckOverload(p) \/ OnOverload(p)
  PROVE  IInv'
<1> USE SendQueueAssumption
<1>0. TypeOK /\ CountMatches /\ Waiting /\ OverloadReportedOnce
  BY DEF IInv
<1>1. /\ UNCHANGED <<queueVars, havingWaiters, errNo, senderVars, socketVars>>
      /\ pc' \in [Producers -> {"idle", "signal", "overload", "report"}]
  BY <1>0 DEF Signal, CheckOverload, OnOverload, TypeOK, AfterPush
<1>2. /\ event' \in BOOLEAN /\ overload' \in BOOLEAN /\ reports' \in Nat
      /\ OverloadReportedOnce'
  <2>1. event' = event \/ event' = TRUE
    BY DEF Signal, CheckOverload, OnOverload
  <2>2. \/ overload' = overload /\ reports' = reports
        \/ ~overload /\ overload' = TRUE /\ reports' = reports + 1
    BY DEF Signal, CheckOverload, OnOverload, Overloaded
  <2>3. event' \in BOOLEAN
    BY <1>0, <2>1 DEF TypeOK
  <2>4. CASE overload' = overload /\ reports' = reports
    BY <1>0, <2>3, <2>4 DEF TypeOK, OverloadReportedOnce
  <2>5. CASE ~overload /\ overload' = TRUE /\ reports' = reports + 1
    BY <1>0, <2>3, <2>5 DEF TypeOK, OverloadReportedOnce
  <2> QED  BY <2>2, <2>4, <2>5
<1>3. TypeOK' /\ CountMatches'
  BY <1>0, <1>1, <1>2 DEF TypeOK, CountMatches, queueVars, senderVars, socketVars
<1>4. Waiting'
  <2>1. CASE Signal(p)
    BY <2>1 DEF Signal, Waiting
  <2>2. CASE CheckOverload(p) \/ OnOverload(p)
    <3>1. event' = event /\ \A q \in Producers : pc[q] = "signal" => pc'[q] = "signal"
      BY <1>0, <2>2 DEF CheckOverload, OnOverload, TypeOK
    <3> QED  BY <1>0, <1>1, <3>1 DEF Waiting, queueVars, senderVars
  <2> QED  BY <2>1, <2>2
<1> QED  BY <1>2, <1>3, <1>4 DEF IInv

(* So do the send thread's steps that write nothing. *)
LEMMA SendThreadStep ==
  ASSUME IInv, SendThread
  PROVE  IInv'
<1> USE DEF SendThread, StepTo
<1>0. TypeOK /\ CountMatches /\ Waiting /\ OverloadReportedOnce
  BY DEF IInv
<1>1. UNCHANGED <<queueVars, clientVars, event, socketVars>>
  BY DEF Poll, RegisterWaiter, WaitReturns, FillConnectedSet, SelectNone,
     SelectReady, SendNothing
<1>2. /\ havingWaiters' \in BOOLEAN
      /\ vecHandles' \subseteq Sockets
      /\ sender' \in {"WaitForSendQueue", "havingWaiters", "wait",
                      "FillConnectedSet", "select", "SendFromQueue"}
  BY <1>0 DEF TypeOK, Poll, RegisterWaiter, WaitReturns, FillConnectedSet,
     SelectNone, SelectReady, SendNothing
<1>3. TypeOK' /\ CountMatches' /\ OverloadReportedOnce'
  BY <1>0, <1>1, <1>2 DEF TypeOK, CountMatches, OverloadReportedOnce, queueVars,
     clientVars, socketVars
<1>4. Waiting'
  <2>1. SUFFICES ASSUME sender' = "wait"
                 PROVE  havingWaiters' /\ lstSendQueue' = << >>
    BY DEF Waiting
  <2>2. RegisterWaiter /\ unsent = 0
    BY <2>1 DEF Poll, RegisterWaiter, WaitReturns, FillConnectedSet, SelectNone,
       SelectReady, SendNothing
  <2>3. lstSendQueue = << >>
    <3>1. lstSendQueue \in Seq(Queued) /\ Len(lstSendQueue) = 0
      BY <1>0, <2>2 DEF CountMatches, TypeOK
    <3> QED  BY <3>1
  <2> QED  BY <1>1, <2>2, <2>3 DEF RegisterWaiter, queueVars
<1> QED  BY <1>3, <1>4 DEF IInv

(* So does a write: the packet leaves the list only when it is all sent. *)
LEMMA SendFromQueueStep ==
  ASSUME IInv, NEW h \in Sockets, SendFromQueue(h)
  PROVE  IInv'
<1> USE SendQueueAssumption
<1>0. TypeOK /\ CountMatches /\ OverloadReportedOnce
  BY DEF IInv
<1>1. /\ UNCHANGED <<accepted, havingWaiters, event, clientVars, vecHandles, socketVars>>
      /\ sender' = "WaitForSendQueue"
      /\ lstSendQueue # << >>
  BY DEF SendFromQueue
<1>2. /\ lstSendQueue \in Seq(Queued)
      /\ Len(lstSendQueue) \in Nat
      /\ Len(lstSendQueue) <= MaxQueueSize
  BY <1>0 DEF TypeOK
<1>3. /\ lstSendQueue' \in Seq(Queued)
      /\ Len(lstSendQueue') <= MaxQueueSize
      /\ CountMatches'
      /\ unsent' \in Nat
  <2>1. CASE lstSendQueue' = Tail(lstSendQueue) /\ unsent' = unsent - 1
    BY <1>0, <1>1, <1>2, <2>1 DEF CountMatches
  <2>2. ASSUME NEW last \in Nat \ {0},
               lstSendQueue' = [lstSendQueue EXCEPT ![1].next = last],
               unsent' = unsent
        PROVE  /\ lstSendQueue' \in Seq(Queued)
               /\ Len(lstSendQueue') = Len(lstSendQueue)
    <3>1. 1 \in 1..Len(lstSendQueue)
      BY <1>1, <1>2
    <3>2. [lstSendQueue[1] EXCEPT !.next = last] \in Queued
      <4>1. lstSendQueue[1] \in Queued
        BY <1>2, <3>1
      <4> QED  BY <4>1 DEF Queued
    <3>3. lstSendQueue' = [lstSendQueue EXCEPT ![1] = [lstSendQueue[1] EXCEPT !.next = last]]
      BY <2>2
    <3> QED  BY <1>2, <3>1, <3>2, <3>3
  <2>3. Head(lstSendQueue).next \in Nat \ {0}
    <3>1. Head(lstSendQueue) \in Queued
      BY <1>1, <1>2
    <3> QED  BY <3>1 DEF Queued
  <2>4. \A last : last \in Head(lstSendQueue).next .. Size[Head(lstSendQueue).packet]
                    => last + 1 \in Nat \ {0}
    BY <2>3
  <2>5. \/ lstSendQueue' = Tail(lstSendQueue) /\ unsent' = unsent - 1
        \/ \E last \in Nat \ {0} :
             /\ lstSendQueue' = [lstSendQueue EXCEPT ![1].next = last]
             /\ unsent' = unsent
    BY <2>4 DEF SendFromQueue
  <2> QED  BY <1>0, <1>2, <2>1, <2>2, <2>5 DEF CountMatches
<1>4. TypeOK'
  BY <1>0, <1>1, <1>3 DEF TypeOK, clientVars, socketVars
<1>5. Waiting'
  BY <1>1 DEF Waiting
<1>6. OverloadReportedOnce'
  BY <1>0, <1>1 DEF OverloadReportedOnce, clientVars
<1> QED  BY <1>3, <1>4, <1>5, <1>6 DEF IInv

(* So do a connection that comes and one that goes. *)
LEMMA ReceiveThreadStep ==
  ASSUME IInv, ReceiveThread
  PROVE  IInv'
<1>0. TypeOK /\ CountMatches /\ Waiting /\ OverloadReportedOnce
  BY DEF IInv
<1>1. UNCHANGED <<queueVars, havingWaiters, event, pc, errNo, senderVars>>
  BY DEF ReceiveThread, AddClient, OnBreak, CloseHandle, clientVars
<1>2. /\ setHandles' \subseteq Sockets
      /\ spent' \subseteq Sockets
      /\ handle' \in Sockets \cup {None}
  BY <1>0 DEF ReceiveThread, AddClient, OnBreak, CloseHandle, TypeOK
<1>3. /\ overload' \in BOOLEAN /\ reports' \in Nat
      /\ OverloadReportedOnce'
  <2>1. \/ overload' = overload /\ reports' = reports
        \/ overload' = FALSE /\ reports' = 0
    BY DEF ReceiveThread, AddClient, OnBreak, CloseHandle, clientVars
  <2>2. CASE overload' = overload /\ reports' = reports
    BY <1>0, <2>2 DEF TypeOK, OverloadReportedOnce
  <2>3. CASE overload' = FALSE /\ reports' = 0
    BY <2>3 DEF OverloadReportedOnce
  <2> QED  BY <2>1, <2>2, <2>3
<1> QED  BY <1>0, <1>1, <1>2, <1>3 DEF IInv, TypeOK, CountMatches, Waiting, queueVars, senderVars

(* The invariant is inductive. *)
LEMMA IInvStep == IInv /\ [Next]_vars => IInv'
<1> SUFFICES ASSUME IInv, [Next]_vars PROVE IInv'
  OBVIOUS
<1>1. CASE UNCHANGED vars
  BY <1>1 DEF IInv, TypeOK, CountMatches, Waiting, OverloadReportedOnce, vars,
     queueVars, clientVars, senderVars, socketVars
<1>2. CASE Next
  BY <1>2, PushStep, ProducerStep, SendThreadStep, SendFromQueueStep,
     ReceiveThreadStep DEF Next, Produce
<1> QED  BY <1>1, <1>2

(* IInv holds in every behaviour. *)
THEOREM Invariance == Spec => []IInv
  BY InitIInv, IInvStep, PTL DEF Spec

(* Every reachable state is well typed; the queue never exceeds its limit. *)
THEOREM TypeCorrect == Spec => []TypeOK
<1>1. IInv => TypeOK
  BY DEF IInv
<1> QED  BY <1>1, Invariance, PTL

(* The send thread never sleeps on a queue that has packets without a signal
   on its way.                                                              *)
THEOREM WakeupNotLost == Spec => []NoLostWakeup
<1>1. IInv => NoLostWakeup
  BY DEF IInv, Waiting, NoLostWakeup
<1> QED  BY <1>1, Invariance, PTL

(* A connection's overload is reported exactly once. *)
THEOREM OverloadOnce == Spec => []OverloadReportedOnce
<1>1. IInv => OverloadReportedOnce
  BY DEF IInv
<1> QED  BY <1>1, Invariance, PTL
-----------------------------------------------------------------------------
(* Induction over the natural numbers, for sets *)

(* A non-empty set of natural numbers has a least element. *)
LEMMA LeastNumber ==
  ASSUME NEW T \in SUBSET Nat, T # {}
  PROVE  \E n \in T : \A m \in T : n <= m
<1> DEFINE R == {ss \in Nat \X Nat : ss[1] < ss[2]}
<1>1. IsWellFoundedOn(R, Nat)
  BY NatLessThanWellFounded DEF OpToRel
<1>2. ASSUME NEW m \in Nat, NEW n \in Nat, m < n
      PROVE  <<m, n>> \in R
  <2>1. <<m, n>> \in Nat \X Nat /\ <<m, n>>[1] = m /\ <<m, n>>[2] = n
    OBVIOUS
  <2> QED  BY <1>2, <2>1, Zenon
<1> HIDE DEF R
<1>3. PICK n \in T : \A m \in T : ~ (<<m, n>> \in R)
  BY <1>1, WFMin
<1>4. ASSUME NEW m \in T
      PROVE  n <= m
  <2>1. m \in Nat /\ n \in Nat
    OBVIOUS
  <2>2. ~ (m < n)
    BY <1>2, <1>3, <2>1, Zenon
  <2> QED  BY <2>1, <2>2
<1> QED  BY <1>4

(* A set that holds 0 and what follows each of its elements, up to n, holds all
   the numbers up to n.                                                     *)
LEMMA UpTo ==
  ASSUME NEW n \in Nat, NEW S, 0 \in S, \A k \in 0 .. n - 1 : k \in S => k + 1 \in S
  PROVE  0..n \subseteq S
<1> SUFFICES ASSUME (0..n) \ S # {} PROVE FALSE
  OBVIOUS
<1>1. PICK k \in (0..n) \ S : \A m \in (0..n) \ S : k <= m
  <2> DEFINE T == (0..n) \ S
  <2>1. T \in SUBSET Nat /\ T # {}
    OBVIOUS
  <2> HIDE DEF T
  <2>2. \E k \in T : \A m \in T : k <= m
    BY <2>1, LeastNumber
  <2> QED  BY <2>2 DEF T
<1>2. k - 1 \in 0 .. n - 1 /\ k - 1 \in S
  BY <1>1
<1> QED  BY <1>1, <1>2

-----------------------------------------------------------------------------
(* The stream of the accepted packets *)

IsStreams(s, f) ==
  f = [k \in 0..Len(s) |-> IF k = 0 THEN << >> ELSE f[k - 1] \o PS!Pieces(s[k])]

(* Streams is well defined: there is such a function. *)
LEMMA StreamsExist ==
  ASSUME NEW s, Len(s) \in Nat
  PROVE  \E f : IsStreams(s, f)
<1> DEFINE Body(f, k) == IF k = 0 THEN << >> ELSE f[k - 1] \o PS!Pieces(s[k])
           S == {n \in Nat : \E f : f = [k \in 0..n |-> Body(f, k)]}
<1>1. 0 \in S
  <2>1. [i \in 0..0 |-> << >>] = [k \in 0..0 |-> Body([i \in 0..0 |-> << >>], k)]
    OBVIOUS
  <2> QED  BY <2>1
<1>2. ASSUME NEW n \in 0 .. Len(s) - 1, n \in S
      PROVE  n + 1 \in S
  <2>1. PICK f : f = [k \in 0..n |-> Body(f, k)]
    BY <1>2
  <2> DEFINE g == [k \in 0 .. n + 1 |-> IF k = n + 1 THEN Body(f, k) ELSE f[k]]
  <2>2. \A k \in 0 .. n + 1 : k - 1 \in 0..n => g[k - 1] = f[k - 1]
    OBVIOUS
  <2>3. ASSUME NEW k \in 0 .. n + 1
        PROVE  g[k] = Body(g, k)
    <3>1. CASE k = n + 1
      BY <2>2, <3>1
    <3>2. CASE k # n + 1
      <4>1. k \in 0..n /\ g[k] = f[k]
        BY <3>2
      <4>2. f[k] = Body(f, k)
        BY <2>1, <4>1
      <4>3. Body(f, k) = Body(g, k)
        BY <2>2
      <4> QED  BY <4>1, <4>2, <4>3
    <3> QED  BY <3>1, <3>2
  <2>4. g = [k \in 0 .. n + 1 |-> Body(g, k)]
    BY <2>3
  <2> HIDE DEF g
  <2>5. n + 1 \in Nat
    OBVIOUS
  <2> QED  BY <2>4, <2>5
<1> HIDE DEF S
<1>3. 0..Len(s) \subseteq S
  BY <1>1, <1>2, UpTo
<1>4. Len(s) \in S
  BY <1>3
<1> QED  BY <1>4 DEF S, IsStreams

(* So it is what its definition says. *)
LEMMA StreamsAre ==
  ASSUME NEW s, Len(s) \in Nat
  PROVE  /\ PS!Streams(s)[0] = << >>
         /\ \A k \in 0 .. Len(s) - 1 :
              PS!Streams(s)[k + 1] = PS!Streams(s)[k] \o PS!Pieces(s[k + 1])
<1>1. PS!Streams(s) = CHOOSE f : IsStreams(s, f)
  BY DEF PS!Streams, IsStreams
<1>2. IsStreams(s, PS!Streams(s))
  BY <1>1, StreamsExist
<1>3. ASSUME NEW f, IsStreams(s, f)
      PROVE  /\ f[0] = << >>
             /\ \A k \in 0 .. Len(s) - 1 : f[k + 1] = f[k] \o PS!Pieces(s[k + 1])
  <2>1. \A k \in 0..Len(s) : f[k] = IF k = 0 THEN << >> ELSE f[k - 1] \o PS!Pieces(s[k])
    BY <1>3, Zenon DEF IsStreams
  <2>2. 0 \in 0..Len(s)
    OBVIOUS
  <2>3. ASSUME NEW k \in 0 .. Len(s) - 1
        PROVE  f[k + 1] = f[k] \o PS!Pieces(s[k + 1])
    <3>1. PICK j \in 0..Len(s) : j = k + 1
      OBVIOUS
    <3>2. j # 0 /\ j - 1 = k
      BY <3>1
    <3>3. f[j] = f[j - 1] \o PS!Pieces(s[j])
      BY <2>1, <3>2
    <3> QED  BY <3>1, <3>2, <3>3, Zenon
  <2> QED  BY <2>1, <2>2, <2>3, Zenon
<1> QED  BY <1>2, <1>3, Zenon

(* What concatenation does. *)
LEMMA ConcatFacts ==
  ASSUME NEW S, NEW a \in Seq(S), NEW b \in Seq(S)
  PROVE  /\ a \o b \in Seq(S)
         /\ Len(a \o b) = Len(a) + Len(b)
         /\ \A i \in 1..Len(a) : (a \o b)[i] = a[i]
         /\ \A i \in 1..Len(b) : (a \o b)[Len(a) + i] = b[i]
OBVIOUS

Piece == Packets \X Nat
Offset(s, k) == Len(PS!Streams(s)[k])

(* A packet has Size[d] pieces, numbered from 1. *)
LEMMA PiecesTyped ==
  ASSUME NEW d \in Packets
  PROVE  /\ PS!Pieces(d) \in Seq(Piece)
         /\ Len(PS!Pieces(d)) = Size[d]
         /\ Size[d] \in Nat \ {0}
         /\ \A i \in 1..Size[d] : PS!Pieces(d)[i] = <<d, i>>
BY SendQueueAssumption DEF PS!Pieces, Piece

(* A stream is a sequence of pieces. *)
LEMMA StreamsTyped ==
  ASSUME NEW s \in Seq(Packets), NEW k \in 0..Len(s)
  PROVE  PS!Streams(s)[k] \in Seq(Piece) /\ Offset(s, k) \in Nat
<1> DEFINE Typed(j) == PS!Streams(s)[j] \in Seq(Piece)
           S == {j \in Nat : Typed(j)}
<1>0. Len(s) \in Nat
  OBVIOUS
<1>1. Typed(0)
  <2>1. PS!Streams(s)[0] = << >>
    BY <1>0, StreamsAre, Zenon
  <2> QED  BY <2>1
<1>2. ASSUME NEW j \in 0 .. Len(s) - 1, Typed(j)
      PROVE  Typed(j + 1)
  <2>1. s[j + 1] \in Packets
    BY <1>0
  <2>2. PS!Streams(s)[j + 1] = PS!Streams(s)[j] \o PS!Pieces(s[j + 1])
    BY <1>0, StreamsAre, Zenon
  <2>3. PS!Pieces(s[j + 1]) \in Seq(Piece)
    BY <2>1, PiecesTyped
  <2> QED  BY <1>2, <2>2, <2>3, ConcatFacts, Zenon
<1> HIDE DEF Typed
<1>3. 0..Len(s) \subseteq S
  <2>1. 0 \in S /\ \A j \in 0 .. Len(s) - 1 : j \in S => j + 1 \in S
    BY <1>0, <1>1, <1>2
  <2> HIDE DEF S
  <2> QED  BY <1>0, <2>1, UpTo
<1>4. Typed(k)
  BY <1>3
<1> QED  BY <1>4 DEF Typed, Offset

(* Each packet adds its pieces. *)
LEMMA StreamsStep ==
  ASSUME NEW s \in Seq(Packets), NEW k \in 0 .. Len(s) - 1
  PROVE  /\ Offset(s, k + 1) = Offset(s, k) + Size[s[k + 1]]
         /\ \A i \in 1..Offset(s, k) : PS!Streams(s)[k + 1][i] = PS!Streams(s)[k][i]
         /\ \A i \in 1..Size[s[k + 1]] : PS!Streams(s)[k + 1][Offset(s, k) + i] = <<s[k + 1], i>>
<1> DEFINE a == PS!Streams(s)[k]
           b == PS!Pieces(s[k + 1])
<1>1. k \in 0..Len(s) /\ s[k + 1] \in Packets /\ Len(s) \in Nat
  OBVIOUS
<1>2. PS!Streams(s)[k + 1] = a \o b
  BY <1>1, StreamsAre, Zenon
<1>3. a \in Seq(Piece)
  BY <1>1, StreamsTyped
<1>4. b \in Seq(Piece) /\ Len(b) = Size[s[k + 1]] /\ \A i \in 1..Size[s[k + 1]] : b[i] = <<s[k + 1], i>>
  BY <1>1, PiecesTyped
<1> HIDE DEF a, b
<1>5. /\ Len(a \o b) = Len(a) + Len(b)
      /\ \A i \in 1..Len(a) : (a \o b)[i] = a[i]
      /\ \A i \in 1..Len(b) : (a \o b)[Len(a) + i] = b[i]
  BY <1>3, <1>4, ConcatFacts
<1>6. Offset(s, k) = Len(a) /\ Offset(s, k + 1) = Len(a \o b)
  BY <1>2 DEF Offset, a
<1> QED  BY <1>2, <1>4, <1>5, <1>6, Zenon DEF a

(* A shorter stream is the beginning of a longer one, and a packet more makes
   it longer.                                                               *)
LEMMA StreamsPrefix ==
  ASSUME NEW s \in Seq(Packets), NEW k \in 0..Len(s), NEW j \in 0..k
  PROVE  /\ Offset(s, j) <= Offset(s, k)
         /\ j < k => Offset(s, j) < Offset(s, k)
         /\ \A i \in 1..Offset(s, j) : PS!Streams(s)[k][i] = PS!Streams(s)[j][i]
<1> DEFINE Prefix(m) == /\ Offset(s, j) <= Offset(s, m)
                        /\ j < m => Offset(s, j) < Offset(s, m)
                        /\ \A i \in 1..Offset(s, j) : PS!Streams(s)[m][i] = PS!Streams(s)[j][i]
           S == {m \in Nat : j <= m => Prefix(m)}
<1>0. Len(s) \in Nat /\ j \in 0..Len(s) /\ j \in Nat
  OBVIOUS
<1>1. j <= 0 => Prefix(0)
  <2>1. Offset(s, j) \in Nat
    BY <1>0, StreamsTyped
  <2> QED  BY <1>0, <2>1
<1>2. ASSUME NEW m \in 0 .. Len(s) - 1, j <= m => Prefix(m), j <= m + 1
      PROVE  Prefix(m + 1)
  <2>1. Offset(s, j) \in Nat /\ Offset(s, m) \in Nat
    BY <1>0, StreamsTyped
  <2>2. CASE j = m + 1
    BY <2>1, <2>2
  <2>3. CASE j # m + 1
    <3>1. j <= m /\ Prefix(m)
      BY <1>0, <1>2, <2>3
    <3>2. s[m + 1] \in Packets
      BY <1>0
    <3>3. /\ Offset(s, m + 1) = Offset(s, m) + Size[s[m + 1]]
          /\ \A i \in 1..Offset(s, m) : PS!Streams(s)[m + 1][i] = PS!Streams(s)[m][i]
      BY StreamsStep
    <3>4. Size[s[m + 1]] \in Nat \ {0}
      BY <3>2, PiecesTyped
    <3>5. Offset(s, j) < Offset(s, m + 1)
      BY <2>1, <3>1, <3>3, <3>4
    <3>6. \A i \in 1..Offset(s, j) : i \in 1..Offset(s, m)
      BY <2>1, <3>1
    <3>7. \A i \in 1..Offset(s, j) : PS!Streams(s)[m + 1][i] = PS!Streams(s)[j][i]
      BY <3>1, <3>3, <3>6, Zenon
    <3>8. Offset(s, j) <= Offset(s, m + 1)
      BY <2>1, <3>1, <3>3, <3>4
    <3> QED  BY <3>5, <3>7, <3>8, Zenon
  <2> QED  BY <2>2, <2>3
<1> HIDE DEF Prefix
<1>3. 0..Len(s) \subseteq S
  <2>1. 0 \in S /\ \A m \in 0 .. Len(s) - 1 : m \in S => m + 1 \in S
    BY <1>0, <1>1, <1>2
  <2> HIDE DEF S
  <2> QED  BY <1>0, <2>1, UpTo
<1>4. Prefix(k)
  BY <1>3
<1> QED  BY <1>4 DEF Prefix

(* A packet more leaves the streams of those before it as they are. *)
LEMMA StreamsAppend ==
  ASSUME NEW s \in Seq(Packets), NEW d \in Packets, NEW k \in 0..Len(s)
  PROVE  PS!Streams(Append(s, d))[k] = PS!Streams(s)[k]
<1> DEFINE t == Append(s, d)
           Same(j) == PS!Streams(t)[j] = PS!Streams(s)[j]
           S == {j \in Nat : Same(j)}
<1>1. /\ Len(s) \in Nat /\ Len(t) = Len(s) + 1
      /\ \A j \in 0 .. Len(s) - 1 : t[j + 1] = s[j + 1] /\ j \in 0 .. Len(t) - 1
  OBVIOUS
<1> HIDE DEF t
<1>2. Same(0)
  <2>1. Len(t) \in Nat
    BY <1>1
  <2> QED  BY <1>1, <2>1, StreamsAre, Zenon
<1>3. ASSUME NEW j \in 0 .. Len(s) - 1, Same(j)
      PROVE  Same(j + 1)
  <2>1. Len(t) \in Nat
    BY <1>1
  <2>2. PS!Streams(s)[j + 1] = PS!Streams(s)[j] \o PS!Pieces(s[j + 1])
    BY <1>1, StreamsAre, Zenon
  <2>3. PS!Streams(t)[j + 1] = PS!Streams(t)[j] \o PS!Pieces(t[j + 1])
    BY <1>1, <2>1, StreamsAre, Zenon
  <2> QED  BY <1>1, <1>3, <2>2, <2>3, Zenon
<1> HIDE DEF Same
<1>4. 0..Len(s) \subseteq S
  <2>1. 0 \in S /\ \A j \in 0 .. Len(s) - 1 : j \in S => j + 1 \in S
    BY <1>1, <1>2, <1>3
  <2> HIDE DEF S
  <2> QED  BY <1>1, <2>1, UpTo
<1>5. Same(k)
  BY <1>4
<1> QED  BY <1>5 DEF Same, t

-----------------------------------------------------------------------------
(* The queue implements PacketStream *)

done == Len(accepted) - Len(lstSendQueue)   (* packets written to the end   *)
sent == IF lstSendQueue = << >> THEN 0 ELSE lstSendQueue[1].next - 1

(* The queue holds the packets that were accepted last, in their order, and only
   its first may have been sent in part.                                    *)
Lines ==
  /\ accepted \in Seq(Packets)
  /\ lstSendQueue \in Seq(Queued)
  /\ Len(lstSendQueue) <= Len(accepted)
  /\ \A j \in 1..Len(lstSendQueue) :
       /\ lstSendQueue[j].packet = accepted[done + j]
       /\ lstSendQueue[j].next <= Size[accepted[done + j]]
       /\ j # 1 => lstSendQueue[j].next = 1

(* What has been written is the beginning of the stream, up to where the first
   packet of the queue goes on.                                             *)
OnWire ==
  /\ wire \in Seq(Piece)
  /\ Len(wire) = Offset(accepted, done) + sent
  /\ \A i \in 1..Len(wire) : wire[i] = PS!Streams(accepted)[Len(accepted)][i]

(* Where the beginning ends. *)
LEMMA WireEnds ==
  ASSUME Lines, OnWire
  PROVE  /\ Len(accepted) \in Nat /\ Len(lstSendQueue) \in Nat /\ done \in 0..Len(accepted)
         /\ Len(wire) \in Nat /\ Offset(accepted, Len(accepted)) \in Nat
         /\ Offset(accepted, done) <= Len(wire)
         /\ Len(wire) <= Offset(accepted, Len(accepted))
         /\ lstSendQueue # << >> =>
              /\ done + 1 \in 1..Len(accepted) /\ 1 \in 1..Len(lstSendQueue)
              /\ lstSendQueue[1] \in Queued
              /\ Offset(accepted, done + 1) = Offset(accepted, done) + Size[accepted[done + 1]]
              /\ Len(wire) < Offset(accepted, done + 1)
<1> DEFINE n == Len(accepted)
<1>1. n \in Nat /\ Len(lstSendQueue) \in Nat /\ done \in 0..n /\ Len(wire) \in Nat
  BY DEF Lines, OnWire, done
<1>2. Offset(accepted, done) \in Nat /\ Offset(accepted, n) \in Nat
  BY <1>1, StreamsTyped DEF Lines
<1>3. CASE lstSendQueue = << >>
  <2>1. done = n /\ sent = 0
    BY <1>1, <1>3 DEF done, sent
  <2> QED  BY <1>1, <1>2, <1>3, <2>1 DEF OnWire
<1>4. CASE lstSendQueue # << >>
  <2>1. done + 1 \in 1..n /\ done \in 0 .. n - 1 /\ 1 \in 1..Len(lstSendQueue)
    BY <1>1, <1>4 DEF Lines, done
  <2>2. lstSendQueue[1] \in Queued
    BY <2>1 DEF Lines
  <2>3. lstSendQueue[1].next \in Nat \ {0} /\ lstSendQueue[1].next <= Size[accepted[done + 1]]
    BY <2>1, <2>2 DEF Lines, Queued
  <2>4. Offset(accepted, done + 1) = Offset(accepted, done) + Size[accepted[done + 1]]
    BY <2>1, StreamsStep DEF Lines
  <2>5. Size[accepted[done + 1]] \in Nat
    <3>1. accepted[done + 1] \in Packets
      BY <2>1 DEF Lines
    <3> QED  BY <3>1, PiecesTyped
  <2>6. Offset(accepted, done) <= Len(wire) /\ Len(wire) < Offset(accepted, done + 1)
    BY <1>2, <1>4, <2>3, <2>4, <2>5 DEF OnWire, sent
  <2>7. Offset(accepted, done + 1) <= Offset(accepted, n) /\ Offset(accepted, done + 1) \in Nat
    <3>1. done + 1 \in 0..n /\ n \in 0..n
      BY <1>1, <2>1
    <3> QED  BY <3>1, StreamsPrefix, StreamsTyped DEF Lines
  <2> QED  BY <1>1, <1>2, <2>1, <2>2, <2>4, <2>6, <2>7
<1> QED  BY <1>3, <1>4

(* The queue is the backlog. *)
LEMMA BacklogIs ==
  ASSUME Lines, OnWire
  PROVE  PS!Backlog = Len(lstSendQueue)
<1> DEFINE n == Len(accepted)
<1>1. /\ n \in Nat /\ Len(lstSendQueue) \in Nat /\ done \in 0..n /\ Len(wire) \in Nat
      /\ done + Len(lstSendQueue) = n
      /\ lstSendQueue = << >> <=> done = n
  BY WireEnds DEF Lines, done
<1>2. ASSUME NEW k \in 1..n
      PROVE  Len(wire) < Offset(accepted, k) <=> k > done
  <2>1. k \in 0..n /\ n \in 0..n /\ Offset(accepted, k) \in Nat /\ Offset(accepted, done) \in Nat
    BY <1>1, StreamsTyped DEF Lines
  <2>2. CASE k <= done
    <3>1. k \in 0..done
      BY <1>1, <2>2
    <3>2. Offset(accepted, k) <= Offset(accepted, done)
      BY <1>1, <3>1, StreamsPrefix DEF Lines
    <3>3. Offset(accepted, done) <= Len(wire)
      BY WireEnds
    <3> QED  BY <1>1, <2>1, <2>2, <3>2, <3>3
  <2>3. CASE k > done
    <3>1. lstSendQueue # << >> /\ done + 1 \in 0..k /\ done + 1 \in 0..n
      BY <1>1, <2>3
    <3>2. Offset(accepted, done + 1) <= Offset(accepted, k) /\ Offset(accepted, done + 1) \in Nat
      BY <2>1, <3>1, StreamsPrefix, StreamsTyped DEF Lines
    <3>3. Len(wire) < Offset(accepted, done + 1)
      BY <3>1, WireEnds
    <3> QED  BY <1>1, <2>1, <2>3, <3>2, <3>3
  <2> QED  BY <1>1, <2>2, <2>3
<1>3. {k \in 1..n : Len(wire) < Len(PS!Streams(accepted)[k])} = done + 1 .. n
  BY <1>1, <1>2 DEF Offset
<1>4. Cardinality(done + 1 .. n) = Len(lstSendQueue)
  <2>1. PICK m \in Nat : m = done + 1
    BY <1>1
  <2>2. Cardinality(m..n) = IF m > n THEN 0 ELSE n - m + 1
    <3>1. m \in Int /\ n \in Int
      BY <1>1, <2>1
    <3> HIDE DEF n
    <3> QED  BY <3>1, FS_Interval, Zenon
  <2>3. (IF m > n THEN 0 ELSE n - m + 1) = Len(lstSendQueue)
    BY <1>1, <2>1
  <2> QED  BY <2>1, <2>2, <2>3, Zenon
<1>5. PS!Backlog = Cardinality(done + 1 .. n)
  BY <1>3 DEF PS!Backlog, PS!Cardinality, PS!IsFiniteSet, Cardinality, IsFiniteSet
<1> QED  BY <1>4, <1>5

(* A push adds a packet to the stream and to the end of the queue. *)
LEMMA PushWrites ==
  ASSUME Lines, OnWire, NEW p \in Producers, NEW d \in Packets, Push(p, d)
  PROVE  PS!Accept /\ Lines' /\ OnWire'
<1> DEFINE n == Len(accepted)
           e == [packet |-> d, next |-> 1]
<1>0. e \in Queued /\ e.packet = d /\ e.next = 1
  BY DEF Queued
<1> HIDE DEF e
<1>1. /\ accepted' = Append(accepted, d) /\ wire' = wire
      /\ lstSendQueue' = Append(lstSendQueue, e)
      /\ Len(lstSendQueue) < MaxQueueSize
  BY DEF Push, e
<1>2. /\ n \in Nat /\ Len(lstSendQueue) \in Nat /\ done \in 0..n
      /\ accepted \in Seq(Packets) /\ lstSendQueue \in Seq(Queued)
  BY WireEnds DEF Lines
<1>3. /\ accepted' \in Seq(Packets) /\ Len(accepted') = n + 1
      /\ accepted'[n + 1] = d
      /\ \A j \in 1..n : accepted'[j] = accepted[j]
  BY <1>1, <1>2
<1>4. /\ lstSendQueue' \in Seq(Queued) /\ Len(lstSendQueue') = Len(lstSendQueue) + 1
      /\ lstSendQueue'[Len(lstSendQueue) + 1] = e
      /\ \A j \in 1..Len(lstSendQueue) : lstSendQueue'[j] = lstSendQueue[j]
  BY <1>0, <1>1, <1>2
<1>5. done' = done
  BY <1>2, <1>3, <1>4 DEF done
<1>6. sent' = sent
  <2>1. lstSendQueue' # << >>
    BY <1>2, <1>4
  <2>2. CASE lstSendQueue = << >>
    <3>1. lstSendQueue'[1] = e
      BY <1>4, <2>2
    <3> QED  BY <1>0, <2>1, <2>2, <3>1 DEF sent
  <2>3. CASE lstSendQueue # << >>
    <3>1. lstSendQueue'[1] = lstSendQueue[1]
      BY <1>2, <1>4, <2>3
    <3> QED  BY <2>1, <2>3, <3>1 DEF sent
  <2> QED  BY <2>2, <2>3
<1>7. Lines'
  <2>1. Len(lstSendQueue') <= Len(accepted')
    BY <1>2, <1>3, <1>4 DEF Lines
  <2>2. ASSUME NEW j \in 1..Len(lstSendQueue')
        PROVE  /\ lstSendQueue'[j].packet = accepted'[done' + j]
               /\ lstSendQueue'[j].next <= Size[accepted'[done' + j]]
               /\ j # 1 => lstSendQueue'[j].next = 1
    <3>1. CASE j = Len(lstSendQueue) + 1
      <4>1. done' + j = n + 1
        BY <1>2, <1>5, <3>1 DEF done
      <4>2. accepted'[done' + j] = d /\ lstSendQueue'[j] = e
        BY <1>3, <1>4, <3>1, <4>1
      <4>3. Size[d] \in Nat \ {0}
        BY PiecesTyped
      <4> QED  BY <1>0, <4>2, <4>3
    <3>2. CASE j # Len(lstSendQueue) + 1
      <4>1. j \in 1..Len(lstSendQueue) /\ done' + j = done + j /\ done + j \in 1..n
        BY <1>2, <1>4, <1>5, <3>2 DEF done
      <4>2. accepted'[done' + j] = accepted[done + j] /\ lstSendQueue'[j] = lstSendQueue[j]
        BY <1>3, <1>4, <4>1
      <4> QED  BY <4>1, <4>2 DEF Lines
    <3> QED  BY <3>1, <3>2
  <2> QED  BY <1>3, <1>4, <2>1, <2>2 DEF Lines
<1>8. OnWire'
  <2>1. /\ PS!Streams(accepted')[done] = PS!Streams(accepted)[done]
        /\ PS!Streams(accepted')[n] = PS!Streams(accepted)[n]
    <3>1. n \in 0..n
      BY <1>2
    <3> QED  BY <1>1, <1>2, <3>1, StreamsAppend
  <2>2. Len(wire') = Offset(accepted', done') + sent'
    <3>1. Offset(accepted', done') = Offset(accepted, done)
      BY <1>5, <2>1 DEF Offset
    <3> QED  BY <1>1, <1>6, <3>1 DEF OnWire
  <2>3. ASSUME NEW i \in 1..Len(wire)
        PROVE  wire[i] = PS!Streams(accepted')[n + 1][i]
    <3>1. i \in 1..Offset(accepted', n)
      <4>1. Offset(accepted', n) = Offset(accepted, n)
        BY <2>1 DEF Offset
      <4>2. Len(wire) \in Nat /\ Offset(accepted, n) \in Nat /\ Len(wire) <= Offset(accepted, n)
        BY WireEnds
      <4> QED  BY <4>1, <4>2
    <3>2. n \in 0 .. Len(accepted') - 1
      BY <1>2, <1>3
    <3>3. PS!Streams(accepted')[n + 1][i] = PS!Streams(accepted')[n][i]
      BY <1>3, <3>1, <3>2, StreamsStep
    <3> QED  BY <2>1, <3>3 DEF OnWire
  <2>4. Len(accepted') = n + 1 /\ wire' = wire
    BY <1>1, <1>3
  <2> QED  BY <2>2, <2>3, <2>4 DEF OnWire
<1>9. PS!Accept
  <2>1. PS!Backlog < MaxQueueSize
    BY <1>1, BacklogIs
  <2> QED  BY <1>1, <2>1 DEF PS!Accept
<1> QED  BY <1>7, <1>8, <1>9

(* A write takes the next pieces of the stream; the packet leaves the queue when
   its last piece is taken, and stays with what is left otherwise.          *)
LEMMA SendWrites ==
  ASSUME Lines, OnWire, NEW h \in Sockets, SendFromQueue(h)
  PROVE  PS!Write /\ Lines' /\ OnWire'
<1> DEFINE n == Len(accepted)
           stream == PS!Streams(accepted)[n]
<1>1. lstSendQueue # << >> /\ accepted' = accepted
  BY DEF SendFromQueue
<1>2. /\ n \in Nat /\ Len(lstSendQueue) \in Nat /\ done \in 0..n /\ done + 1 \in 1..n
      /\ 1 \in 1..Len(lstSendQueue)
      /\ accepted \in Seq(Packets) /\ lstSendQueue \in Seq(Queued)
      /\ wire \in Seq(Piece) /\ Len(wire) \in Nat
      /\ Offset(accepted, n) \in Nat
      /\ Len(wire) <= Offset(accepted, n)
  BY <1>1, WireEnds DEF Lines, OnWire
<1>3. PICK first, d, from : /\ first = lstSendQueue[1] /\ d = accepted[done + 1]
                           /\ from = Offset(accepted, done)
  OBVIOUS
<1>4. /\ first \in Queued /\ d \in Packets /\ from \in Nat
      /\ first.packet = d /\ first.next \in Nat \ {0} /\ first.next <= Size[d]
      /\ Size[d] \in Nat \ {0}
  <2>1. first \in Queued /\ d \in Packets
    BY <1>2, <1>3
  <2>2. first.next \in Nat \ {0}
    BY <2>1 DEF Queued
  <2>3. first.packet = d /\ first.next <= Size[d]
    BY <1>2, <1>3 DEF Lines
  <2>4. from \in Nat
    BY <1>2, <1>3, StreamsTyped
  <2> QED  BY <2>1, <2>2, <2>3, <2>4, PiecesTyped
<1>5. Len(wire) = from + first.next - 1
  BY <1>1, <1>3, <1>4 DEF OnWire, sent
<1>6. PICK last \in first.next .. Size[d] :
        /\ wire' = wire \o Written(first, last)
        /\ IF last = Size[d]
           THEN lstSendQueue' = Tail(lstSendQueue)
           ELSE lstSendQueue' = [lstSendQueue EXCEPT ![1].next = last + 1]
  <2>1. Head(lstSendQueue) = first
    BY <1>2, <1>3
  <2> QED  BY <1>4, <2>1 DEF SendFromQueue
<1>7. last \in 1..Size[d] /\ last \in Nat /\ first.next <= last
  BY <1>4
<1>8. PICK size \in Nat \ {0} : size = last - first.next + 1
  BY <1>4, <1>7
<1>9. PICK part \in Seq(Piece) :
        /\ part = Written(first, last) /\ Len(part) = size
        /\ \A j \in 1..size : part[j] = <<d, first.next + j - 1>>
  <2>1. Written(first, last) = [j \in 1..size |-> <<d, first.next + j - 1>>]
    BY <1>4, <1>8 DEF Written
  <2>2. \A j \in 1..size : <<d, first.next + j - 1>> \in Piece
    BY <1>4 DEF Piece
  <2> DEFINE w == [j \in 1..size |-> <<d, first.next + j - 1>>]
  <2>3. /\ w \in Seq(Piece) /\ Len(w) = size
        /\ \A j \in 1..size : w[j] = <<d, first.next + j - 1>>
    BY <2>2
  <2>4. w = Written(first, last)
    BY <2>1
  <2> HIDE DEF w
  <2> QED  BY <2>3, <2>4, Zenon
<1> HIDE DEF n, stream
<1>10. /\ wire' \in Seq(Piece)
       /\ Len(wire') = Len(wire) + size
       /\ \A i \in 1..Len(wire) : wire'[i] = wire[i]
       /\ \A j \in 1..size : wire'[Len(wire) + j] = part[j]
  <2>1. wire' = wire \o part
    BY <1>6, <1>9
  <2>2. /\ wire \o part \in Seq(Piece)
        /\ Len(wire \o part) = Len(wire) + Len(part)
        /\ \A i \in 1..Len(wire) : (wire \o part)[i] = wire[i]
        /\ \A i \in 1..Len(part) : (wire \o part)[Len(wire) + i] = part[i]
    <3>1. wire \in Seq(Piece)
      BY <1>2
    <3> QED  BY <3>1, ConcatFacts
  <2>3. Len(part) = size
    BY <1>9
  <2> QED  BY <2>1, <2>2, <2>3, Zenon
<1>11. Len(wire') = from + last
  BY <1>4, <1>5, <1>7, <1>8, <1>10
<1>12. /\ Offset(accepted, done + 1) = from + Size[d]
       /\ \A i \in 1..Size[d] : PS!Streams(accepted)[done + 1][from + i] = <<d, i>>
  <2>1. done \in 0 .. Len(accepted) - 1
    BY <1>2 DEF n
  <2> QED  BY <1>2, <1>3, <2>1, StreamsStep
<1>13. /\ Offset(accepted, done + 1) <= Offset(accepted, n)
       /\ \A i \in 1..Offset(accepted, done + 1) :
            stream[i] = PS!Streams(accepted)[done + 1][i]
  <2>1. n \in 0..Len(accepted) /\ done + 1 \in 0..n
    BY <1>2 DEF n
  <2> QED  BY <1>2, <2>1, StreamsPrefix DEF stream
<1>14. \A i \in 1..Len(wire') : wire'[i] = stream[i]
  <2>1. ASSUME NEW i \in 1..Len(wire)
        PROVE  wire'[i] = stream[i]
    BY <1>10 DEF OnWire, n, stream
  <2>2. ASSUME NEW j \in 1..size
        PROVE  wire'[Len(wire) + j] = stream[Len(wire) + j]
    <3>1. PICK k \in 1..Size[d] : k = first.next + j - 1
      BY <1>4, <1>7, <1>8
    <3>2. from + k = Len(wire) + j
      BY <1>4, <1>5, <3>1
    <3>3. from + k \in 1..Offset(accepted, done + 1)
      <4>1. from + k \in 1 .. from + Size[d]
        BY <1>4
      <4> QED  BY <1>12, <4>1
    <3>4. stream[from + k] = <<d, k>>
      BY <1>12, <1>13, <3>3
    <3>5. part[j] = <<d, k>>
      BY <1>9, <3>1
    <3> QED  BY <1>10, <3>2, <3>4, <3>5
  <2>3. \A i \in 1..Len(wire') : i \notin 1..Len(wire) =>
          i - Len(wire) \in 1..size /\ Len(wire) + (i - Len(wire)) = i
    BY <1>2, <1>8, <1>10
  <2> QED  BY <2>1, <2>2, <2>3, Zenon
<1>15. /\ Len(wire') \in Len(wire) + 1 .. Offset(accepted, n)
  <2>1. Len(wire') >= Len(wire) + 1 /\ Len(wire') \in Nat
    BY <1>2, <1>8, <1>10
  <2>2. Len(wire') <= Offset(accepted, done + 1)
    BY <1>4, <1>7, <1>11, <1>12
  <2>3. Offset(accepted, done + 1) \in Nat
    BY <1>4, <1>12
  <2> QED  BY <1>2, <1>13, <2>1, <2>2, <2>3
<1>16. PS!Write
  <2>1. stream \in Seq(Piece) /\ Len(stream) = Offset(accepted, n)
    <3>1. n \in 0..Len(accepted)
      BY <1>2 DEF n
    <3> QED  BY <1>2, <3>1, StreamsTyped DEF stream, Offset
  <2>2. PICK m \in Nat : m = Len(wire')
    BY <1>2, <1>10
  <2>3. /\ SubSeq(stream, 1, m) \in Seq(Piece) /\ Len(SubSeq(stream, 1, m)) = m
        /\ \A i \in 1..m : SubSeq(stream, 1, m)[i] = stream[i]
    BY <1>2, <1>15, <2>1, <2>2
  <2>4. wire' = SubSeq(stream, 1, m)
    BY <1>10, <1>14, <2>2, <2>3
  <2>5. PS!Stream = stream
    BY DEF PS!Stream, stream, n
  <2>6. m \in Len(wire) + 1 .. Len(PS!Stream)
    BY <1>15, <2>1, <2>2, <2>5
  <2> QED  BY <1>1, <2>4, <2>5, <2>6 DEF PS!Write
<1>17. CASE last = Size[d]
  <2>1. PICK q \in Seq(Queued) :
          /\ q = lstSendQueue' /\ Len(q) = Len(lstSendQueue) - 1
          /\ \A j \in 1..Len(q) : q[j] = lstSendQueue[j + 1]
    <3>1. lstSendQueue' = Tail(lstSendQueue)
      BY <1>6, <1>17
    <3>2. /\ Tail(lstSendQueue) \in Seq(Queued)
          /\ Len(Tail(lstSendQueue)) = Len(lstSendQueue) - 1
          /\ \A j \in 1 .. Len(lstSendQueue) - 1 : Tail(lstSendQueue)[j] = lstSendQueue[j + 1]
      BY <1>2
    <3> QED  BY <3>1, <3>2
  <2>2. done' = done + 1
    BY <1>1, <1>2, <2>1 DEF done
  <2>3. sent' = 0
    <3>1. CASE lstSendQueue' = << >>
      BY <3>1 DEF sent
    <3>2. CASE lstSendQueue' # << >>
      <4>1. 1 \in 1..Len(q) /\ 2 \in 1..Len(lstSendQueue)
        BY <1>2, <2>1, <3>2
      <4>2. q[1] = lstSendQueue[2]
        BY <2>1, <4>1
      <4>3. lstSendQueue[2].next = 1
        BY <4>1 DEF Lines
      <4> QED  BY <2>1, <3>2, <4>2, <4>3 DEF sent
    <3> QED  BY <3>1, <3>2
  <2>4. ASSUME NEW j \in 1..Len(q)
        PROVE  /\ q[j].packet = accepted[done + 1 + j]
               /\ q[j].next <= Size[accepted[done + 1 + j]]
               /\ j # 1 => q[j].next = 1
    <3>1. PICK i \in 1..Len(lstSendQueue) : i = j + 1 /\ i # 1
      BY <1>2, <2>1
    <3>2. done + 1 + j = done + i
      BY <1>2, <3>1
    <3>3. q[j] = lstSendQueue[i]
      BY <2>1, <3>1
    <3>4. /\ lstSendQueue[i].packet = accepted[done + i]
          /\ lstSendQueue[i].next <= Size[accepted[done + i]]
          /\ lstSendQueue[i].next = 1
      BY <3>1 DEF Lines
    <3> QED  BY <3>2, <3>3, <3>4
  <2>5. Lines'
    <3>1. Len(q) <= Len(accepted)
      BY <1>2, <2>1 DEF Lines, n
    <3> QED  BY <1>1, <1>2, <2>1, <2>2, <2>4, <3>1 DEF Lines
  <2>6. OnWire'
    <3>1. Len(wire') = Offset(accepted', done') + sent'
      BY <1>1, <1>4, <1>11, <1>12, <1>17, <2>2, <2>3
    <3> QED  BY <1>1, <1>10, <1>14, <3>1 DEF OnWire, stream, n
  <2> QED  BY <1>16, <2>5, <2>6
<1>18. CASE last # Size[d]
  <2>1. PICK q : /\ q = lstSendQueue'
                 /\ q = [lstSendQueue EXCEPT ![1] = [first EXCEPT !.next = last + 1]]
    BY <1>3, <1>6, <1>18
  <2>2. PICK rest \in Queued : rest = [first EXCEPT !.next = last + 1]
    <3>1. last + 1 \in Nat \ {0}
      BY <1>7
    <3> QED  BY <1>4, <3>1 DEF Queued
  <2>3. rest.packet = d /\ rest.next = last + 1
    BY <1>4, <2>2 DEF Queued
  <2>4. /\ q \in Seq(Queued) /\ Len(q) = Len(lstSendQueue) /\ q[1] = rest
        /\ \A j \in 1..Len(lstSendQueue) : j # 1 => q[j] = lstSendQueue[j]
    BY <1>2, <2>1, <2>2
  <2>5. done' = done
    BY <1>1, <2>1, <2>4 DEF done
  <2>6. sent' = last
    <3>1. lstSendQueue' # << >>
      BY <1>2, <2>1, <2>4
    <3> QED  BY <1>7, <2>1, <2>3, <2>4, <3>1 DEF sent
  <2>7. ASSUME NEW j \in 1..Len(lstSendQueue)
        PROVE  /\ q[j].packet = accepted[done + j]
               /\ q[j].next <= Size[accepted[done + j]]
               /\ j # 1 => q[j].next = 1
    <3>1. CASE j = 1
      <4>1. q[j] = rest /\ accepted[done + j] = d
        BY <1>3, <2>4, <3>1
      <4> QED  BY <1>4, <1>7, <1>18, <2>3, <3>1, <4>1
    <3>2. CASE j # 1
      BY <2>4, <3>2 DEF Lines
    <3> QED  BY <3>1, <3>2
  <2>8. Lines'
    BY <1>1, <1>2, <2>1, <2>4, <2>5, <2>7 DEF Lines
  <2>9. OnWire'
    <3>1. Len(wire') = Offset(accepted', done') + sent'
      BY <1>1, <1>3, <1>11, <2>5, <2>6
    <3> QED  BY <1>1, <1>10, <1>14, <3>1 DEF OnWire, stream, n
  <2> QED  BY <1>16, <2>8, <2>9
<1> QED  BY <1>17, <1>18

(* Nothing is accepted and nothing written at first. *)
LEMMA InitStream == Init => PS!Init /\ Lines /\ OnWire
<1> SUFFICES ASSUME Init PROVE PS!Init /\ Lines /\ OnWire
  OBVIOUS
<1>1. accepted = << >> /\ lstSendQueue = << >> /\ wire = << >>
  BY DEF Init
<1>2. done = 0 /\ sent = 0
  BY <1>1 DEF done, sent
<1>3. Lines
  BY <1>1 DEF Lines
<1>4. PS!Streams(accepted)[0] = << >>
  <2>1. Len(accepted) \in Nat
    BY <1>1
  <2> QED  BY <2>1, StreamsAre, Zenon
<1>5. Offset(accepted, 0) = 0
  BY <1>4 DEF Offset
<1>6. OnWire
  <2>1. wire \in Seq(Piece) /\ Len(wire) = 0
    BY <1>1
  <2> QED  BY <1>2, <1>5, <2>1 DEF OnWire
<1> QED  BY <1>1, <1>3, <1>6 DEF PS!Init

(* Every step is an accept, a write or no step of the stream. *)
LEMMA StepStream ==
  Lines /\ OnWire /\ [Next]_vars =>
    [PS!Next]_<<accepted, wire>> /\ Lines' /\ OnWire'
<1> SUFFICES ASSUME Lines, OnWire, [Next]_vars
             PROVE  [PS!Next]_<<accepted, wire>> /\ Lines' /\ OnWire'
  OBVIOUS
<1>1. CASE UNCHANGED <<accepted, lstSendQueue, wire>>
  BY <1>1 DEF Lines, OnWire, done, sent
<1>2. CASE \E p \in Producers, d \in Packets : Push(p, d)
  BY <1>2, PushWrites DEF PS!Next
<1>3. CASE \E h \in Sockets : SendFromQueue(h)
  BY <1>3, SendWrites DEF PS!Next
<1>4. CASE UNCHANGED vars
  BY <1>1, <1>4 DEF vars, queueVars
<1>5. CASE \E p \in Producers : Signal(p) \/ CheckOverload(p) \/ OnOverload(p)
  BY <1>1, <1>5 DEF Signal, CheckOverload, OnOverload, queueVars
<1>6. CASE SendThread
  BY <1>1, <1>6 DEF SendThread, Poll, RegisterWaiter, WaitReturns,
     FillConnectedSet, SelectNone, SelectReady, SendNothing, StepTo, queueVars
<1>7. CASE ReceiveThread
  BY <1>1, <1>7 DEF ReceiveThread, AddClient, OnBreak, CloseHandle, queueVars
<1> QED  BY <1>2, <1>3, <1>4, <1>5, <1>6, <1>7 DEF Next, Produce

(* The queue implements PacketStream: the sockets are given the octets of the
   accepted packets, all of them, once and in the order of acceptance, whatever
   partial writes, errors and reconnections come between.                   *)
THEOREM ImplementsStreamHolds == Spec => ImplementsStream
<1>1. Init => PS!Init /\ Lines /\ OnWire
  BY InitStream
<1>2. Lines /\ OnWire /\ [Next]_vars =>
        [PS!Next]_<<accepted, wire>> /\ Lines' /\ OnWire'
  BY StepStream
<1> QED  BY <1>1, <1>2, PTL DEF Spec, ImplementsStream, PS!Spec
===============================================================================
