------------------------------ MODULE SendQueue ------------------------------
(***************************************************************************)
(* The send queue of CClientTransport and the CSendThread that empties it. *)
(* Any thread may call Send; the send thread polls, waits on an event that *)
(* is never reset, takes a snapshot of the connected sockets, and writes   *)
(* one packet, or a part of one, at a time.  The receive thread adds the   *)
(* socket of a new connection and removes it before it closes it.          *)
(*                                                                         *)
(* Everything done under m_PacketsMutex is one action; what a thread has   *)
(* read there and uses after the unlock is in a variable of its own.       *)
(***************************************************************************)
EXTENDS Naturals, Sequences, FiniteSets

CONSTANTS
  Producers,      (* threads that call Send                                 *)
  Clients,        (* those that do so through CDiameterClient::Send         *)
  Packets,        (* packets                                                *)
  Size,           (* Size[p]: how many pieces the socket can take p in      *)
  Sockets,        (* sockets of successive connections                      *)
  None,           (* no socket                                              *)
  MaxQueueSize,   (* m_maxQueueSize                                         *)
  MaxSends        (* bound: calls of Send                                   *)

ASSUME SendQueueAssumption ==
  /\ IsFiniteSet(Producers)
  /\ Clients \subseteq Producers
  /\ Size \in [Packets -> Nat \ {0}]
  /\ None \notin Sockets
  /\ MaxQueueSize \in Nat \ {0}
  /\ MaxSends \in Nat

VARIABLES
  lstSendQueue,   (* m_lstSendQueue: packets, the first maybe in part       *)
  unsent,         (* m_unsentPacketsCount                                   *)
  havingWaiters,  (* m_havingWaiters                                        *)
  event,          (* m_SendQueueEvent                                       *)
  overload,       (* CDiameterClient::m_bOverload                           *)
  pc,             (* where each producer is after the push                  *)
  errNo,          (* the queue length each producer was told                *)
  sender,         (* where the send thread is                               *)
  setHandles,     (* CSendThread::m_setHandles                              *)
  vecHandles,     (* m_vecHandles, the send thread's snapshot of it         *)
  handle,         (* the connection's socket                                *)
  spent,          (* sockets that have been closed                          *)
  accepted,       (* history: packets put to the queue                      *)
  wire,           (* history: pieces written to sockets                     *)
  reports         (* history: OnOverload calls since the last break         *)

queueVars  == <<lstSendQueue, unsent, accepted>>
clientVars == <<overload, reports, pc, errNo>>
senderVars == <<sender, vecHandles>>
socketVars == <<setHandles, handle, spent>>
vars == <<queueVars, havingWaiters, event, clientVars, senderVars, socketVars,
          wire>>

(* What is left of a packet: its pieces from next on. *)
Queued == [packet : Packets, next : Nat \ {0}]

TypeOK ==
  /\ lstSendQueue \in Seq(Queued)
  /\ Len(lstSendQueue) <= MaxQueueSize
  /\ unsent \in Nat
  /\ havingWaiters \in BOOLEAN
  /\ event \in BOOLEAN
  /\ overload \in BOOLEAN
  /\ pc \in [Producers -> {"idle", "signal", "overload", "report"}]
  /\ errNo \in [Producers -> 0..MaxQueueSize]
  /\ sender \in {"WaitForSendQueue", "havingWaiters", "wait", "FillConnectedSet",
                 "select", "SendFromQueue"}
  /\ setHandles \subseteq Sockets
  /\ vecHandles \subseteq Sockets
  /\ handle \in Sockets \cup {None}
  /\ spent \subseteq Sockets
  /\ reports \in Nat

Init ==
  /\ lstSendQueue = << >>
  /\ unsent = 0
  /\ havingWaiters = FALSE
  /\ event = FALSE
  /\ overload = FALSE
  /\ pc = [p \in Producers |-> "idle"]
  /\ errNo = [p \in Producers |-> 0]
  /\ sender = "WaitForSendQueue"
  /\ setHandles = {}
  /\ vecHandles = {}
  /\ handle = None
  /\ spent = {}
  /\ accepted = << >>
  /\ wire = << >>
  /\ reports = 0

-----------------------------------------------------------------------------
(* CClientTransport::Send and what CDiameterClient::Send does after it *)

AfterPush(p) == IF p \in Clients THEN "overload" ELSE "idle"

(* A full queue refuses the packet and nothing changes. *)
Push(p, d) ==
  /\ pc[p] = "idle"
  /\ Len(accepted) < MaxSends
  /\ Len(lstSendQueue) < MaxQueueSize
  /\ lstSendQueue' = Append(lstSendQueue, [packet |-> d, next |-> 1])
  /\ unsent' = unsent + 1
  /\ accepted' = Append(accepted, d)
  /\ errNo' = [errNo EXCEPT ![p] = Len(lstSendQueue')]
  /\ havingWaiters' = FALSE
  /\ pc' = [pc EXCEPT ![p] = IF unsent' = 1 /\ havingWaiters THEN "signal"
                             ELSE AfterPush(p)]
  /\ UNCHANGED <<event, overload, reports, senderVars, socketVars, wire>>

Signal(p) ==
  /\ pc[p] = "signal"
  /\ event' = TRUE
  /\ pc' = [pc EXCEPT ![p] = AfterPush(p)]
  /\ UNCHANGED <<queueVars, havingWaiters, overload, reports, errNo,
                 senderVars, socketVars, wire>>

Overloaded(p) == errNo[p] * 10 >= MaxQueueSize * 8 /\ ~overload

(* The flag is tested twice, and m_OverloadMutex given up in between. *)
CheckOverload(p) ==
  /\ pc[p] = "overload"
  /\ pc' = [pc EXCEPT ![p] = IF Overloaded(p) THEN "report" ELSE "idle"]
  /\ UNCHANGED <<queueVars, havingWaiters, event, overload, reports, errNo,
                 senderVars, socketVars, wire>>

OnOverload_Unchecked(p) ==   \* faulty: trusts the first test
  /\ pc[p] = "report"
  /\ overload' = TRUE
  /\ reports' = reports + 1
  /\ pc' = [pc EXCEPT ![p] = "idle"]
  /\ UNCHANGED <<queueVars, havingWaiters, event, errNo, senderVars,
                 socketVars, wire>>

OnOverload(p) ==
  /\ pc[p] = "report"
  /\ IF Overloaded(p)
     THEN overload' = TRUE /\ reports' = reports + 1
     ELSE UNCHANGED <<overload, reports>>
  /\ pc' = [pc EXCEPT ![p] = "idle"]
  /\ UNCHANGED <<queueVars, havingWaiters, event, errNo, senderVars,
                 socketVars, wire>>

Produce(p) ==
  (\E d \in Packets : Push(p, d)) \/ Signal(p) \/ CheckOverload(p)
  \/ OnOverload(p)

-----------------------------------------------------------------------------
(* CSendThread::svc *)

StepTo(label) ==
  /\ sender' = label
  /\ UNCHANGED <<queueVars, clientVars, socketVars, wire>>

(* Eight polls; only what the last one reads matters. *)
Poll ==
  /\ sender = "WaitForSendQueue"
  /\ StepTo(IF unsent # 0 THEN "FillConnectedSet" ELSE "havingWaiters")
  /\ UNCHANGED <<havingWaiters, event, vecHandles>>

RegisterWaiter_Unchecked ==   \* faulty: waits on what the polls read
  /\ sender = "havingWaiters"
  /\ havingWaiters' = TRUE
  /\ StepTo("wait")
  /\ UNCHANGED <<event, vecHandles>>

RegisterWaiter ==
  /\ sender = "havingWaiters"
  /\ havingWaiters' = (unsent = 0)
  /\ StepTo(IF unsent # 0 THEN "FillConnectedSet" ELSE "wait")
  /\ UNCHANGED <<event, vecHandles>>

WaitReturns ==
  /\ sender = "wait"
  /\ event
  /\ StepTo("FillConnectedSet")
  /\ UNCHANGED <<havingWaiters, event, vecHandles>>

FillConnectedSet_Once ==   \* faulty: keeps the first snapshot
  /\ sender = "FillConnectedSet"
  /\ vecHandles' = IF vecHandles = {} THEN setHandles ELSE vecHandles
  /\ StepTo("select")
  /\ UNCHANGED <<havingWaiters, event>>

FillConnectedSet ==
  /\ sender = "FillConnectedSet"
  /\ vecHandles' = setHandles
  /\ StepTo("select")
  /\ UNCHANGED <<havingWaiters, event>>

(* Nothing is writable in time, or a socket of the snapshot is closed. *)
SelectNone ==
  /\ sender = "select"
  /\ StepTo("WaitForSendQueue")
  /\ UNCHANGED <<havingWaiters, event, vecHandles>>

SelectReady ==
  /\ sender = "select"
  /\ handle \in vecHandles
  /\ StepTo("SendFromQueue")
  /\ UNCHANGED <<havingWaiters, event, vecHandles>>

(* The socket takes the pieces of the first packet up to last. *)
Written(first, last) ==
  [i \in 1 .. last - first.next + 1 |-> <<first.packet, first.next + i - 1>>]

SendFromQueue_Requeues(h) ==   \* faulty: puts the whole packet back
  /\ sender = "SendFromQueue"
  /\ h \in vecHandles
  /\ h = handle
  /\ lstSendQueue # << >>
  /\ LET first == Head(lstSendQueue)
     IN  \E last \in first.next .. Size[first.packet] :
           /\ wire' = wire \o Written(first, last)
           /\ IF last = Size[first.packet]
              THEN lstSendQueue' = Tail(lstSendQueue) /\ unsent' = unsent - 1
              ELSE UNCHANGED <<lstSendQueue, unsent>>
  /\ sender' = "WaitForSendQueue"
  /\ UNCHANGED <<accepted, havingWaiters, event, clientVars, vecHandles,
                 socketVars>>

(* What is left of a partly sent packet goes back to the front. *)
SendFromQueue(h) ==
  /\ sender = "SendFromQueue"
  /\ h \in vecHandles
  /\ h = handle
  /\ lstSendQueue # << >>
  /\ LET first == Head(lstSendQueue)
     IN  \E last \in first.next .. Size[first.packet] :
           /\ wire' = wire \o Written(first, last)
           /\ IF last = Size[first.packet]
              THEN lstSendQueue' = Tail(lstSendQueue) /\ unsent' = unsent - 1
              ELSE /\ lstSendQueue' = [lstSendQueue EXCEPT ![1].next = last + 1]
                   /\ UNCHANGED unsent
  /\ sender' = "WaitForSendQueue"
  /\ UNCHANGED <<accepted, havingWaiters, event, clientVars, vecHandles,
                 socketVars>>

(* Nothing to send, an error (the packet stays), or the socket is gone. *)
SendNothing ==
  /\ sender = "SendFromQueue"
  /\ StepTo("WaitForSendQueue")
  /\ UNCHANGED <<havingWaiters, event, vecHandles>>

SendThread ==
  Poll \/ RegisterWaiter \/ WaitReturns \/ FillConnectedSet \/ SelectNone
  \/ SelectReady \/ SendNothing

-----------------------------------------------------------------------------
(* The receive thread: CClientTransport::svc seen from the queue *)

AddClient(h) ==
  /\ handle = None
  /\ h \notin spent
  /\ handle' = h
  /\ setHandles' = setHandles \cup {h}
  /\ UNCHANGED <<queueVars, havingWaiters, event, clientVars, senderVars,
                 spent, wire>>

(* RemoveClient, then OnBreak, which clears the overload flag. *)
OnBreak ==
  /\ handle \in setHandles
  /\ setHandles' = setHandles \ {handle}
  /\ overload' = FALSE
  /\ reports' = 0
  /\ UNCHANGED <<queueVars, havingWaiters, event, pc, errNo, senderVars,
                 handle, spent, wire>>

(* The queue is left as it is. *)
CloseHandle ==
  /\ handle # None
  /\ handle \notin setHandles
  /\ handle' = None
  /\ spent' = spent \cup {handle}
  /\ UNCHANGED <<queueVars, havingWaiters, event, clientVars, senderVars,
                 setHandles, wire>>

ReceiveThread == (\E h \in Sockets : AddClient(h)) \/ OnBreak \/ CloseHandle

Next ==
  \/ \E p \in Producers : Produce(p)
  \/ SendThread
  \/ \E h \in Sockets : SendFromQueue(h)
  \/ ReceiveThread

Spec == Init /\ [][Next]_vars

(* Every thread runs on.  A socket that stays connected is found writable and
   takes data again and again, which is all TCP flow control promises.      *)
FairSpec ==
  /\ Spec
  /\ \A p \in Producers :
       WF_vars(Signal(p) \/ CheckOverload(p) \/ OnOverload(p))
  /\ WF_vars(SendThread)
  /\ SF_vars(SelectReady)
  /\ \A h \in Sockets : SF_vars(SendFromQueue(h))

-----------------------------------------------------------------------------
(* The send thread never waits on its event with packets in the queue unless a
   producer is about to signal: the push that ended the empty queue saw
   m_havingWaiters.                                                         *)
NoLostWakeup ==
  sender = "wait" /\ ~event /\ lstSendQueue # << >> =>
    \E p \in Producers : pc[p] = "signal"

(* The adapter is told of an overload once per connection, however many threads
   find the queue nearly full together.                                     *)
OverloadReportedOnce == reports = IF overload THEN 1 ELSE 0

(* The queue writes exactly the accepted packets, in order, whatever partial
   writes, errors and reconnections come between.                           *)
PS == INSTANCE PacketStream WITH Capacity <- MaxQueueSize
ImplementsStream == PS!Spec

(* With a connection that stays up every accepted packet is written: neither a
   missed signal nor a stale snapshot of the sockets stops the queue.       *)
AllWritten == <>[](setHandles # {}) => <>[](lstSendQueue = << >>)
=============================================================================
