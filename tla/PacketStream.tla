---------------------------- MODULE PacketStream ----------------------------
(***************************************************************************)
(* What CClientTransport's send queue promises: the octets handed to the   *)
(* socket are the accepted packets' octets, in the order the packets were  *)
(* accepted in, nothing missing, repeated or interleaved, and the backlog  *)
(* is bounded.                                                             *)
(***************************************************************************)
EXTENDS Integers, Sequences, FiniteSets

CONSTANTS
  Packets,    (* the packets a caller can send                              *)
  Size,       (* Size[p]: how many pieces the socket can take p in          *)
  Capacity    (* m_maxQueueSize                                             *)

VARIABLES
  accepted,   (* the packets Send has returned PUT_TO_QUEUE for             *)
  wire        (* the pieces the socket has taken: <<packet, i>>             *)

Pieces(p) == [i \in 1..Size[p] |-> <<p, i>>]

(* Streams(packets)[k]: the pieces of the first k packets, one packet after the
   other.                                                                   *)
Streams(packets) ==
  LET upTo[k \in 0..Len(packets)] ==
        IF k = 0 THEN << >> ELSE upTo[k - 1] \o Pieces(packets[k])
  IN  upTo

Stream == Streams(accepted)[Len(accepted)]

(* How many accepted packets are not yet written to the end. *)
Backlog ==
  Cardinality({k \in 1..Len(accepted) : Len(wire) < Len(Streams(accepted)[k])})

Init == accepted = << >> /\ wire = << >>

Accept ==
  /\ Backlog < Capacity
  /\ \E p \in Packets : accepted' = Append(accepted, p)
  /\ UNCHANGED wire

Write ==
  /\ \E n \in Len(wire) + 1 .. Len(Stream) :
       wire' = SubSeq(Stream, 1, n)
  /\ UNCHANGED accepted

Next == Accept \/ Write

Spec == Init /\ [][Next]_<<accepted, wire>>
=============================================================================
