----------------------------- MODULE MCSendQueue -----------------------------
(* SendQueue for TLC: p1 goes out in one piece, p2 in up to two. *)
EXTENDS SendQueue, TLC

CONSTANTS p1, p2

MCPackets == {p1, p2}
MCSize == (p1 :> 1) @@ (p2 :> 2)
Symmetry == Permutations(Clients) \cup Permutations(Sockets)
=============================================================================
