----------------------------- MODULE MCConnection -----------------------------
(* Connection for TLC: the receive threads may be permuted. *)
EXTENDS Connection, TLC

Symmetry == Permutations(Threads)
===============================================================================
