----------------------------- MODULE MCLogPool -----------------------------
(* LogPool for TLC: the threads may be permuted where no liveness is asked. *)
EXTENDS LogPool, TLC

Symmetry == Permutations(Threads)
=============================================================================
