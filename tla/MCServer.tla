------------------------------ MODULE MCServer ------------------------------
(* A session that is opened and updated.                                   *)
EXTENDS Server, TLC

MCRequests == {[sid |-> 1, type |-> "INITIAL"], [sid |-> 1, type |-> "UPDATE"]}
Symmetry == Permutations(Threads) \cup Permutations(Handles)
=============================================================================
