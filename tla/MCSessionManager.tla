-------------------------- MODULE MCSessionManager --------------------------
(* SessionManager for TLC: which constants may be permuted. *)
EXTENDS SessionManager, TLC

Symmetry == Permutations(Sids) \cup Permutations(Clients)
            \cup Permutations(TimerIds)
=============================================================================
