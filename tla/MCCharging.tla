----------------------------- MODULE MCCharging -----------------------------
(* Charging for TLC: a quote and a charge of one session, and a direct debit
   of another.                                                              *)
EXTENDS Charging, TLC

CONSTANTS quote, charge, debit, s1, s2

AllRequests == {quote, charge, debit}
MCSidOf == [r \in Requests |-> IF r = debit THEN s2 ELSE s1]
MCTypeOf == [r \in Requests |-> CASE r = quote -> "INITIAL"
                                   [] r = charge -> "TERMINATION"
                                   [] r = debit -> "EVENT"]
MCSids == {s1, s2}
Symmetry == Permutations(TimerIds)
=============================================================================
