----------------------------- MODULE MCMediator -----------------------------
(* Mediator for TLC: a quote and a charge of one session. *)
EXTENDS Mediator, TLC

CONSTANTS quote, charge, s1

MCRequests == {quote, charge}
MCSidOf == [r \in Requests |-> s1]
MCTypeOf == (quote :> "INITIAL") @@ (charge :> "TERMINATION")
MCSids == {s1}
=============================================================================
