----------------------------- MODULE MCHITLGate -----------------------------
(* Two destructive actions, two callers, every kind of timeout.            *)
EXTENDS HITLGate, TLC

Symmetry == Permutations(Requests) \cup Permutations(Callers)
=============================================================================
