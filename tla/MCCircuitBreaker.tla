-------------------------- MODULE MCCircuitBreaker --------------------------
(* Small instances of CircuitBreaker.                                      *)
EXTENDS CircuitBreaker, TLC

CONSTANTS a, r1, r2

Single == { <<a>> }
ThresholdOf == [m \in Modules |-> 2]
EnabledOf == [m \in Modules |-> TRUE]
RunSymmetry == Permutations(Runs)
=============================================================================
