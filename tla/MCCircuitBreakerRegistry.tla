---------------------- MODULE MCCircuitBreakerRegistry ----------------------
(***************************************************************************)
(* Small instances of CircuitBreakerRegistry.  Tasks are interchangeable   *)
(* as long as no liveness is checked.                                      *)
(***************************************************************************)
EXTENDS CircuitBreakerRegistry, TLC

TaskSymmetry == Permutations(Tasks)
=============================================================================
