-------------------------- MODULE MCCircuitBreaker --------------------------
(* The TLC instance of CircuitBreaker.  Its run checks liveness, so it uses *)
(* no symmetry.                                                             *)
EXTENDS CircuitBreaker

=============================================================================
