-------------------------- MODULE MCCircuitBreaker --------------------------
(***************************************************************************)
(* An instance of CircuitBreaker: three callers, a window of four results  *)
(* and the default threshold of one half.                                  *)
(***************************************************************************)
EXTENDS CircuitBreaker

=============================================================================
