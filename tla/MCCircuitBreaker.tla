-------------------------- MODULE MCCircuitBreaker --------------------------
(***************************************************************************)
(* Three threads share a breaker that trips at two failures, cools down in *)
(* one tick and takes two probes: the smallest instance in which a call of *)
(* an earlier period, a probe and a rejected call overlap.                 *)
(***************************************************************************)
EXTENDS CircuitBreaker

=============================================================================
