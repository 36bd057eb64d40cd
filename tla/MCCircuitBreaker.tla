-------------------------- MODULE MCCircuitBreaker --------------------------
(***************************************************************************)
(* Bounds for TLC: three callers, so that calls of the closed state report *)
(* late while two probes run, thresholds of two.                           *)
(***************************************************************************)
EXTENDS CircuitBreaker, TLC

Symmetry == Permutations(Calls)

----------------------------------------------------------------------------
(* What the repository says of the breaker and the code does not do.       *)

\* retry.go:198: MaxConcurrentCalls is the "Max concurrent calls in
\* half-open": with no probe running there is room for one.
HalfOpenLimitsConcurrency ==
  state = "halfOpen" /\ probes = {} => RoomForProbe
=============================================================================
