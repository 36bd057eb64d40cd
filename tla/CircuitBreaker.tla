--------------------------- MODULE CircuitBreaker ---------------------------
(***************************************************************************)
(* CircuitBreaker (internal/reliability/retry.go), one per node type of a  *)
(* reliable engine.  A call asks for admission under the lock, runs        *)
(* without it and reports its result under it again: by then the breaker   *)
(* may be in another state than the one that admitted the call.            *)
(* A refused call (ErrCircuitOpen) changes nothing and is no step.         *)
(***************************************************************************)
EXTENDS Naturals, FiniteSets

CONSTANTS
  Calls,               \* concurrent callers of Execute
  FailureThreshold,    \* the fields of CircuitBreakerConfig
  SuccessThreshold,
  MaxConcurrentCalls,
  MaxFailureCount      \* bound: an open breaker counts failures on and on

ASSUME BreakerAssumption ==
  /\ FailureThreshold \in Nat \ {0}
  /\ SuccessThreshold \in Nat \ {0}
  /\ MaxConcurrentCalls \in Nat \ {0}
  /\ MaxFailureCount \in Nat
  /\ IsFiniteSet(Calls)

VARIABLES
  state,          \* "closed", "open", "halfOpen"
  failureCount,
  successCount,
  halfOpenCalls,
  expired,        \* Timeout has passed since lastFailureTime
  stage,          \* stage[c]: "idle", or "running" its function
  probes          \* the running calls that this half-open state admitted
                  \* (history)

breakerVars == <<state, failureCount, successCount, halfOpenCalls, expired,
                 stage, probes>>

BreakerTypeOK ==
  /\ state \in {"closed", "open", "halfOpen"}
  /\ failureCount \in Nat
  /\ successCount \in Nat
  /\ halfOpenCalls \in Nat
  /\ expired \in BOOLEAN
  /\ stage \in [Calls -> {"idle", "running"}]
  /\ probes \in SUBSET Calls

BreakerInit ==
  /\ state = "closed"
  /\ failureCount = 0 /\ successCount = 0 /\ halfOpenCalls = 0
  /\ expired = FALSE
  /\ stage = [c \in Calls |-> "idle"]
  /\ probes = {}

\* Faulty forms: probes counted from where the last half-open state left off,
\* successes kept over a failure, a limit off by one.
KeptCounting == halfOpenCalls' = halfOpenCalls + 1
SuccessesKept == UNCHANGED successCount
RoomForOneMore == halfOpenCalls <= MaxConcurrentCalls

Trips == failureCount + 1 >= FailureThreshold
FirstProbe == halfOpenCalls' = 1
SuccessesReset == successCount' = 0
RoomForProbe == halfOpenCalls < MaxConcurrentCalls

Moves(c, from, to) == stage[c] = from /\ stage' = [stage EXCEPT ![c] = to]

----------------------------------------------------------------------------
\* allowRequest.
AllowClosed(c) ==
  /\ state = "closed"
  /\ Moves(c, "idle", "running")
  /\ UNCHANGED <<state, failureCount, successCount, halfOpenCalls, expired,
                 probes>>

\* The first call after the timeout turns the breaker half-open.
AllowFirst(c) ==
  /\ state = "open" /\ expired
  /\ Moves(c, "idle", "running")
  /\ state' = "halfOpen"
  /\ FirstProbe
  /\ probes' = {c}
  /\ UNCHANGED <<failureCount, successCount, expired>>

\* halfOpenCalls is never decremented: it counts the calls that a half-open
\* state has admitted, not those that are running.
AllowHalfOpen(c) ==
  /\ state = "halfOpen"
  /\ RoomForProbe
  /\ Moves(c, "idle", "running")
  /\ halfOpenCalls' = halfOpenCalls + 1
  /\ probes' = probes \cup {c}
  /\ UNCHANGED <<state, failureCount, successCount, expired>>

\* recordResult(err), of a call admitted in whatever state.
RecordFailure(c) ==
  /\ failureCount < MaxFailureCount
  /\ Moves(c, "running", "idle")
  /\ failureCount' = failureCount + 1
  /\ SuccessesReset
  /\ expired' = FALSE
  /\ state' = IF (state = "closed" /\ Trips) \/ state = "halfOpen"
              THEN "open" ELSE state
  /\ probes' = probes \ {c}
  /\ UNCHANGED halfOpenCalls

Closes == successCount + 1 >= SuccessThreshold

RecordSuccess(c) ==
  /\ Moves(c, "running", "idle")
  /\ \/ /\ state = "closed"
        /\ failureCount' = 0
        /\ UNCHANGED <<state, successCount>>
     \/ /\ state = "halfOpen" /\ Closes
        /\ state' = "closed"
        /\ failureCount' = 0 /\ successCount' = 0
     \/ /\ state = "halfOpen" /\ ~Closes
        /\ successCount' = successCount + 1
        /\ UNCHANGED <<state, failureCount>>
     \/ /\ state = "open"
        /\ UNCHANGED <<state, failureCount, successCount>>
  /\ probes' = probes \ {c}
  /\ UNCHANGED <<halfOpenCalls, expired>>

\* time.Since(lastFailureTime) comes to exceed Timeout.
TimeoutPasses ==
  /\ state = "open" /\ ~expired
  /\ expired' = TRUE
  /\ UNCHANGED <<state, failureCount, successCount, halfOpenCalls, stage,
                 probes>>

Reset ==
  /\ state' = "closed"
  /\ failureCount' = 0 /\ successCount' = 0 /\ halfOpenCalls' = 0
  /\ probes' = {}
  /\ UNCHANGED <<expired, stage>>

Report(c) == RecordFailure(c) \/ RecordSuccess(c)

BreakerNext ==
  \/ TimeoutPasses \/ Reset
  \/ \E c \in Calls :
       AllowClosed(c) \/ AllowFirst(c) \/ AllowHalfOpen(c) \/ Report(c)

BreakerSpec == BreakerInit /\ [][BreakerNext]_breakerVars

\* Calls return and callers come back: a half-open breaker that has room is
\* asked again.
BreakerFairness ==
  /\ \A c \in Calls : WF_breakerVars(Report(c))
  /\ WF_breakerVars(\E c \in Calls : AllowHalfOpen(c))

BreakerFairSpec == BreakerSpec /\ BreakerFairness

----------------------------------------------------------------------------
\* A closed breaker has not met its threshold, though calls that it or an
\* earlier state admitted report in any order (retry.go:308-332, 340-344).
ClosedIsBelowThreshold ==
  state = "closed" => failureCount < FailureThreshold

\* A half-open state has never more than MaxConcurrentCalls probes running
\* (retry.go:279-292).
ProbesAreLimited ==
  state = "halfOpen" => Cardinality(probes) <= MaxConcurrentCalls

\* An open breaker has no successes in hand, so that the half-open state after
\* it counts from none, although successCount is not reset where that state
\* begins.  It then counts late successes too (retry.go:279-282, 308-311).
HalfOpenStartsClean == state = "open" => successCount = 0

\* If a half-open state may admit as many calls as it needs successes, it is
\* left: no sequence of late and lost outcomes wedges the breaker
\* (retry.go:270-297).
HalfOpenEnds == state = "halfOpen" ~> state # "halfOpen"

\* What the limit rests on: the counter covers the running probes.
ProbesAreCounted ==
  state = "halfOpen" =>
    /\ Cardinality(probes) <= halfOpenCalls
    /\ halfOpenCalls <= MaxConcurrentCalls

\* The inductive invariant.
BreakerInv ==
  /\ BreakerTypeOK
  /\ ClosedIsBelowThreshold /\ ProbesAreCounted /\ HalfOpenStartsClean
=============================================================================
