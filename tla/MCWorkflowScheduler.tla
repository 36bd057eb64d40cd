------------------------ MODULE MCWorkflowScheduler ------------------------
(***************************************************************************)
(* Bounds for TLC: crons enough for an id to get a second one, goroutines  *)
(* enough for two of its runs to overlap, a MaxRuns they can reach.        *)
(***************************************************************************)
EXTENDS WorkflowScheduler, TLC

Symmetry == Permutations(Crons) \cup Permutations(Goroutines)

----------------------------------------------------------------------------
(* What the repository says of the scheduler and the code does not do.     *)

\* documentation/docs/scheduling/index.md:62-73 updates the cron expression
\* of an enabled schedule: it ticks with the new one.
RescheduledIsTicking ==
  ~stopped => \A id \in schedules :
    enabled[id] /\ touched[id] = {"rescheduled"} => cronJobs[id] \in ticking

\* workflow_scheduler_test.go:118: "Adding same ID replaces existing
\* (updates)": the cron that is replaced ticks no more.
ReplacedIsSilent ==
  \A id \in IDs : Cardinality({c \in ticking : owner[c] = id}) <= 1

\* documentation/docs/scheduling/index.md:145-149: a run that is due while
\* the previous one is running is skipped by default.
OverlappingIsSkipped == \A g \in late : pc[g] \notin AtWork

\* documentation/docs/scheduling/index.md:39: an active workflow "runs on
\* schedule".  Where the storage has every workflow, no run fails for want
\* of one.
RunsGetTheirWorkflow == \A id \in IDs : unloaded[id] = 0
=============================================================================
