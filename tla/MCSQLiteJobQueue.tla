-------------------------- MODULE MCSQLiteJobQueue --------------------------
(***************************************************************************)
(* Bounds for TLC: two or three jobs, two workers, two attempts per job,   *)
(* one or two restarts, a channel smaller or as large as the jobs.         *)
(***************************************************************************)
EXTENDS SQLiteJobQueue

Symmetry == Permutations(JobIDs) \cup Permutations(Workers)

----------------------------------------------------------------------------
(* What the repository says of the queue and the code does not do.         *)

\* documentation/docs/configuration/queue.md:13: "When you execute a workflow
\* asynchronously, a job is created, queued, and processed by worker threads."
\* Here the process never stops and no statement fails.
AcceptedJobsAreProcessed ==
  \A j \in JobIDs : Accepted(j) ~> rowStatus[j] \in {"completed", "failed"}
=============================================================================
