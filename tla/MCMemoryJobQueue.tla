-------------------------- MODULE MCMemoryJobQueue --------------------------
(***************************************************************************)
(* Bounds for TLC: three or two jobs, two workers, a channel smaller than  *)
(* the jobs so that sends meet a full channel, two attempts per job.       *)
(***************************************************************************)
EXTENDS MemoryJobQueue

Symmetry == Permutations(JobIDs) \cup Permutations(Workers)

----------------------------------------------------------------------------
(* What the repository says of the queue and the code does not do.         *)

\* documentation/docs/architecture/queue.md:287 requeues a failed run while
\* job.RetryCount < job.MaxRetries and counts afterwards: a job that fails
\* has been run MaxRetries + 1 times (an attempt and MaxRetries retries).
FailedAfterAllRetries ==
  \A j \in JobIDs : jobStatus[j] = "failed" => runs[j] = MaxRetries + 1
=============================================================================
