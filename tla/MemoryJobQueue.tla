--------------------------- MODULE MemoryJobQueue ---------------------------
(***************************************************************************)
(* MemoryJobQueue (internal/queue/memory_job_queue.go) shared by the HTTP  *)
(* handlers that enqueue and by the workers of WorkerPool.  Each method    *)
(* runs under q.mu and is one step, except Dequeue: its channel receive    *)
(* comes before the lock, so a received job is for a while in no channel   *)
(* and still in the pending map.                                           *)
(***************************************************************************)
EXTENDS WorkerPool, SequencesExt

CONSTANTS
  JobIDs,      \* the jobs the handlers enqueue, each under a fresh id
  MaxRetries,  \* Job.MaxRetries
  BufferSize   \* capacity of the channel (1000 in serve)

ASSUME QueueAssumption ==
  /\ MaxRetries \in Nat \ {0}
  /\ BufferSize \in Nat \ {0}
  /\ NoJob \notin JobIDs

VARIABLES
  jobs,        \* the channel, a sequence of ids
  pending,     \* the three maps, as sets of ids
  running,
  completed,
  jobStatus,   \* Job.Status, "unset" before Enqueue
  retryCount,  \* Job.RetryCount
  closed,
  reply,       \* reply[j]: what Enqueue(j) returned to its handler
  runs         \* runs[j]: times j was handed to a worker (history)

queueVars == <<jobs, pending, running, completed, jobStatus, retryCount,
               closed, reply, runs>>
vars == <<poolVars, queueVars>>

JobStatuses == {"unset", "pending", "running", "completed", "failed"}

TypeOK ==
  /\ PoolTypeOK
  /\ wjob \in [Workers -> JobIDs \cup {NoJob}]
  /\ jobs \in Seq(JobIDs)
  /\ Len(jobs) <= BufferSize
  /\ pending \in SUBSET JobIDs
  /\ running \in SUBSET JobIDs
  /\ completed \in SUBSET JobIDs
  /\ jobStatus \in [JobIDs -> JobStatuses]
  /\ retryCount \in [JobIDs -> 0..MaxRetries]
  /\ closed \in BOOLEAN
  /\ reply \in [JobIDs -> {"none", "accepted", "refused"}]
  /\ runs \in [JobIDs -> Nat]

Init ==
  /\ PoolInit
  /\ jobs = <<>>
  /\ pending = {}
  /\ running = {}
  /\ completed = {}
  /\ jobStatus = [j \in JobIDs |-> "unset"]
  /\ retryCount = [j \in JobIDs |-> 0]
  /\ closed = FALSE
  /\ reply = [j \in JobIDs |-> "none"]
  /\ runs = [j \in JobIDs |-> 0]

\* Faulty forms of the helpers below, used to show that the properties
\* depend on them: a delete that is forgotten, a failure not counted, a status
\* not written.
KeptInPending(j) == pending' = pending \cup {j}
KeptInRunning(j) == UNCHANGED running
NotCounted(j) == UNCHANGED retryCount
StatusKept(j, s) == UNCHANGED jobStatus

SetStatus(j, s) == jobStatus' = [jobStatus EXCEPT ![j] = s]
Reply(j, r) == reply' = [reply EXCEPT ![j] = r]

Full == Len(jobs) >= BufferSize
Send(j) == jobs' = Append(jobs, j)

\* delete(q.running, id), and the failure path of a full channel, which puts
\* the job in the pending map and deletes it again.
Release(j) == running' = running \ {j}
TakenBack(j) == pending' = (pending \cup {j}) \ {j}

Failed(j) == retryCount' = [retryCount EXCEPT ![j] = @ + 1]
RetryLeft(j) == retryCount[j] + 1 < MaxRetries

----------------------------------------------------------------------------
(* Enqueue.  Handlers may call it in every phase: serve does not wait for  *)
(* them before it stops the pool and closes the queue.                     *)

EnqueueAccepted(j) ==
  /\ reply[j] = "none"
  /\ ~closed /\ j \notin pending /\ ~Full
  /\ pending' = pending \cup {j}
  /\ Send(j)
  /\ SetStatus(j, "pending")
  /\ Reply(j, "accepted")
  /\ UNCHANGED <<poolVars, running, completed, retryCount, closed, runs>>

\* "queue is closed" or "already exists": the job is not touched.
EnqueueRejected(j) ==
  /\ reply[j] = "none"
  /\ closed \/ j \in pending
  /\ Reply(j, "refused")
  /\ UNCHANGED <<poolVars, jobs, pending, running, completed, jobStatus,
                 retryCount, closed, runs>>

\* "queue is full": the job is taken out of the map it was just put in.
EnqueueFull(j) ==
  /\ reply[j] = "none"
  /\ ~closed /\ j \notin pending /\ Full
  /\ SetStatus(j, "pending")
  /\ TakenBack(j)
  /\ Reply(j, "refused")
  /\ UNCHANGED <<poolVars, jobs, running, completed, retryCount, closed,
                 runs>>

----------------------------------------------------------------------------
(* Dequeue: the receive, then the move between the maps under the lock.    *)

Receive(w) ==
  /\ jobs # <<>>
  /\ Take(w, Head(jobs))
  /\ jobs' = Tail(jobs)
  /\ UNCHANGED <<pending, running, completed, jobStatus, retryCount, closed,
                 reply, runs>>

MarkRunning(w) ==
  LET j == wjob[w] IN
  /\ Dequeued(w)
  /\ pending' = pending \ {j}
  /\ running' = running \cup {j}
  /\ SetStatus(j, "running")
  /\ runs' = [runs EXCEPT ![j] = @ + 1]
  /\ UNCHANGED <<jobs, completed, retryCount, closed, reply>>

----------------------------------------------------------------------------
(* Ack and Nack.  Their "not found in running jobs" return is unreachable  *)
(* while RunningIsHeld holds.                                              *)

Settle(j, s) ==
  /\ Release(j)
  /\ completed' = completed \cup {j}
  /\ SetStatus(j, s)

Ack(w) ==
  /\ wjob[w] \in running
  /\ Decide(w, "ack")
  /\ Settle(wjob[w], "completed")
  /\ UNCHANGED <<jobs, pending, retryCount, closed, reply, runs>>

NackRetry(w) ==
  LET j == wjob[w] IN
  /\ j \in running
  /\ Decide(w, "nack")
  /\ RetryLeft(j) /\ ~Full
  /\ Failed(j)
  /\ Release(j)
  /\ pending' = pending \cup {j}
  /\ Send(j)
  /\ SetStatus(j, "pending")
  /\ UNCHANGED <<completed, closed, reply, runs>>

\* An attempt is left but the channel is full: the retry is given up.
NackFull(w) ==
  LET j == wjob[w] IN
  /\ j \in running
  /\ Decide(w, "nack")
  /\ RetryLeft(j) /\ Full
  /\ Failed(j)
  /\ TakenBack(j)
  /\ Settle(j, "failed")
  /\ UNCHANGED <<jobs, closed, reply, runs>>

\* No attempt is left.
NackFail(w) ==
  LET j == wjob[w] IN
  /\ j \in running
  /\ Decide(w, "nack")
  /\ ~RetryLeft(j)
  /\ Failed(j)
  /\ Settle(j, "failed")
  /\ UNCHANGED <<jobs, pending, closed, reply, runs>>

----------------------------------------------------------------------------
\* Close runs once the pool has stopped, so no worker sees closeCh.
Close ==
  /\ phase = "stopped" /\ ~closed
  /\ closed' = TRUE
  /\ UNCHANGED <<poolVars, jobs, pending, running, completed, jobStatus,
                 retryCount, reply, runs>>

PoolStep(w) ==
  /\ \/ LoopTop(w) \/ DequeueTimeout(w) \/ DequeueCancelled(w) \/ Execute(w)
  /\ UNCHANGED queueVars

WorkerStep(w) ==
  \/ PoolStep(w) \/ Receive(w) \/ MarkRunning(w)
  \/ Ack(w) \/ NackRetry(w) \/ NackFull(w) \/ NackFail(w)

Shutdown == (StopPool \/ PoolStopped) /\ UNCHANGED queueVars

Enqueue(j) == EnqueueAccepted(j) \/ EnqueueRejected(j) \/ EnqueueFull(j)

Next ==
  \/ \E j \in JobIDs : Enqueue(j)
  \/ \E w \in Workers : WorkerStep(w)
  \/ Shutdown
  \/ Close

Spec == Init /\ [][Next]_vars

\* Goroutines are scheduled and workflows end.  A select with a job waiting
\* picks the receive at random among its ready cases, hence SF for it.
FairSpec ==
  /\ Spec
  /\ \A w \in Workers : WF_vars(WorkerStep(w)) /\ SF_vars(Receive(w))
  /\ WF_vars(PoolStopped /\ UNCHANGED queueVars)
  /\ WF_vars(Close)

----------------------------------------------------------------------------
InChannel == ToSet(jobs)
InTransit(j) == \E w \in Workers : wpc[w] = "received" /\ wjob[w] = j
Held(w) == wpc[w] \in Holding
Accepted(j) == reply[j] = "accepted"

\* An accepted job is in exactly one of the maps GetJob reads and a job that
\* was refused is in none (Enqueue and Nack both take back what they put in).
JobsConserved ==
  /\ pending \cap running = {}
  /\ (pending \cup running) \cap completed = {}
  /\ \A j \in JobIDs : Accepted(j) <=> j \in pending \cup running \cup completed

\* A pending job is never stranded: it is in the channel or received by a
\* worker waiting for the lock, once in all, however receives, retries and
\* refused sends interleave.
PendingIsReachable ==
  /\ \A j \in JobIDs : j \in pending <=> (j \in InChannel \/ InTransit(j))
  /\ IsInjective(jobs)
  /\ \A j \in InChannel : ~InTransit(j)

\* Every running job is held by a worker, and no two workers hold (or are
\* about to hold) the same job: Ack and Nack always find their job.
RunningIsHeld ==
  /\ running = {wjob[w] : w \in {v \in Workers : Held(v)}}
  /\ \A v, w \in Workers :
       wjob[v] = wjob[w] /\ wjob[v] # NoJob => v = w
  /\ \A w \in Workers : wjob[w] = NoJob <=> ~Held(w) /\ wpc[w] # "received"

\* Job.Status, which GetJob and the jobs API report, agrees with the map the
\* job is in, and a job has failed once its attempts are used up.
StatusAgrees ==
  \A j \in JobIDs :
    /\ j \in pending => jobStatus[j] = "pending"
    /\ j \in running => jobStatus[j] = "running"
    /\ j \in completed => jobStatus[j] \in {"completed", "failed"}
    /\ jobStatus[j] \in {"unset", "pending"} \/ Accepted(j)
    /\ retryCount[j] < MaxRetries \/ jobStatus[j] = "failed"

\* Every hand-over to a worker is accounted for: as a failed attempt, as the
\* attempt in progress or as the one that succeeded; there are never more of
\* them than MaxRetries.
AttemptsBounded ==
  \A j \in JobIDs :
    /\ runs[j] = retryCount[j]
                 + (IF jobStatus[j] \in {"running", "completed"} THEN 1 ELSE 0)
    /\ runs[j] <= MaxRetries

\* A graceful stop leaves no job running: what the queue's Close abandons
\* was never started or is waiting for its next attempt.
StopDrainsRunning == phase = "stopped" => running = {}

\* The inductive invariant of the proofs.
Inv ==
  /\ TypeOK
  /\ JobsConserved
  /\ PendingIsReachable
  /\ RunningIsHeld
  /\ StatusAgrees
  /\ AttemptsBounded
  /\ phase = "stopped" => AllExited

\* The in-memory queue implements the abstract ledger of jobs.
Life(j) ==
  CASE j \in pending -> "pending"
    [] j \in running -> "running"
    [] j \in completed -> jobStatus[j]
    [] OTHER -> IF reply[j] = "none" THEN "new" ELSE "refused"

Ledger == INSTANCE JobLedger
            WITH status <- [j \in JobIDs |-> Life(j)], tries <- retryCount

ImplementsLedger == Ledger!LedgerSpec

\* An accepted job is completed or failed unless the server is stopped: no
\* timing of timeouts, retries and full channels leaves one waiting forever.
AcceptedJobsSettle ==
  \A j \in JobIDs : Accepted(j) ~> (j \in completed \/ cancelled)

\* Stop and Close terminate: the pool never waits on a worker that waits on
\* the queue.
StopTerminates == cancelled ~> closed
=============================================================================
