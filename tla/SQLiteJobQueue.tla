--------------------------- MODULE SQLiteJobQueue ---------------------------
(***************************************************************************)
(* SQLiteJobQueue (internal/queue/sqlite_job_queue.go): the channel and    *)
(* the two maps of a process, and the rows of the jobs table that outlive  *)
(* it.  Any statement may fail (DBFaults) and the process may die at any   *)
(* moment and be started again.  Each method runs under q.mu and executes  *)
(* one statement, so a crash in the middle of a method cannot be told from *)
(* one just before or just after it: what the process knew is lost anyway. *)
(***************************************************************************)
EXTENDS WorkerPool, SequencesExt

CONSTANTS
  JobIDs,       \* the jobs the handlers enqueue, each under a fresh id
  MaxRetries,   \* Job.MaxRetries
  BufferSize,   \* capacity of the channel (1000 in serve)
  DBFaults,     \* whether statements may fail
  MaxRestarts   \* bound: how often the process may end and start again

ASSUME QueueAssumption ==
  /\ MaxRetries \in Nat \ {0}
  /\ BufferSize \in Nat \ {0}
  /\ MaxRestarts \in Nat
  /\ DBFaults \in BOOLEAN
  /\ NoJob \notin JobIDs

VARIABLES
  rowStatus,   \* the jobs table: jobs.status ("none": no row)
  rowRetries,  \*                 jobs.retry_count
  up,          \* the process runs
  jobs,        \* the channel
  pending,     \* the two maps
  running,
  retryCount,  \* Job.RetryCount of the object in memory
  closed,
  reply,       \* what Enqueue returned to the handler of each job
  runs,        \* times each job was handed to a worker (history)
  missed,      \* jobs that were not sent, or that a statement failed for,
               \* since the queue was last loaded (history)
  restarts     \* restarts so far (history and bound)

memory == <<jobs, pending, running, retryCount, closed>>
table == <<rowStatus, rowRetries>>
history == <<reply, runs, restarts>>
queueVars == <<table, up, memory, history, missed>>
vars == <<poolVars, queueVars>>

RowStatuses == {"none", "pending", "running", "completed", "failed"}

TypeOK ==
  /\ PoolTypeOK
  /\ wjob \in [Workers -> JobIDs \cup {NoJob}]
  /\ rowStatus \in [JobIDs -> RowStatuses]
  /\ rowRetries \in [JobIDs -> 0..MaxRetries]
  /\ up \in BOOLEAN
  /\ jobs \in Seq(JobIDs)
  /\ Len(jobs) <= BufferSize
  /\ pending \in SUBSET JobIDs
  /\ running \in SUBSET JobIDs
  /\ retryCount \in [JobIDs -> 0..MaxRetries]
  /\ closed \in BOOLEAN
  /\ reply \in [JobIDs -> {"none", "accepted", "refused"}]
  /\ runs \in [JobIDs -> Nat]
  /\ missed \in SUBSET JobIDs
  /\ restarts \in 0..MaxRestarts

Init ==
  /\ PoolInit
  /\ rowStatus = [j \in JobIDs |-> "none"]
  /\ rowRetries = [j \in JobIDs |-> 0]
  /\ up = TRUE
  /\ jobs = <<>>
  /\ pending = {}
  /\ running = {}
  /\ retryCount = [j \in JobIDs |-> 0]
  /\ closed = FALSE
  /\ reply = [j \in JobIDs |-> "none"]
  /\ runs = [j \in JobIDs |-> 0]
  /\ missed = {}
  /\ restarts = 0

\* Faulty forms of definitions below, used to show that the properties
\* depend on them: running rows that the reload leaves out; a retry count that
\* is not stored; running rows that are not reset, or failed ones that are; an
\* INSERT or UPDATE error that is ignored.
OnlyPendingRecovered == {j \in JobIDs : rowStatus[j] = "pending"}
RowRetriesKept(j) == UNCHANGED rowRetries
ResetForgotten(status) == status
ResetFailedToo(status) ==
  IF status \in {"running", "failed"} THEN "pending" ELSE status

InsertErrorIgnored(j) ==
  /\ up /\ reply[j] = "none"
  /\ closed \/ DBFaults
  /\ reply' = [reply EXCEPT ![j] = "accepted"]
  /\ UNCHANGED <<poolVars, table, up, memory, runs, restarts, missed>>

Full == Len(jobs) >= BufferSize

\* select { case q.jobs <- job: default: }: dropped when the channel is full.
TrySend(j) ==
  /\ jobs' = IF Full THEN jobs ELSE Append(jobs, j)
  /\ missed' = IF Full THEN missed \cup {j} ELSE missed

\* UPDATE jobs SET status = s WHERE id = j, which succeeds.
SetRow(j, s) == rowStatus' = [rowStatus EXCEPT ![j] = s]

----------------------------------------------------------------------------
\* Enqueue inserts the row before it touches memory; whether the channel has
\* room makes no difference to the caller.
EnqueueInserted(j) ==
  /\ up /\ reply[j] = "none"
  /\ ~closed /\ rowStatus[j] = "none"
  /\ SetRow(j, "pending")
  /\ pending' = pending \cup {j}
  /\ TrySend(j)
  /\ reply' = [reply EXCEPT ![j] = "accepted"]
  /\ UNCHANGED <<poolVars, rowRetries, up, running, retryCount, closed, runs,
                 restarts>>

\* The queue is closed, or the INSERT fails.
EnqueueRefused(j) ==
  /\ up /\ reply[j] = "none"
  /\ closed \/ DBFaults
  /\ reply' = [reply EXCEPT ![j] = "refused"]
  /\ UNCHANGED <<poolVars, table, up, memory, runs, restarts, missed>>

----------------------------------------------------------------------------
\* Dequeue: the receive, and under the lock the UPDATE that decides.
Receive(w) ==
  /\ jobs # <<>>
  /\ Take(w, Head(jobs))
  /\ jobs' = Tail(jobs)
  /\ UNCHANGED <<table, up, pending, running, retryCount, closed, history, missed>>

MarkRunning(w) ==
  LET j == wjob[w] IN
  /\ Dequeued(w)
  /\ SetRow(j, "running")
  /\ pending' = pending \ {j}
  /\ running' = running \cup {j}
  /\ runs' = [runs EXCEPT ![j] = @ + 1]
  /\ UNCHANGED <<rowRetries, up, jobs, retryCount, closed, reply, restarts, missed>>

UpdateErrorIgnored(w) ==
  /\ DBFaults
  /\ Dequeued(w)
  /\ TrySend(wjob[w])
  /\ UNCHANGED <<table, up, pending, running, retryCount, closed, history>>

\* The UPDATE fails: the job goes back to the channel if there is still room
\* (an Enqueue may have filled its place) and Dequeue returns an error.
MarkRunningFails(w) ==
  /\ DBFaults
  /\ Goto(w, "received", IF cancelled THEN "exited" ELSE "top")
  /\ wjob' = [wjob EXCEPT ![w] = NoJob]
  /\ jobs' = IF Full THEN jobs ELSE Append(jobs, wjob[w])
  /\ missed' = missed \cup {wjob[w]}
  /\ UNCHANGED <<phase, table, up, pending, running, retryCount, closed,
                 history>>

----------------------------------------------------------------------------
\* Ack writes the row first: when that fails the job stays in the map.
Ack(w) ==
  LET j == wjob[w] IN
  /\ j \in running
  /\ Decide(w, "ack")
  /\ SetRow(j, "completed")
  /\ running' = running \ {j}
  /\ UNCHANGED <<rowRetries, up, jobs, pending, retryCount, closed, history,
                 missed>>

AckFails(w) ==
  /\ DBFaults
  /\ wjob[w] \in running
  /\ Decide(w, "ack")
  /\ missed' = missed \cup {wjob[w]}
  /\ UNCHANGED <<table, up, memory, history>>

RetryLeft(j) == retryCount[j] + 1 < MaxRetries

\* Nack leaves the map and counts before it writes the row.
NackStarts(w) ==
  LET j == wjob[w] IN
  /\ j \in running
  /\ Decide(w, "nack")
  /\ running' = running \ {j}
  /\ retryCount' = [retryCount EXCEPT ![j] = @ + 1]
  /\ UNCHANGED <<up, closed, history>>

RowRetries(j) == rowRetries' = [rowRetries EXCEPT ![j] = retryCount[j] + 1]

NackRetry(w) ==
  LET j == wjob[w] IN
  /\ NackStarts(w)
  /\ RetryLeft(j)
  /\ SetRow(j, "pending")
  /\ RowRetries(j)
  /\ pending' = pending \cup {j}
  /\ TrySend(j)

NackFail(w) ==
  LET j == wjob[w] IN
  /\ NackStarts(w)
  /\ ~RetryLeft(j)
  /\ SetRow(j, "failed")
  /\ RowRetries(j)
  /\ UNCHANGED <<jobs, pending, missed>>

\* The UPDATE of either branch fails: the job is in no map any more.
NackFails(w) ==
  /\ DBFaults
  /\ NackStarts(w)
  /\ missed' = missed \cup {wjob[w]}
  /\ UNCHANGED <<table, jobs, pending>>

----------------------------------------------------------------------------
\* Close, once the pool has stopped.
Close ==
  /\ up /\ phase = "stopped" /\ ~closed
  /\ closed' = TRUE
  /\ UNCHANGED <<poolVars, table, up, jobs, pending, running, retryCount,
                 history, missed>>

\* The process dies, or main returns after Close.
Crash ==
  /\ up /\ restarts < MaxRestarts
  /\ up' = FALSE
  /\ wpc' = [w \in Workers |-> "exited"]
  /\ wjob' = [w \in Workers |-> NoJob]
  /\ phase' = "stopped"
  /\ jobs' = <<>> /\ pending' = {} /\ running' = {}
  /\ UNCHANGED <<table, retryCount, closed, history, missed>>

\* recoverJobs: interrupted rows become pending again, every pending row is
\* loaded into the map, and into the channel while there is room.  Rows are
\* ordered by created_at, which handlers set before they take the lock: any
\* order is possible.
Load(order) == SubSeq(order, 1, Min({Len(order), BufferSize}))
Reset(status) == IF status = "running" THEN "pending" ELSE status
Recovered == {j \in JobIDs : rowStatus[j] \in {"pending", "running"}}

Restart ==
  /\ ~up
  /\ up' = TRUE
  /\ restarts' = restarts + 1
  /\ rowStatus' = [j \in JobIDs |-> Reset(rowStatus[j])]
  /\ pending' = Recovered
  /\ \E order \in SetToSeqs(Recovered) : jobs' = Load(order)
  /\ missed' = Recovered \ ToSet(jobs')
  /\ retryCount' = rowRetries
  /\ closed' = FALSE
  /\ wpc' = [w \in Workers |-> "top"]
  /\ phase' = "serving"
  /\ UNCHANGED <<wjob, rowRetries, running, reply, runs>>

\* serve is told to stop; only while another start is within the bound.
Stop == restarts < MaxRestarts /\ StopPool

PoolStep(w) ==
  /\ \/ LoopTop(w) \/ DequeueTimeout(w) \/ DequeueCancelled(w) \/ Execute(w)
  /\ UNCHANGED queueVars

WorkerStep(w) ==
  \/ PoolStep(w) \/ Receive(w) \/ MarkRunning(w) \/ MarkRunningFails(w)
  \/ Ack(w) \/ AckFails(w) \/ NackRetry(w) \/ NackFail(w) \/ NackFails(w)

Shutdown == up /\ (Stop \/ PoolStopped) /\ UNCHANGED queueVars

Next ==
  \/ \E j \in JobIDs : EnqueueInserted(j) \/ EnqueueRefused(j)
  \/ \E w \in Workers : WorkerStep(w)
  \/ Shutdown \/ Close \/ Crash \/ Restart

Spec == Init /\ [][Next]_vars

\* As in MemoryJobQueue; besides, a process that has ended is started again
\* and a main that has closed the queue returns.
FairSpec ==
  /\ Spec
  /\ \A w \in Workers : WF_vars(WorkerStep(w)) /\ SF_vars(Receive(w))
  /\ WF_vars(up /\ PoolStopped /\ UNCHANGED queueVars)
  /\ WF_vars(Close)
  /\ WF_vars(closed /\ Crash)
  /\ WF_vars(Restart)

----------------------------------------------------------------------------
InChannel == ToSet(jobs)
InTransit(j) == \E w \in Workers : wpc[w] = "received" /\ wjob[w] = j
Held(w) == wpc[w] \in Holding
Accepted(j) == reply[j] = "accepted"

\* While the process runs its maps are a copy of the table, retry counts
\* included: what GetJob answers before and after a restart is the same.  A
\* running row may be missing from the map only after a failed Nack.
MemoryMatchesTable ==
  up =>
    /\ pending = {j \in JobIDs : rowStatus[j] = "pending"}
    /\ running \subseteq {j \in JobIDs : rowStatus[j] = "running"}
    /\ ~DBFaults => running = {j \in JobIDs : rowStatus[j] = "running"}
    /\ \A j \in pending \cup running : retryCount[j] = rowRetries[j]

\* A job has a row from the moment its caller is told it was accepted, and a
\* refused job never gets one, whatever crashes in between.
AcceptedIsDurable ==
  \A j \in JobIDs : Accepted(j) <=> rowStatus[j] # "none"

\* The channel never offers a job twice or offers one that is held, even when
\* failed receives put jobs back: no two workers ever run the same job.
OneWorkerPerJob ==
  /\ IsInjective(jobs)
  /\ InChannel \subseteq pending
  /\ \A j \in InChannel : ~InTransit(j)
  /\ \A w \in Workers : wpc[w] = "received" => wjob[w] \in pending
  /\ \A w \in Workers : Held(w) => wjob[w] \in running
  /\ \A v, w \in Workers : wjob[v] = wjob[w] /\ wjob[v] # NoJob => v = w

\* At least once: each restart costs at most one run beyond MaxRetries.
AttemptsBounded == \A j \in JobIDs : runs[j] <= MaxRetries + restarts

\* A job fails for want of attempts only, never because of a full channel, a
\* failed statement or a crash.
OnlyExhaustedJobsFail ==
  \A j \in JobIDs : rowStatus[j] = "failed" <=> rowRetries[j] = MaxRetries

(* The inductive invariant of the proofs: what the properties above need to *)
(* know of the workers, of a process that is down and of untouched rows.   *)

HandsMatch ==
  \A w \in Workers : wjob[w] = NoJob <=> wpc[w] \notin Holding \cup {"received"}

StoppedIsIdle == phase = "stopped" => AllExited

DownIsEmpty ==
  ~up =>
    /\ pending = {} /\ running = {} /\ jobs = <<>>
    /\ phase = "stopped"
    /\ restarts < MaxRestarts

Stored == {j \in JobIDs : rowStatus[j] # "none"}

\* A job without a row was never tried; the table is finite.
RowlessIsFresh ==
  /\ IsFiniteSet(Stored)
  /\ \A j \in JobIDs \ Stored : rowRetries[j] = 0 /\ retryCount[j] = 0

\* Each run ended in a recorded attempt, in a crash, or is the last one.
RunsCounted ==
  \A j \in JobIDs :
    runs[j] <= rowRetries[j] + restarts
                 + (IF rowStatus[j] \in {"running", "completed"} THEN 1 ELSE 0)

Inv ==
  /\ TypeOK
  /\ MemoryMatchesTable /\ AcceptedIsDurable
  /\ OneWorkerPerJob /\ OnlyExhaustedJobsFail
  /\ HandsMatch /\ StoppedIsIdle /\ DownIsEmpty
  /\ RowlessIsFresh /\ RunsCounted

\* The table implements the abstract ledger of jobs across crashes: settled
\* jobs stay settled and are never run again.
Life(j) == IF reply[j] # "accepted"
             THEN (IF reply[j] = "none" THEN "new" ELSE "refused")
             ELSE rowStatus[j]

Ledger == INSTANCE JobLedger
            WITH status <- [j \in JobIDs |-> Life(j)], tries <- rowRetries

ImplementsLedger == Ledger!LedgerSpec

\* An accepted job is settled however often the process dies or stops in
\* between, unless the job itself found no room in the channel or a statement
\* failed for it; and the next start makes up for that where there is room.
AcceptedJobsSettle ==
  \A j \in JobIDs :
    Accepted(j) ~> rowStatus[j] \in {"completed", "failed"} \/ j \in missed
=============================================================================
