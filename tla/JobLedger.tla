----------------------------- MODULE JobLedger -----------------------------
(***************************************************************************)
(* What the JobQueue interface of internal/queue/job_queue.go promises to  *)
(* the HTTP handlers that enqueue workflow executions, whatever backend is *)
(* behind it: each job is answered once, an accepted job is pending,       *)
(* running, completed or failed and nothing else, only a running job is    *)
(* decided, a decision is final, and a job is put back after a failed      *)
(* attempt only while attempts are left.  MemoryJobQueue and               *)
(* SQLiteJobQueue implement this specification.                            *)
(***************************************************************************)
EXTENDS Naturals

CONSTANTS
  JobIDs,      \* the ids the callers generate, one per request
  MaxRetries   \* Job.MaxRetries, the number of failed attempts allowed

VARIABLES
  status,      \* status[j]: the life of job j as its caller sees it
  tries        \* tries[j]: the failed attempts recorded for j

ledgerVars == <<status, tries>>

Settled == {"completed", "failed"}
Statuses == {"new", "refused", "pending", "running"} \cup Settled

LedgerTypeOK ==
  /\ status \in [JobIDs -> Statuses]
  /\ tries \in [JobIDs -> 0..MaxRetries]

LedgerInit ==
  /\ status = [j \in JobIDs |-> "new"]
  /\ tries = [j \in JobIDs |-> 0]

Move(j, from, to) ==
  /\ status[j] = from
  /\ status' = [status EXCEPT ![j] = to]

\* Enqueue returns nil, or an error and the job never exists.
Accept(j) == Move(j, "new", "pending") /\ UNCHANGED tries
Refuse(j) == Move(j, "new", "refused") /\ UNCHANGED tries

\* Dequeue hands the job to one worker.
Begin(j) == Move(j, "pending", "running") /\ UNCHANGED tries

\* Ack.
Complete(j) == Move(j, "running", "completed") /\ UNCHANGED tries

\* Nack with attempts left, and Nack that gives the job up.
Retry(j) ==
  /\ tries[j] + 1 < MaxRetries
  /\ Move(j, "running", "pending")
  /\ tries' = [tries EXCEPT ![j] = @ + 1]

GiveUp(j) ==
  /\ Move(j, "running", "failed")
  /\ tries' = [tries EXCEPT ![j] = @ + 1]

\* A restart of a persistent queue puts every interrupted job back.
Recover ==
  /\ status' = [j \in JobIDs |->
                  IF status[j] = "running" THEN "pending" ELSE status[j]]
  /\ UNCHANGED tries

LedgerNext ==
  \/ \E j \in JobIDs : \/ Accept(j) \/ Refuse(j) \/ Begin(j)
                       \/ Complete(j) \/ Retry(j) \/ GiveUp(j)
  \/ Recover

LedgerSpec == LedgerInit /\ [][LedgerNext]_ledgerVars
=============================================================================
