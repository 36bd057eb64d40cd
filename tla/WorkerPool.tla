----------------------------- MODULE WorkerPool -----------------------------
(***************************************************************************)
(* The worker goroutines of internal/queue/worker_pool.go and the shutdown *)
(* sequence of cmd/m9m/commands/serve.go, without the queue they share.    *)
(* The two queue modules extend this one and conjoin the queue's side to   *)
(* the worker's step.                                                      *)
(*                                                                         *)
(* A worker's place in its loop:                                           *)
(*   top      at the select on p.ctx.Done()                                *)
(*   dequeue  blocked in the select of queue.Dequeue                       *)
(*   received has taken a job from the channel, waits for the queue's lock *)
(*   execute  Dequeue returned the job, the engine runs its workflow       *)
(*   ack/nack the run has ended, the queue has not been told               *)
(*   exited   wg.Done() has been called                                    *)
(***************************************************************************)
EXTENDS Naturals, Sequences

CONSTANTS
  Workers,     \* the pool's goroutines (serve's --workers)
  NoJob        \* no job in a worker's hands

VARIABLES
  wpc,         \* wpc[w]: where worker w is
  wjob,        \* wjob[w]: the *Job in w's hands
  phase        \* serve: "serving", "stopping" (Stop called), "stopped"

poolVars == <<wpc, wjob, phase>>

Places == {"top", "dequeue", "received", "execute", "ack", "nack", "exited"}

\* A worker between Dequeue's return and Ack or Nack.
Holding == {"execute", "ack", "nack"}

cancelled == phase # "serving"      \* p.ctx is done

PoolInit ==
  /\ wpc = [w \in Workers |-> "top"]
  /\ wjob = [w \in Workers |-> NoJob]
  /\ phase = "serving"

Goto(w, from, to) ==
  /\ wpc[w] = from
  /\ wpc' = [wpc EXCEPT ![w] = to]

\* Faulty forms: a loop that does not look at the context, a worker that
\* takes its timeout for the end, a wait group that counts one worker only.
LoopBlindly(w) ==
  /\ Goto(w, "top", "dequeue")
  /\ UNCHANGED <<wjob, phase>>

TimeoutEnds(w) ==
  /\ Goto(w, "dequeue", "exited")
  /\ UNCHANGED <<wjob, phase>>

OneExited == \E w \in Workers : wpc[w] = "exited"

\* The top of the loop: leave when the pool's context is done.
LoopTop(w) ==
  /\ Goto(w, "top", IF cancelled THEN "exited" ELSE "dequeue")
  /\ UNCHANGED <<wjob, phase>>

\* Dequeue returns context.DeadlineExceeded after its second: loop again.
\* The select picks any ready case, so this may happen with a job waiting.
DequeueTimeout(w) ==
  /\ Goto(w, "dequeue", "top")
  /\ UNCHANGED <<wjob, phase>>

\* Dequeue returns context.Canceled: the worker returns.
DequeueCancelled(w) ==
  /\ cancelled
  /\ Goto(w, "dequeue", "exited")
  /\ UNCHANGED <<wjob, phase>>

\* The engine returns; ResolveExecutionError decides between Ack and Nack.
Execute(w) ==
  /\ \E verdict \in {"ack", "nack"} : Goto(w, "execute", verdict)
  /\ UNCHANGED <<wjob, phase>>

\* Worker w's half of a call of the queue that takes or gives back a job.
Take(w, j) ==
  /\ Goto(w, "dequeue", "received")
  /\ wjob' = [wjob EXCEPT ![w] = j]
  /\ UNCHANGED phase

Dequeued(w) == Goto(w, "received", "execute") /\ UNCHANGED <<wjob, phase>>

Decide(w, verdict) ==
  /\ Goto(w, verdict, "top")
  /\ wjob' = [wjob EXCEPT ![w] = NoJob]
  /\ UNCHANGED phase

\* Deferred in serve, last in first out: Stop cancels the context and waits
\* for the workers; the queue is closed after that.
StopPool ==
  /\ phase = "serving"
  /\ phase' = "stopping"
  /\ UNCHANGED <<wpc, wjob>>

AllExited == \A w \in Workers : wpc[w] = "exited"     \* wg.Wait()

PoolStopped ==
  /\ phase = "stopping"
  /\ AllExited
  /\ phase' = "stopped"
  /\ UNCHANGED <<wpc, wjob>>

PoolTypeOK ==
  /\ wpc \in [Workers -> Places]
  /\ phase \in {"serving", "stopping", "stopped"}
=============================================================================
