----------------------------- MODULE MCWorkPlane -----------------------------
(***************************************************************************)
(* What the repository says of the hybrid plane and the code does not do.  *)
(***************************************************************************)
EXTENDS WorkPlane

\* internal/worker/executor.go:514: Stop "gracefully shuts down the worker".
\* It waits for a puller that waits for work, which may never come.
StopReturns ==
  \A w \in Workers : worker[w] = "waiting" ~> worker[w] # "waiting"

\* internal/queue/work_queue.go:380: Close "gracefully shuts down the work
\* queue".  It waits for two loops that wait for messages.
CloseReturns == control = "closing" ~> control # "closing"

\* internal/worker/executor.go:518: "Wait for active executions to complete".
\* An execution the worker has taken and not yet tracked is not waited for.
StopLosesNothing == \A e \in Executions : place[e] # "lost"

\* internal/worker/executor.go:30: "Max concurrent workflow executions".
\* What has been received and is not yet tracked is not counted.
ConcurrencyIsBounded ==
  \A w \in Workers : Cardinality(Tracked(w)) <= MaxConcurrent

\* docs/architecture/HYBRID_ARCHITECTURE.md:306-313: workers reconnect.  A
\* control plane that was restarted acknowledges the heartbeats of a worker it
\* does not know, which therefore never registers again.
ReconnectedIsKnown ==
  \A w \in Workers :
    worker[w] = "up" /\ known[w] = "unknown" ~>
      worker[w] # "up" \/ known[w] # "unknown" \/ control # "up"
=============================================================================
