------------------------------ MODULE WorkPlane ------------------------------
(***************************************************************************)
(* WorkPlane: the hybrid plane.  The control plane's WorkQueue             *)
(* (internal/queue/work_queue.go) pushes executions to remote workers      *)
(* (internal/worker/executor.go), collects their results and keeps a       *)
(* registry of the workers by their registrations and heartbeats.          *)
(*                                                                         *)
(* The sockets are mangos': a push socket gives a message to one connected *)
(* pull socket, and what an end that closes or dies had not passed on is   *)
(* lost.  Work and results are neither acknowledged nor repeated; only the *)
(* request socket of registrations and heartbeats asks again until it is   *)
(* answered.  No receive has a deadline.                                   *)
(*                                                                         *)
(* Where an execution is:                                                  *)
(*   new        not pushed            queued     in the push socket        *)
(*   socket     in a pull socket      received   executeWork is started    *)
(*   tracked    in activeExecutions   returning  its result is sent        *)
(*   collected  given to the handler  lost       with a socket or process  *)
(*   unsent     its result could not be marshalled or sent, and is given up*)
(* Left out: the verdict of a result (the Cancel channel of an execution is*)
(* never closed, so that "cancelled" does not occur), durations, statistics*)
(* and the list of addresses: a worker connects to the first that answers. *)
(***************************************************************************)
EXTENDS Integers, FiniteSets

CONSTANTS
  Executions, Workers,
  MaxConcurrent,   \* WorkerConfig.MaxConcurrent
  Stoppable,       \* the workers whose Stop is called
  Mortal,          \* the workers whose process may die
  Unsendable,      \* the executions whose result may fail to be sent
  MaxRestarts,     \* bound on the restarts of the control plane
  NoWorker

ASSUME WorkPlaneAssumption ==
  /\ MaxConcurrent \in Nat \ {0} /\ MaxRestarts \in Nat
  /\ Stoppable \subseteq Workers /\ Mortal \subseteq Workers
  /\ Unsendable \subseteq Executions
  /\ NoWorker \notin Workers

VARIABLES
  place, holder,   \* where an execution is, and the worker it was given to
  active,          \* the executions in the activeExecutions of any worker
  worker,          \* down, connecting, up, and in Stop: draining, waiting
  puller,          \* the loops that wg waits for: workPuller,
  beat,            \* and heartbeatLoop
  known,           \* WorkerStatus.Status
  stale,           \* the workers whose LastHeartbeat is over 30 seconds old
  control,         \* the WorkQueue
  collector,       \* its resultCollector
  registrar,       \* and its registrationHandler
  restarts,
  \* history
  sent,            \* executions whose result a worker has sent
  owed             \* executions a Stop found tracked, and was in time to await

messages == <<place, holder, active>>
processes == <<worker, puller, beat>>
registry == <<known, stale>>
queue == <<control, collector, registrar, restarts>>
history == <<sent, owed>>
vars == <<messages, processes, registry, queue, history>>

Places == {"new", "queued", "socket", "received", "tracked", "returning",
           "collected", "lost", "unsent"}
AtWorker == {"socket", "received", "tracked"}
Of(w) == {e \in Executions : holder[e] = w}
Tracked(w) == active \cap Of(w)

Init ==
  /\ place = [e \in Executions |-> "new"]
  /\ holder = [e \in Executions |-> NoWorker]
  /\ active = {}
  /\ worker = [w \in Workers |-> "down"]
  /\ puller = [w \in Workers |-> "returned"]
  /\ beat = [w \in Workers |-> "returned"]
  /\ known = [w \in Workers |-> "unknown"]
  /\ stale = {}
  /\ control = "up" /\ collector = "receiving" /\ registrar = "receiving"
  /\ restarts = 0
  /\ sent = {} /\ owed = {}

Set(f, x, v) == [f EXCEPT ![x] = v]
Move(e, from, to) == place[e] = from /\ place' = Set(place, e, to)

----------------------------------------------------------------------------
(* The messages.                                                           *)

PushWork(e) ==
  /\ control = "up"
  /\ Move(e, "new", "queued")
  /\ UNCHANGED <<holder, active, processes, registry, queue, history>>

\* The push socket picks any connected worker, busy or stopping as it may be.
Deliver(e, w) ==
  /\ worker[w] \notin {"down", "stopped"}
  /\ Move(e, "queued", "socket")
  /\ holder' = Set(holder, e, w)
  /\ UNCHANGED <<active, processes, registry, queue, history>>

\* Faulty form: a loop that returns where it should continue.
OnlyOnce == "returned"

\* What a loop of the control plane does after a message: it looks at stopChan
\* before it blocks in Recv again, and only then.
Looped == IF control = "up" THEN "receiving" ELSE "returned"

\* resultCollector: what the handler returns changes nothing.
Collect(e) ==
  /\ collector = "receiving"
  /\ Move(e, "returning", "collected")
  /\ collector' = Looped
  /\ UNCHANGED <<holder, active, processes, registry, control, registrar,
                 restarts, history>>

----------------------------------------------------------------------------
(* The worker.                                                             *)

\* Start dials the three sockets: from here on the push socket may pick w.
Connect(w) ==
  /\ worker[w] = "down"
  /\ control # "closed"
  /\ worker' = Set(worker, w, "connecting")
  /\ UNCHANGED <<messages, puller, beat, registry, queue, history>>

\* It registers, and when that is answered starts the loops.  A worker that
\* was here before gets a new entry.
Register(w) ==
  /\ worker[w] = "connecting"
  /\ registrar = "receiving"
  /\ worker' = Set(worker, w, "up")
  /\ puller' = Set(puller, w, "looping")
  /\ beat' = Set(beat, w, "looping")
  /\ known' = Set(known, w, "active")
  /\ stale' = stale \ {w}
  /\ registrar' = Looped
  /\ UNCHANGED <<messages, control, collector, restarts, history>>

\* canAcceptWork counts the tracked executions, not the received ones.
CanAcceptWork(w) == Cardinality(Tracked(w)) < MaxConcurrent

PullerLoops(w) ==
  /\ puller[w] = "looping"
  /\ IF worker[w] = "up"
     THEN /\ CanAcceptWork(w)
          /\ puller' = Set(puller, w, "receiving")
     ELSE puller' = Set(puller, w, "returned")
  /\ UNCHANGED <<messages, worker, beat, registry, queue, history>>

Receive(w, e) ==
  /\ puller[w] = "receiving"
  /\ holder[e] = w
  /\ Move(e, "socket", "received")
  /\ puller' = Set(puller, w, "looping")
  /\ UNCHANGED <<holder, active, worker, beat, registry, queue, history>>

\* executeWork, a goroutine that wg does not know.
Track(e) ==
  /\ Move(e, "received", "tracked")
  /\ active' = active \cup {e}
  /\ UNCHANGED <<holder, processes, registry, queue, history>>

\* The engine returns: success, failure, or at WorkTimeout the timeout.
SendResult(e) ==
  /\ Move(e, "tracked", "returning")
  /\ sent' = sent \cup {e}
  /\ UNCHANGED <<holder, active, processes, registry, queue, owed>>

\* The result cannot be marshalled, or the socket refuses it: a line is logged,
\* and executeWork returns as if it had been sent.
SendFails(e) ==
  /\ e \in Unsendable
  /\ Move(e, "tracked", "unsent")
  /\ UNCHANGED <<holder, active, processes, registry, queue, history>>

\* Faulty form: the defer runs before the result is sent.
UntrackedEarly(e) == e \in active

\* The deferred delete, after the result has been sent or given up.
Returned(e) == e \in active /\ place[e] # "tracked"

Untrack(e) ==
  /\ Returned(e)
  /\ active' = active \ {e}
  /\ UNCHANGED <<place, holder, processes, registry, queue, history>>

\* Stop closes stopChan and polls activeExecutions for 30 seconds.
Stop(w) ==
  /\ w \in Stoppable
  /\ worker[w] = "up"
  /\ worker' = Set(worker, w, "draining")
  /\ owed' = owed \cup Tracked(w)
  /\ UNCHANGED <<messages, puller, beat, registry, queue, sent>>

\* Faulty form: the executions are not waited for.
DrainedAtOnce(w) == worker[w] = "draining"

Drained(w) == worker[w] = "draining" /\ Tracked(w) = {}

DrainEnds(w) ==
  /\ Drained(w)
  /\ worker' = Set(worker, w, "waiting")
  /\ UNCHANGED <<messages, puller, beat, registry, queue, history>>

DrainTimesOut(w) ==
  /\ worker[w] = "draining"
  /\ Tracked(w) # {}
  /\ worker' = Set(worker, w, "waiting")
  /\ owed' = owed \ Of(w)
  /\ UNCHANGED <<messages, puller, beat, registry, queue, sent>>

\* The process of a worker is gone: what it held is lost, of its results on
\* their way any part.
Gone(w, part, to) ==
  /\ part \subseteq {e \in Of(w) : place[e] = "returning"}
  /\ place' = [e \in Executions |->
                 IF e \in part \/ (e \in Of(w) /\ place[e] \in AtWorker)
                 THEN "lost" ELSE place[e]]
  /\ active' = active \ Of(w)
  /\ worker' = Set(worker, w, to)
  /\ puller' = Set(puller, w, "returned")
  /\ beat' = Set(beat, w, "returned")

\* wg.Wait is over, the sockets are closed: the end of Stop.
StopEnds(w) ==
  /\ worker[w] = "waiting"
  /\ puller[w] = "returned" /\ beat[w] = "returned"
  /\ \E part \in SUBSET Executions : Gone(w, part, "stopped")
  /\ UNCHANGED <<holder, registry, queue, history>>

Crash(w) ==
  /\ w \in Mortal
  /\ worker[w] \notin {"down", "stopped"}
  /\ \E part \in SUBSET Executions : Gone(w, part, "down")
  /\ owed' = owed \ Of(w)
  /\ UNCHANGED <<holder, registry, queue, sent>>

----------------------------------------------------------------------------
(* Heartbeats.                                                             *)

\* The ticker's heartbeat is sent, and its acknowledgement waited for.  A
\* select that finds stopChan closed as well may still take the ticker.
SendHeartbeat(w) ==
  /\ beat[w] = "looping"
  /\ beat' = Set(beat, w, "sent")
  /\ UNCHANGED <<messages, worker, puller, registry, queue, history>>

HeartbeatReturns(w) ==
  /\ beat[w] = "looping"
  /\ worker[w] # "up"
  /\ beat' = Set(beat, w, "returned")
  /\ UNCHANGED <<messages, worker, puller, registry, queue, history>>

\* Faulty form: the time is renewed, the status is not.
TimeOnly(w) == stale' = stale \ {w} /\ UNCHANGED known

HeardFrom(w) == stale' = stale \ {w} /\ known' = Set(known, w, "active")

\* updateHeartbeat: one from an unknown worker changes nothing, and is
\* acknowledged all the same.
UpdateHeartbeat(w) ==
  /\ beat[w] = "sent"
  /\ registrar = "receiving"
  /\ IF known[w] = "unknown" THEN UNCHANGED registry ELSE HeardFrom(w)
  /\ beat' = Set(beat, w, "looping")
  /\ registrar' = Looped
  /\ UNCHANGED <<messages, worker, puller, control, collector, restarts,
                 history>>

\* 30 seconds without a heartbeat: a late one of a live worker too.
GoesStale(w) ==
  /\ w \notin stale
  /\ known[w] # "unknown"
  /\ stale' = stale \cup {w}
  /\ UNCHANGED <<messages, processes, known, queue, history>>

\* Faulty form: the workers that are up to date are marked.
FreshGoOffline(w) == w \notin stale

Overdue(w) == w \in stale

CheckWorkerHealth ==
  /\ control = "up"
  /\ known' = [w \in Workers |->
                 IF known[w] = "active" /\ Overdue(w) THEN "offline"
                 ELSE known[w]]
  /\ UNCHANGED <<messages, processes, stale, queue, history>>

----------------------------------------------------------------------------
(* The control plane ends, and may start again.                            *)

Close ==
  /\ control = "up"
  /\ control' = "closing"
  /\ UNCHANGED <<messages, processes, registry, collector, registrar,
                 restarts, history>>

\* What the push socket holds is lost, of what is on its way any part.
Unheard(part) ==
  /\ part \subseteq {e \in Executions : place[e] \in {"socket", "returning"}}
  /\ place' = [e \in Executions |->
                 IF e \in part \/ place[e] = "queued" THEN "lost" ELSE place[e]]
  /\ UNCHANGED <<holder, active>>

\* Close returns, and closes its sockets, when the loops have.
CloseEnds ==
  /\ control = "closing"
  /\ collector = "returned" /\ registrar = "returned"
  /\ control' = "closed"
  /\ \E part \in SUBSET Executions : Unheard(part)
  /\ UNCHANGED <<processes, registry, collector, registrar, restarts, history>>

\* The process ends or dies and is started again: the registry is empty, and
\* the workers' sockets connect anew.
Restart ==
  /\ restarts < MaxRestarts
  /\ restarts' = restarts + 1
  /\ control' = "up" /\ collector' = "receiving" /\ registrar' = "receiving"
  /\ known' = [w \in Workers |-> "unknown"]
  /\ stale' = {}
  /\ \E part \in SUBSET Executions : Unheard(part)
  /\ UNCHANGED <<processes, history>>

----------------------------------------------------------------------------
Heartbeats(w) == SendHeartbeat(w) \/ HeartbeatReturns(w) \/ UpdateHeartbeat(w)
Loops(w) == PullerLoops(w) \/ \E e \in Executions : Receive(w, e)
Stops(w) == DrainEnds(w) \/ DrainTimesOut(w) \/ StopEnds(w)
Execute(e) == Track(e) \/ SendResult(e) \/ SendFails(e) \/ Untrack(e)

Next ==
  \/ \E e \in Executions :
       PushWork(e) \/ Execute(e) \/ Collect(e) \/ \E w \in Workers : Deliver(e, w)
  \/ \E w \in Workers :
       \/ Connect(w) \/ Register(w) \/ Loops(w) \/ Stop(w) \/ Stops(w) \/ Crash(w)
       \/ Heartbeats(w) \/ GoesStale(w)
  \/ CheckWorkerHealth \/ Close \/ CloseEnds \/ Restart

Spec == Init /\ [][Next]_vars

\* Every goroutine that can go on does, the sockets pass on what they hold,
\* the tickers tick, and a worker that is silent is so for 30 seconds.  The
\* registration handler serves each of those that ask, and a select does not
\* always prefer the ticker to stopChan.
Silent(w) == beat[w] = "returned" /\ GoesStale(w)

FairSpec ==
  /\ Spec
  /\ WF_vars(\E e \in Executions : Collect(e))
  /\ WF_vars(CheckWorkerHealth) /\ WF_vars(CloseEnds)
  /\ \A e \in Executions :
       /\ WF_vars(Execute(e))
       /\ WF_vars(\E w \in Workers : Deliver(e, w))
  /\ \A w \in Workers :
       /\ WF_vars(Loops(w)) /\ WF_vars(Stops(w))
       /\ WF_vars(SendHeartbeat(w)) /\ WF_vars(Silent(w))
       /\ SF_vars(HeartbeatReturns(w))
       /\ SF_vars(Register(w)) /\ SF_vars(UpdateHeartbeat(w))

----------------------------------------------------------------------------
TypeOK ==
  /\ place \in [Executions -> Places]
  /\ holder \in [Executions -> Workers \cup {NoWorker}]
  /\ active \in SUBSET Executions
  /\ worker \in [Workers -> {"stopped", "down", "connecting", "up", "draining", "waiting"}]
  /\ puller \in [Workers -> {"looping", "receiving", "returned"}]
  /\ beat \in [Workers -> {"looping", "sent", "returned"}]
  /\ known \in [Workers -> {"unknown", "active", "offline"}]
  /\ stale \in SUBSET Workers
  /\ control \in {"up", "closing", "closed"}
  /\ collector \in {"receiving", "returned"}
  /\ registrar \in {"receiving", "returned"}
  /\ restarts \in 0..MaxRestarts
  /\ sent \in SUBSET Executions /\ owed \in SUBSET Executions

\* What a graceful Stop awaits is not cut short: when its wait for the active
\* executions is over and it goes on to close the sockets, each it found has
\* been through sendResult, unless the 30 seconds ran out: the result is sent,
\* or the send has failed and was given up (executor.go:514-546, against the
\* defer of executor.go:297-302 and the send of executor.go:317-319).
DrainKeepsTracked ==
  \A e \in owed :
    worker[holder[e]] = "draining" \/ e \in sent \/ place[e] = "unsent"

\* An execution in the push socket is answered, lost with the process that
\* held it or given up by a worker that could not send its result, as long as
\* the control plane and some worker are up: no loop on its way ends or stays
\* blocked (work_queue.go:172-216, executor.go:229-271, 317-319).
QueuedIsReported ==
  \A e \in Executions :
    place[e] = "queued" ~>
      \/ place[e] \in {"collected", "lost", "unsent"}
      \/ control # "up"
      \/ \A w \in Workers : worker[w] # "up"

\* A worker that is gone is not counted as active for ever
\* (work_queue.go:333-349).
OfflineIsNoticed ==
  \A w \in Workers :
    worker[w] \in {"down", "stopped"} /\ known[w] = "active" ~>
      \/ worker[w] \notin {"down", "stopped"} \/ known[w] # "active" \/ control # "up"

\* A worker marked offline that still runs is active again
\* (work_queue.go:293-302, executor.go:407-456).
BeatsBringBack ==
  \A w \in Workers :
    worker[w] = "up" /\ known[w] = "offline" ~>
      worker[w] # "up" \/ known[w] # "offline" \/ control # "up"
=============================================================================
