# m9m in TLA+

m9m is a workflow automation server: workflows are graphs of nodes, executed
by an engine that HTTP handlers, queue workers, cron schedules and other
workflows call. This directory holds TLA+ models of the parts of it whose
correctness depends on interleavings, failures and order, TLC configurations
that check them on small instances, and proofs that TLAPS checks for every
value of the constants.

Run `tlc -config X.cfg M` and `tlapm MProofs.tla` in this directory.
`PROJECT.json` maps every definition to the lines of the program it stands for.

## Inventory

Paths are relative to `src/internal`.

| Component | State it keeps | Operations | What is hard | What makes it correct |
|---|---|---|---|---|
| Job queue interface `queue/job_queue.go` | - | Enqueue, Dequeue, Ack, Nack, Close | two backends must promise the same | a job is answered once, only a running job is decided, decisions are final |
| In-memory queue `queue/memory_job_queue.go` | channel, three maps, status and retry count of each job | the same | the channel is outside the lock, is bounded, and a retry sends to it | no job lost, copied or stranded; bounded attempts |
| SQLite queue `queue/sqlite_job_queue.go` | channel, two maps, the jobs table | the same, recovery | failing statements, crashes, sends dropped when full | memory and table agree; accepted jobs are durable; no job is run twice at a time |
| Worker pool `queue/worker_pool.go` | goroutines, a context, a wait group | start, loop, stop | cancellation races with receives and timeouts | the stop ends, and with no job running |
| Engine `engine/engine.go` | workflow, run data, edges of "the" run | ExecuteWorkflow, also nested through `nodes/core/execute_workflow.go` | one engine without a lock, called by all of the above and by itself | what a run publishes is its own and complete; nodes see their run |
| Connection router `connections/` | - | execution order, branches, loop bodies, routing of items | cycles, edges into loops, orders that Go's map walk decides | the order is topological, each item reaches the branch it is tagged for |
| Loop drivers `engine/engine.go` | inputs and results of each node, batches, attempts, edges taken | the main loop; splitInBatches and If-retry bodies | a body driven apart from the main order | every node once per batch and on what it was sent, every item served, termination |
| Workflow scheduler `scheduler/` | schedules, a cron each, history, gauges | add, remove, update, stop; ticks and runs | runs hold no lock; the registry changes under them | MaxRuns kept, enabled means ticking, counters agree |
| Distributed scheduler `scheduler/distributed_scheduler.go` | a leadership flag, a local scheduler | poll, start and stop on change | polling every 5 s against leader changes | a schedule runs on one node |
| Raft FSM `consensus/raft.go` | a Badger database fed by the log | apply, snapshot, persist, restore | snapshots that are not of one moment, restores over a live database | replicas hold what the log says |
| Leader elector `consensus/leader.go` | a cached answer | IsLeader, ScheduleOnLeader | the cache outlives the leadership | the answer is current |
| Hybrid plane `queue/work_queue.go`, `worker/executor.go` | sockets, worker table; active executions | push, pull, result, register, heartbeat, stop, close | blocking receives, capacity check, deaths of either side | a result is sent before the sockets close, silence is noticed, capacity kept, stop ends |
| Circuit breaker, bulkhead, retry `reliability/retry.go` | counters, semaphore | Execute, Reset | results come back in another state than admitted the call | thresholds, probe limits, recovery |
| Dead letter queue, health `reliability/dlq.go` | map and order list; check results | add, list, status, evict | list and map drift, stale copies | both hold the same items, capacity kept |
| Webhooks `webhooks/`, handlers of `api/` | workflows table, a row per webhook, the map of served hooks | create, update, (de)activate, delete a workflow or a webhook; register, unregister, load at start | three stores without a transaction, handlers that run at a time, failing statements, restarts | what is served is stored; rows and map follow the table |
| Workflow versions `versions/`, `versioning/` | version records | save, restore | concurrent saves | version numbers are unique |
| Storage `storage/` | workflows, executions, credentials | CRUD | shared pointers in the memory backend | what is read was written |
| HTTP API `api/` | sessions, limits | handlers | calls into all of the above | - |
| Node types, expressions, runtimes, plugins, AI, monitoring, ... | - | one call each | external behaviour or pure data | - |

The components meet as follows. Handlers enqueue jobs; the pool's workers
dequeue them and call the engine; `serve` shuts down by stopping the pool and
then closing the queue. Crons start goroutines that load a workflow from the
storage and call the same engine. A node of a run may call the engine again.
The breaker wraps the calls of a node type in the reliable engine. The hybrid
plane is a second, remote pool over sockets; the distributed scheduler starts and
stops a scheduler as Raft leadership changes, and the same Raft log feeds the
databases. The workflow handlers write the table and then have the webhook
manager bring its rows and its map into line.

`PROJECT.json` lists every component with its status, and under `hazards` what
in this code a test would hardly reach, each at its line.

## Modules

### Job queues: JobLedger, WorkerPool, MemoryJobQueue, SQLiteJobQueue

`JobLedger` is the abstract specification: the life of each job as the caller
of the JobQueue interface sees it (new, refused, pending, running, completed,
failed) and the number of failed attempts. Both backends implement it.

`WorkerPool` is the loop of `worker_pool.go` without the queue: `wpc[w]` is a
worker's place in its loop, `wjob[w]` the job in its hands, `phase` the shutdown
of `serve`. The two queue modules extend it and conjoin their side to each
step, so that every call of a queue method by a worker is one or two actions:

| Code | Action |
|---|---|
| Enqueue: accepted, closed or duplicate, channel full | `EnqueueAccepted`, `EnqueueRejected`, `EnqueueFull`; `EnqueueInserted`, `EnqueueRefused` for SQLite |
| Dequeue's receive, outside the lock | `Receive` |
| the rest of Dequeue, under it | `MarkRunning`, `MarkRunningFails` |
| Ack, Nack with attempts left, with a full channel, without attempts | `Ack`, `NackRetry`, `NackFull`, `NackFail`; with a failing statement `AckFails`, `NackFails` |
| Dequeue's timeout and cancellation | `DequeueTimeout`, `DequeueCancelled` |
| the process dies, starts again (`recoverJobs`) | `Crash`, `Restart` |

A method of either queue holds the lock from its first look at the maps to its
end, so one action is one method, except Dequeue, whose receive comes before
the lock. The select of Dequeue may pick its timeout or its cancellation
although a job is ready: nothing orders them in the model. A method of the
SQLite queue executes one statement, so a crash within it cannot be told from a
crash just before or after it. Jobs have fresh ids. The channel serves jobs in
the order of arrival: `Job.Priority` is stored and never used, and does not
appear.

### Engine: SharedEngine

The fields `workflow`, `runExecutionData` and `edgesTaken` that one engine keeps
for "the" run, over sequential, nested and concurrent calls. Maps and run data
are named by the run that made them; an edge by the run and the node that
recorded it. `SetFields` is the beginning of ExecuteWorkflowWithContext,
`RunNode`/`RecordNode`/`SkipNode` its node loop, `CallWorkflow` and
`DepthExceeded` the Execute Workflow node, `ReturnOk` the merge and restore of
the accumulator, `ReturnError` and `EmptyWorkflow` the returns that do neither.
Reading and writing a field is atomic: what Go makes of the data race itself
(it aborts on concurrent map writes) is left out. What a node computes and which
nodes the router reaches are left out too: each node may run, be skipped, fail
or call. So is a node that panics, where the caller recovers (a cron does): none
of the returns is executed then.

### One execution: ConnectionRouter, NodeRun

The other half of the engine: one call, alone, with its data flow.
`ConnectionRouter` is the pure part: the execution order (`GetExecutionOrder`
with its dropped edges and its synthetic dependencies), branches, descendants,
retry bodies, the routing of an output. The order is built by the depth-first
sort of the code, a call or return of visitNode a step (`VisitNext`,
`VisitDependency`, `ReturnVisited`): `path` are the temporary marks, `sorted` the
visited nodes, and a step may take any source, as the code walks a map. What a
graph reaches is the least closed set (`ReachableFrom`). `NodeRun` runs a workflow
node by node: `Sort`, then `Refuse` at a cycle or `TakeOrder`, and for a loop
`GetLoopIterationOrder` and `GetLoopDoneOrder`; `RunNode`, `Skip`, `SkipInert` are
an iteration of the main loop, `StartLoop`, `RunChainNode`, `SkipChainNode`,
`EndBatch`, `EndDone` the splitInBatches driver, `StartRetry`, `RunRetryNode`,
`EndIteration` the If-retry driver, `Finish` and `Fail` the returns. An item is a
value with the routing tag that If and Switch put on it; a node passes its items
on, and a Switch puts out a copy for every rule that matches. The recording of
edges reads the tags after the routing has deleted them, as the code does.

One thing of the data flow is bounded away. A Switch writes its tag into the map of
the item it was given (`switch.go:236-244`); the nodes that got the item share that
map, as routing copies only the items' structs (`router.go:119-124`), and the tag is
deleted only if a connection carries the item (`router.go:62-66, 128-138`). The tag
of a Switch that is not connected, or not on every branch, can therefore stay and
have the items of a sibling routed by it. In the model a tag is the output's alone,
so every workflow is one in which no other node has the map of a stray tag
(`NoStrayTags`, part of `NodeRunAssumption`): one with a Switch has no retries, whose
driver routes copies, and each Switch has a connection for every tag, or there is no
loop, all starts lead to it and none of what they feed goes round it.

### Scheduler: WorkflowScheduler

The registry (`schedules`, `enabled`, `runCount`, `cronJobs`, the gauges) with
one action per operation under `s.mutex`, and the goroutines of the crons with
one action per stretch between two lock operations of executeScheduledWorkflow.
The cron library is external: a started cron may start its function in an idle
goroutine at any time (`Tick`), and DelayIfStillRunning is a mutex per cron
(`Delayed`). A run that panics (`RunPanics`) ends there: cron.Recover keeps the
process alive and the mutex of the cron is released, but executeScheduledWorkflow
has no defer for its record and its count, so the record says running for ever and
the run is not counted. Its goroutine stays at `panicked`, which stands for that
record. `touched`, `late` and `unloaded` are history variables: the
properties are about schedules that were not added twice, rescheduled or updated
in vain, the cases in which the code breaks them (below). MaxDuration, the
next-run times, the average duration and the monthly cleanup of history are left
out, and so is its truncation, which is exact for as many ticks as a history keeps
records (`HistoryLimit`); MaxRuns is a constant.

### Cluster: LeaderSchedulers, ReplicatedStore

`LeaderSchedulers` composes a DistributedScheduler and a LeaderElector on each
node. Who leads by its own account is external and may be nobody, one node, or
the old and the new leader for a lease. The monitor's iteration is three
actions, `Tick`, `ReadLeadership` (without the mutex) and `CheckLeadership`
(under it), so that leadership and Stop may change between them; the select may take
a tick after Stop has cancelled its context, until the ticker is stopped. Of the local
scheduler it keeps what leadership changes: schedules, which are enabled, which
crons tick, whether the context is cancelled.

`ReplicatedStore` is the FSM under an external log: `Apply` is a put or delete
on Badger, `Snapshot` a handle whose content is read later by `Persist`,
`InstallSnapshot` and `Restart` restore a snapshot over the database that is
there. `reach` and `behind` are history variables: how far the log ever reached
a database or the content of a snapshot.

### Hybrid plane: WorkPlane

`place[e]` is where an execution is, from the push socket of the control plane
over the worker's socket, goroutine and activeExecutions to the result
collector. The loops of both sides (`puller`, `beat`, `collector`, `registrar`)
look at their stop channel only between two receives, which have no deadline.
`Stop`, `DrainEnds`, `DrainTimesOut`, `StopEnds` are the worker's shutdown,
`Close` and `CloseEnds` the control plane's, `Crash` and `Restart` the deaths;
what a socket held when its end goes is lost, of what is on its way any part. A
result that cannot be marshalled or sent (`SendFails`, of the executions in
`Unsendable`) is logged and no more: the execution leaves activeExecutions and is
never reported, place `unsent`.
`known` and `stale` are the registry that heartbeats and the health check keep.

### Webhooks: WebhookRegistry

Three stores: the workflows table (`status`, `path`), the rows of the raw store,
the map of the process. A handler of a workflow (`CreateWorkflow`,
`UpdateWorkflow`, `ActivateWorkflow`, `DeactivateWorkflow`) writes the table and
then goes step by step, each a statement or a section under the mutex:
`GetWorkflow`, `List`, `Unregister` of each row, `Register`, `Respond`; each
statement on the raw store may fail. `DeleteWorkflow` writes the table alone.
`CreateWebhook` and `DeleteWebhook` are the webhook endpoints, `Crash` and
`Restart` the process with `LoadWebhooks`. `clean` is a history variable: the
last change of a workflow went through, met no fault, and no other call of the
same workflow ran beside it.

### Circuit breaker: CircuitBreaker

`state` and the three counters, with the calls admitted in one state and
reported in another. `expired` stands for the comparison of lastFailureTime with
the timeout. `probes` is a history variable: the running calls that the present
half-open state admitted. The bulkhead and the retry policy of the same file are
not modelled yet.

### MC modules

`MC<Module>` extends a module with symmetry sets and with the statements that
the repository makes and the code does not keep. In each module, operators
under "Faulty forms" are plausible bugs of the definitions after them; each
property is known to fail when one of them replaces the definition it mutates
(`mutants` in `PROJECT.json`).

## Runs

| Run (configuration) | Instance | Shows |
|---|---|---|
| memory_queue (`MemoryJobQueue.cfg`) | 3 jobs, 2 workers, channel of 2, 2 attempts; 27,133 states | no job lost, copied, stranded or on two workers; the ledger is implemented; accepted jobs settle, the stop ends |
| sqlite_queue (`SQLiteJobQueue.cfg`) | 2 jobs, 2 workers, channel of 1, failing statements, 2 restarts; 67,244 states | memory and table agree, accepted jobs are durable, decisions survive; jobs settle across restarts |
| engine_nested (`SharedEngine_nested.cfg`) | 3 calls of 2 nodes, one top-level run at a time; 12,108 states | edges of the whole tree are published, no foreign context |
| engine_concurrent (`SharedEngine_concurrent.cfg`) | 2 runs at a time | finding: one sees the other's context |
| node_run (`NodeRun.cfg`) | 15 workflows of 5 nodes, 3 items or none, batches of 2, 2 retries, failures; 4,580 states | order, what each node runs on and how often, every item served by a loop |
| node_run_edges (`NodeRun_edges.cfg`) | an If and a Switch | finding: the edges recorded are not those that carried items |
| scheduler (`WorkflowScheduler.cfg`) | 1 id, 2 crons, 2 goroutines, MaxRuns 1, 2 ticks, runs that panic; 156,726 states | MaxRuns, enabled and ticking, no untracked cron, history; delayed ticks are served |
| breaker (`CircuitBreaker.cfg`) | 3 callers, thresholds of 2; 552 states | probe limit, a half-open state that begins without successes, recovery |
| work_plane (`WorkPlane.cfg`) | 2 executions, a worker that stops, dies and returns, 1 result that may fail to be sent, 1 control-plane restart; 157,664 states | what Stop waits for is sent or its send has failed, queued work is answered, given up so, or lost with a process, silence is noticed, heartbeats bring a worker back |
| leader_schedulers (`LeaderSchedulers.cfg`) | 2 nodes, 1 schedule, 3 elections; 237,088 states | a follower by its own flag ticks nothing; after the last election the others fall silent and the leader serves |
| replicated_store (`ReplicatedStore.cfg`) | 2 replicas, 1 key, 2 values, log of 4; 1,557,396 states | a database that was handed all it ever saw has what the log says |
| webhooks (`WebhookRegistry.cfg`) | 2 workflows, 3 paths, 2 handlers, 2 rows, faults, 1 restart; 693,810 states | what is served is stored; a clean change leaves rows and map as the table says |

CHECK_DEADLOCK is off where the system may stop: the queues after the shutdown,
the engine, the scheduler, the cluster and the store when all bounded runs,
ticks, elections or commands are used up, the breaker at the bound of its
failure count, the hybrid plane when both sides have ended.

Bounds and why they suffice. A queue's conflicts are between two workers and a
job, or between a receive and one enqueue or retry for the last place of the
channel: two workers, three jobs and a channel of two have all of them, and the
proofs extend the in-memory results to every size. With a table, two jobs for a
channel of one already overflow it; the second restart recovers what the first
one recovered, and `SQLiteJobQueue_three` repeats the run without liveness on
three jobs and a channel of two. Two attempts distinguish the first failure from
the last. In the engine three calls give a chain of two nested calls, two
siblings in one caller, and a sequence; two nodes give a node before a call and
one after. In one execution the fifteen graphs have every kind of node before,
in and after every kind of loop, joins, and cycles with and without a loop node;
three items make a full and a short batch. In the scheduler a schedule needs a
second cron to be added again or rescheduled, two goroutines to overlap, and
MaxRuns + 1 ticks to exceed its limit; `WorkflowScheduler_two` adds the second id
and a third tick. In the breaker three callers are two probes and a call of an
earlier state. In the plane two executions make one wait for the other's place,
and one of them may fail to be sent; the run has one worker, what is proved of it
holds for any number.
Three elections move the leadership away, back and away again, which is what
cancels a scheduler for good. One key is enough for the store, whose keys do not
touch each other; four commands put, delete, put again and leave one after a
snapshot. In the webhooks the first workflow changes its path and the second is
there to be disturbed; two handlers race, and each row is made and removed. The
run counts states as one that differ only in what a handler will not read again
(`LiveState`).
`MaxFailureCount`, `MaxTicks`, `MaxRestarts`, `MaxElections`, `MaxLog` and
`FirstFailure` are the only bounds on counters.

Fairness. Go schedules every goroutine that can go on, and a workflow ends: weak
fairness of each worker's step. A select with a job waiting takes the receive
infinitely often if it is reached infinitely often, as Go picks ready cases at
random: strong fairness of `Receive`. A process that has ended is started again
(a service manager) in `SQLiteJobQueue`. Go's mutexes hand over to a waiter
after a millisecond, so a goroutine at the mutex of its cron gets it: strong
fairness of the scheduler's goroutines; ticks, handlers and the stop are never
assumed to happen. In the breaker calls return, and callers come back to a
half-open breaker that has room. In the plane sockets pass on what they hold,
tickers tick, and a worker whose heartbeat loop has returned is silent for the
thirty seconds of the check; a REQ socket asks until it is answered, so
registrations and heartbeats are strongly fair; nothing is assumed of a push, a
stop or a crash. In the cluster the monitors tick and Stop ends; elections and
operations are never assumed.

## Proofs

`MemoryJobQueueProofs` proves for any sets of jobs and workers, any capacity
and retry limit (`QueueAssumption`) that `Inv` is an invariant: the type
invariant, `JobsConserved`, `PendingIsReachable`, `RunningIsHeld`,
`StatusAgrees`, `AttemptsBounded`, and that a stopped pool has no worker left.
The parts need each other. That Ack and Nack find their job, so that none is
silently lost, is `RunningIsHeld`; it needs that two workers never receive the
same id, which is `PendingIsReachable` with the distinctness of the ids in the
channel; that in turn needs that a retried or refused job is in no channel yet,
which is `JobsConserved` and again `RunningIsHeld`. `AttemptsBounded` ties the
runs to the retry count and needs `StatusAgrees` for which attempt is in
progress. `StopDrainsRunning` follows as an exited worker holds nothing. There is
one lemma per action, on two lemmas about appending to and taking the head of a
sequence of distinct ids. `Refinement` proves that each step is a step of
`JobLedger` or a stutter under the mapping `Life`.

`SQLiteJobQueueProofs` proves the same kind of results for the backend that
crashes, for any jobs, workers, capacity, retry limit and number of restarts,
with or without failing statements: memory and table agree, Enqueue's answer is
true of the table, no two workers have a job and the channel offers none twice, a
row fails exactly when its attempts are used up, a job runs at most MaxRetries
times and once more per restart, and the table implements `JobLedger`. To what
the run checks the invariant adds what a single instance hides: a worker has a
job in its hands exactly when its place says so (`HandsMatch`), also while a method
is between its statement and its maps; a stopped pool has no worker left
(`StoppedIsIdle`) and a process that is down has empty maps and an empty channel
(`DownIsEmpty`), so that a recovery starts from the table alone; the table is finite
and a job without a row was never tried (`RowlessIsFresh`), so that a refused job
cannot come back; and the runs of a job are its counted failures, the run in
progress or completed, and at most one that was cut short per restart
(`RunsCounted`). The refinement needs the invariant for one thing: that Ack and
Nack meet a row that says running with the retry count the worker has in memory.

`EngineProofs` is about the engine and about the breaker.

For any number of calls nested to any depth and any number of nodes, a run
records into its own accumulator, a node is handed its own run's context or none,
the run data is never shared, and the edges a run publishes lack none of its
execution tree. The hypothesis `Sequential` (one top-level run at a time, no empty
callee) names the two conditions without which the code breaks them, as the run
`engine_concurrent` and the configuration `SharedEngine_gaps` show. The invariant
says that the runs under way are a stack (`Stack`): each was called by the one
below and keeps that one's accumulator in its local, all but the topmost wait, and
the fields are the topmost's. A call pushes (`StackPushed`), a return pops
(`StackPopped`), every other step leaves the stack alone (`StackStays`). An error
return does not restore the accumulator; the invariant holds because the caller
then fails too and records nothing. For the published edges a second invariant,
`Covered`, stands on the first: every edge recorded is in its own run's map
(`EdgesAtHome`), a run that has returned has no callee under way
(`CalleesReturned`), a failed callee has failed its caller (`FailureIsPassedOn`),
and the map of a caller covers the trees of the callees that succeeded
(`CalleesCovered`). `Tree` is the least set closed under calls, which needs no
recursion: the lemmas `TreeIsClosed`, `TreeIsLeast` and `TreeOfCallees` give its
unfolding, and `SettledTree` that a returned run's tree does not grow.

For any thresholds and callers, a closed breaker is below its threshold, a
half-open state never runs more than MaxConcurrentCalls probes, and it begins
without successes. The invariant adds `ProbesAreCounted`: the running probes are no more
than the counter that is compared with the limit.

`WorkflowSchedulerProofs` proves every invariant of the scheduler for any ids,
crons, goroutines, ticks and MaxRuns: MaxRuns is kept, an enabled schedule ticks,
no untracked cron does, history and gauges agree; all of them also when runs
panic, which leave their records running. That of the history assumes that no
history was truncated (`MaxTicks <= HistoryLimit`). That the check and the count of
a run are under separate locks does no harm because what the check found still
holds at the count (`RunsLeft`), and that because an untouched schedule has had one
cron (`OneCronEach`) and a cron is past its mutex with one goroutine
(`RunsAreSerial`). A new cron can take no goroutine or tick from another schedule as
everything that ticks or runs has an owner (`CronsAreOwned`). `HistoryAgrees`
compares numbers with the size of the set of completed, uncounted runs; it needs
no bound on the goroutines, as finitely many are under way at a time
(`FinitelyMany`). `SetsMove` says how a step of a goroutine moves that set, and
each step is then one lemma.

`WorkPlaneProofs` proves that when a Stop ends its wait in time the result of
every execution it found tracked has been sent, or its send has failed and been
given up, for any executions, workers and concurrency, whichever results cannot be
sent. That activeExecutions is empty says this only because an execution
leaves it after its result is sent, and is in it while it is at work; the
invariant `Tracking` ties the place of an execution to both.

`ClusterProofs` is about both modules of the cluster.

For any nodes, ids and elections, a node whose flag says follower has no cron that
ticks, as long as no id is added while it ticks (`~Readds`). The invariant says
that no cron is orphaned (`NoOrphans`) and that whatever ticks is covered by the
flag (`Covered`): the flag falls in the same section that stops the crons, and only
a leader's operations start one.

For any replicas, keys, values and log, a database to which all it ever saw has
been handed again holds the last value put under every key not deleted, and no
other key unless another node's snapshot was restored over it. The database may be
far ahead of the applied index, after a restart or while a snapshot read late is
restored; the invariant therefore speaks of the entries from `applied` to `reach`,
which are still to be handed to it again: a key that they do not touch is right
(`Current`, `Clean`), with the same of every stored snapshot, and the order of the
indexes (`Ordered`).

`WebhookRegistryProofs` proves that what is served is stored, active and under
its path, as long as no client posts a webhook under an id in use; and, where
workflows have paths of their own, that what a clean change leaves agrees with the
table, for any workflows, paths, handlers, faults and restarts. The first is
inductive with the types, `PathsGiven`, `TodoIsOwn` and `DownIsIdle`. For the
second, `Progress` says of each sound call, place by place, how far it has brought
rows and map (nothing of the old path is served once its row is unregistered; the
new row and hook are there when it responds), and `InLine` that a workflow without
one is right if its last change was clean. A lemma per step shows that the handler
itself stays in line, `Frame` that a step about another workflow disturbs neither,
`DisturbedInLine` that a step about the same one makes the call unsound.

`NodeRunProofs` proves the four invariants of one execution for any nodes, graphs,
inputs, batch sizes and numbers of iterations. All stand on `IInv`: the data has
its types (`DataOK`), the place of a run is one its state allows (`PlaceOK`: a
driver works at its own kind of node, a batch is at work in a body), the marks are
those of a sort (`Marks`), and the orders come from one (`OrdersOK`).

- The order (`OrderCorrect`). `Marks` says that each call under way is of a
  dependency of the one before, and that a node returned from is after all it waits
  for. A node that is its own caller then closes a set of nodes that wait for each
  other (`CycleIsCircular`), and a graph that has an order has no such set
  (`OrderIsNotCircular`), so the sort refuses exactly the graphs it must,
  whichever way the map is walked.
- The runs of a node (`RunsBounded`). `RunsInv` accounts for them while they
  happen: those of the main loop, of the batches that are done, of the done chain,
  of the retries that are passed and of the one at work (`MainRuns`, `BodyRuns`,
  `DoneRuns`, `PastRetried`, `NowRetried`). Each step adds one run to at most one
  of them and takes nothing from the others.
- What a node runs on (`DeliveredCorrect`). In `FlowInv` a node that is still to
  come has in its entry as many copies of an item as have been sent to it, and one
  that is passed has run on them (`Given`). The step that matters is a node's
  output: `RouteCount` counts it connection by connection, `CarriedIsRouted` that a
  branch is given what it promises, `OneSends` that nothing else is disturbed, and
  by the order a node that is passed is sent nothing any more.
- What a loop serves (`LoopServes`). In `LoopInv` the copies sent to the loop node,
  but by its body, are in its entry until it is reached (`Arrives`), and from then
  on what the body has served, put before the batches that are left, is what the
  loop was given (`Serves`). `BatchesAreAll` says that the batches, put together,
  are what was split, and none is too large.

The last two have a hypothesis on the workflow, besides the bound `NoStrayTags`
that every theorem of the module has through `NodeRunAssumption`. `Wide`: a Switch has no branch, or
one for each tag; for others the fallback items reach no branch, which
`NodeRun_gaps` shows. `LoopIsApart`: `Wide`, no retries, body and done chain apart,
and the nodes connected to the loop, of which there are some, come before it in the
order, or are its body. The code
does not give the last (it leaves every edge into a loop out of the order, and
where the nodes lie on the canvas decides), and `NodeRun_gaps` shows the loop that
is skipped. The three checked workflows that reach the end with a loop of one node
(`BatchLoop`, `FedLoop`, `NotedLoop`) are fed so; a loop whose body puts out other
items than it is given, or has several nodes, is not covered.

`Among` and `FlattenSeq` are recursive functions, and the counts of copies are
built from them. The library's induction theorems cannot be used, so the
module has its own: a set of numbers has a least element (`LeastNumber`), and
hence a set that has 0, and n + 1 with n, has every number (`SetInduction`), the
same for the empty sequence and `Append` (`SeqInduction`). The set to which they
are applied takes the place of the predicate.

Only model-checked: liveness (TLAPS has no rule for fairness here), that is
`AcceptedJobsSettle`, `StopTerminates`, `TicksSettle`, `HalfOpenEnds`,
`QueuedIsReported`, `OfflineIsNoticed`, `BeatsBringBack`, `OneNodeTicks` and
`LeaderServes`. Every invariant and every refinement that a run checks is proved.

## Where code and documents disagree

Two of the statements the repository makes and the code does not keep are runs:

- engine_concurrent: runs on one engine overwrite each other's workflow and data
  (`engine.go:275`); `serve` has up to ten workers on one engine.
- node_run_edges: edges are recorded after the routing has deleted the tags, so
  every branch of an If or Switch is recorded (`engine.go:739`).

The others are in configurations of their own, with one statement each, or
several in a `_gaps` configuration; run those with `-workers 1 -continue` to see
a counterexample of every invariant. All of them are violated:

| Configuration | What it shows |
|---|---|
| `MemoryJobQueue_retries` | MaxRetries is the number of runs, not of retries |
| `SQLiteJobQueue_overflow` | an Enqueue that meets a full channel reports success and the job waits for the next start (`sqlite_job_queue.go:232`) |
| `SharedEngine_gaps` | every run after the first publishes the edges of all before it (`engine.go:295`); after a nested call the caller's nodes get no context; calling a workflow without nodes loses the caller's edges; the recursion limit compares a counter that never moves |
| `NodeRun_gaps` | edges inside a loop are never recorded; a body of several nodes runs again on the items of earlier batches (`engine.go:1129-1169`); what is routed into a loop node that the order has placed too early is never split (`router.go:360`); a retry loop drawn the usual way is never driven (`engine.go:532`); a Switch's fallback items reach no branch (`router.go:92-104`) |
| `WorkflowScheduler_gaps` | `serve` gives the scheduler no storage, so every scheduled run fails; overlapping runs are delayed, not skipped; adding an id again leaves the old cron ticking; a new expression for an enabled schedule leaves it without a started cron (`registry.go:148`) |
| `CircuitBreaker_halfopen` | `halfOpenCalls` is never decremented: the default breaker, once half-open, never closes by itself (`retry.go:287`) |
| `WorkPlane_stop`, `WorkPlane_close` | Stop and Close wait for loops that block in a receive, and never return (`executor.go:543`) |
| `WorkPlane_limit` | executions received and not yet tracked are not counted, so MaxConcurrent is exceeded; Stop loses what it did not find tracked (`executor.go:274`) |
| `WorkPlane_reconnect` | after a restart of the control plane a connected worker is never known again: its heartbeats are acknowledged and dropped |
| `LeaderSchedulers_gaps` | two nodes run the schedules until the next poll; schedules accepted are gone at a handover; a leader that leads again has its schedules and a cancelled context; a check under way starts a stopped scheduler; the elector's cached yes is never revised; an id added again leaves a cron that no change of leadership stops |
| `ReplicatedStore_agree` | a snapshot is restored over the database without clearing it: deleted keys stay, and replicas disagree (`raft.go:267`) |
| `WebhookRegistry_gaps` | deleting a workflow leaves its hooks served; two handlers of one workflow leave it served though inactive; workflows that share a path take and remove each other's hook (`workflows.go:126-128`); a restart does not reconcile what an activation missed (`workflows.go:164-167`); a webhook posted under a used id leaves the old path served |

Two facts that no run needs: nothing calls SetStorage on a DistributedScheduler,
and `extractScheduleFromWorkflow` always returns nil, so that a new leader has no
schedules but those it kept. `SQLiteJobQueue_three` and `WorkflowScheduler_two`
are larger instances of listed runs, and pass; they also check the inductive
invariants (`Inv`) that the proofs use.

## Plan

What would add most next:

1. `DeadLetterQueue` (order list and map, eviction, stale copies, the checker's
   results), `Bulkhead` and `RetryPolicy` with proofs of their capacity bounds,
   and the reliable engine, which composes them with the breaker.
2. Workflow versions and the memory storage backend: numbers that concurrent saves
   take, pointers that callers share.
3. The request side of webhooks: the lookup, a response that waits for its
   workflow, streaming.
4. Proofs: a loop with a body of several nodes, and a retry's, in terms of what the
   drivers route; more of what the hybrid plane keeps.

## Not modelled

Node types, expressions, language runtimes, plugins, the AI and MCP servers and
storage engines are external behaviour or data without a protocol of their own;
handlers, authentication and the records of variables, tags and templates are
request and response. `PROJECT.json` gives the reason for each.
