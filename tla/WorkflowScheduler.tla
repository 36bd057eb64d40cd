------------------------- MODULE WorkflowScheduler -------------------------
(***************************************************************************)
(* WorkflowScheduler (internal/scheduler): the registry of schedules, each *)
(* with a cron.Cron of its own, changed by the HTTP handlers under         *)
(* s.mutex, and the goroutines the crons start, which take the lock only   *)
(* for the check, for the look-up of the history and for the count.        *)
(*                                                                         *)
(* A goroutine's place in executeScheduledWorkflow:                        *)
(*   idle      not started, or returned                                    *)
(*   waiting   started by a tick, at the mutex of DelayIfStillRunning      *)
(*   checked   past the MaxRuns check, the read lock released              *)
(*   recorded  its "running" record prepended to the history; the engine   *)
(*   ended     the engine has returned, the verdict is known               *)
(*   completed the record is completed, RunCount is not yet incremented    *)
(*   panicked  unwound by a panic, which cron.Recover logs: the mutex of   *)
(*             its cron is released, its record says "running" for ever    *)
(* Of a history only the records that say "running" are kept, and the      *)
(* counters: no record is old enough for the monthly cleanup, and none is  *)
(* truncated, which is so for HistoryLimit ticks.  The config fields that  *)
(* are only copied (input data, names, times, MaxDuration) are left out,   *)
(* and MaxRuns never changes.                                              *)
(***************************************************************************)
EXTENDS Integers, FiniteSets

CONSTANTS
  IDs,         \* schedule ids
  Crons,       \* the cron.Cron objects made in the process's life
  Goroutines,  \* the cron library's goroutines, reused unless they panic
  MaxRuns,     \* ScheduleConfig.MaxRuns, 0 for no limit
  StorageSet,  \* was SetStorage called?
  LoadErrors,  \* may the storage fail to give a workflow?
  MaxTicks,    \* bound on the ticks of all crons
  NoCron, NoID

ASSUME SchedulerAssumption ==
  /\ MaxRuns \in Nat /\ MaxTicks \in Nat
  /\ StorageSet \in BOOLEAN /\ LoadErrors \in BOOLEAN
  /\ NoCron \notin Crons /\ NoID \notin IDs

VARIABLES
  schedules,   \* the ids in s.schedules, and in s.executions
  enabled,     \* config.Enabled
  runCount,    \* config.RunCount
  cronJobs,    \* s.cronJobs
  owner,       \* the id a cron's function was made for
  ticking,     \* the crons that are started
  total,       \* metrics.TotalSchedules and ActiveSchedules
  active,
  open,        \* open[id]: goroutines whose record in the history is "running"
  success,     \* SuccessCount and FailureCount of a history
  failure,
  stopped,     \* s.ctx is cancelled
  pc,
  cron,        \* cron[g]: the cron that started goroutine g
  verdict,
  ticks,
  \* history
  late,        \* goroutines started while one of the same cron was at work
  unloaded,    \* unloaded[id]: failures without a workflow, in the history
  touched      \* touched[id]: what was done to the id besides the ordinary

registry == <<schedules, enabled, runCount, cronJobs, owner, ticking, total,
              active>>
history == <<open, success, failure, unloaded>>
threads == <<pc, cron, verdict, ticks, late>>
vars == <<registry, history, threads, stopped, touched>>

AtWork == {"checked", "recorded", "ended", "completed"}
Places == {"idle", "waiting", "panicked"} \cup AtWork
OpenPlaces == {"recorded", "ended", "panicked"}   \* the record says "running"
Verdicts == {"success", "failed"}   \* "timeout" counts as a failure
Touches == {"readded", "rescheduled", "failedUpdate"}

HistoryLimit == 100           \* the records a history keeps

Of(g) == owner[cron[g]]       \* the schedule id g's function was made for

TypeOK ==
  /\ schedules \in SUBSET IDs
  /\ enabled \in [IDs -> BOOLEAN]
  /\ runCount \in [IDs -> Nat]
  /\ cronJobs \in [IDs -> Crons \cup {NoCron}]
  /\ owner \in [Crons -> IDs \cup {NoID}]
  /\ ticking \in SUBSET Crons
  /\ total \in Int /\ active \in Int
  /\ open \in [IDs -> SUBSET Goroutines]
  /\ success \in [IDs -> Nat] /\ failure \in [IDs -> Nat]
  /\ stopped \in BOOLEAN
  /\ pc \in [Goroutines -> Places]
  /\ cron \in [Goroutines -> Crons \cup {NoCron}]
  /\ verdict \in [Goroutines -> Verdicts]
  /\ ticks \in 0..MaxTicks
  /\ late \in SUBSET Goroutines
  /\ unloaded \in [IDs -> Nat]
  /\ touched \in [IDs -> SUBSET Touches]
  \* a tracked cron belongs to its schedule, an entry to a schedule
  /\ \A id \in IDs : cronJobs[id] # NoCron <=> id \in schedules
  /\ \A id \in schedules : owner[cronJobs[id]] = id
  /\ \A g \in Goroutines : pc[g] # "idle" => cron[g] \in Crons

Init ==
  /\ schedules = {}
  /\ enabled = [id \in IDs |-> FALSE]
  /\ runCount = [id \in IDs |-> 0]
  /\ cronJobs = [id \in IDs |-> NoCron]
  /\ owner = [c \in Crons |-> NoID]
  /\ ticking = {}
  /\ total = 0 /\ active = 0
  /\ open = [id \in IDs |-> {}]
  /\ success = [id \in IDs |-> 0]
  /\ failure = [id \in IDs |-> 0]
  /\ stopped = FALSE
  /\ pc = [g \in Goroutines |-> "idle"]
  /\ cron = [g \in Goroutines |-> NoCron]
  /\ verdict = [g \in Goroutines |-> "success"]
  /\ ticks = 0
  /\ late = {}
  /\ unloaded = [id \in IDs |-> 0]
  /\ touched = [id \in IDs |-> {}]

Set(f, x, v) == [f EXCEPT ![x] = v]
Plus(f, x) == [f EXCEPT ![x] = @ + 1]
One(b) == IF b THEN 1 ELSE 0

\* Faulty forms: a removed schedule's cron left ticking or left in the map,
\* the gauge moved without a transition, a cron not started when its schedule
\* is enabled.
CronJobKept(id) == schedules' = schedules \ {id} /\ UNCHANGED cronJobs
CronForgotten(id) == UNCHANGED ticking
GaugeBlindly(was, now) == active' = active + One(now) - One(~now)
NeverStarted(c, was, now) ==
  ticking' = IF was /\ ~now THEN ticking \ {c} ELSE ticking

Exhausted(id) == MaxRuns > 0 /\ runCount[id] >= MaxRuns
CronStopped(id) == ticking' = ticking \ {cronJobs[id]}
ActiveMoved(was, now) == active' = active + One(now /\ ~was) - One(was /\ ~now)

\* cronJob.Start when Enabled becomes true, Stop when it becomes false.
Started(c, was, now) ==
  ticking' = CASE now /\ ~was -> ticking \cup {c}
               [] was /\ ~now -> ticking \ {c}
               [] OTHER -> ticking

Deleted(id) ==
  /\ schedules' = schedules \ {id}
  /\ cronJobs' = Set(cronJobs, id, NoCron)

HistoryDropped(id) ==
  /\ open' = Set(open, id, {})
  /\ success' = Set(success, id, 0)
  /\ failure' = Set(failure, id, 0)
  /\ unloaded' = Set(unloaded, id, 0)

Touch(id, how) == touched' = [touched EXCEPT ![id] = @ \cup {how}]

----------------------------------------------------------------------------
(* The registry, each operation under s.mutex.                             *)

\* Also of an id that is there: the old cron is overwritten, not stopped.
AddSchedule(id, c, on) ==
  /\ owner[c] = NoID
  /\ owner' = Set(owner, c, id)
  /\ schedules' = schedules \cup {id}
  /\ enabled' = Set(enabled, id, on)
  /\ runCount' = Set(runCount, id, 0)
  /\ cronJobs' = Set(cronJobs, id, c)
  /\ ticking' = IF on THEN ticking \cup {c} ELSE ticking
  /\ total' = total + 1
  /\ active' = active + One(on)
  /\ HistoryDropped(id)
  /\ IF \E d \in Crons : owner[d] = id THEN Touch(id, "readded")
                                       ELSE UNCHANGED touched
  /\ UNCHANGED <<threads, stopped>>

RemoveSchedule(id) ==
  /\ id \in schedules
  /\ CronStopped(id)
  /\ Deleted(id)
  /\ total' = total - 1
  /\ active' = active - One(enabled[id])
  /\ enabled' = Set(enabled, id, FALSE)
  /\ runCount' = Set(runCount, id, 0)
  /\ HistoryDropped(id)
  /\ UNCHANGED <<owner, threads, stopped, touched>>

\* UpdateSchedule with neither an expression nor a timezone: the enable and
\* the disable endpoint.
SetEnabled(id, on) ==
  /\ id \in schedules
  /\ enabled' = Set(enabled, id, on)
  /\ Started(cronJobs[id], enabled[id], on)
  /\ ActiveMoved(enabled[id], on)
  /\ UNCHANGED <<schedules, runCount, cronJobs, owner, total, history,
                 threads, stopped, touched>>

\* UpdateSchedule with a new expression or timezone: the old cron is stopped
\* and a new one made, which is started only if Enabled goes from false to
\* true.
Reschedule(id, c, on) ==
  /\ id \in schedules
  /\ owner[c] = NoID
  /\ owner' = Set(owner, c, id)
  /\ cronJobs' = Set(cronJobs, id, c)
  /\ enabled' = Set(enabled, id, on)
  /\ ticking' = (ticking \ {cronJobs[id]}) \cup
                  (IF on /\ ~enabled[id] THEN {c} ELSE {})
  /\ ActiveMoved(enabled[id], on)
  /\ Touch(id, "rescheduled")
  /\ UNCHANGED <<schedules, runCount, total, history, threads, stopped>>

\* A bound: one failed update of an id, for the gauge drifts with each.
FirstFailure(id) == "failedUpdate" \notin touched[id]

\* The same with a timezone that cannot be loaded, or an expression that does
\* not parse: the fields are set, in the second case the old cron is stopped,
\* then the update fails.
RescheduleFails(id, on) ==
  /\ id \in schedules
  /\ FirstFailure(id)
  /\ enabled' = Set(enabled, id, on)
  /\ CronStopped(id) \/ UNCHANGED ticking
  /\ Touch(id, "failedUpdate")
  /\ UNCHANGED <<schedules, runCount, cronJobs, owner, total, active,
                 history, threads, stopped>>

\* Stop cancels the context and stops the crons of the map.  It waits for
\* no goroutine, and handlers may go on calling the registry.
Stop ==
  /\ ~stopped
  /\ stopped' = TRUE
  /\ ticking' = ticking \ {cronJobs[id] : id \in IDs}
  /\ UNCHANGED <<schedules, enabled, runCount, cronJobs, owner, total, active,
                 history, threads, touched>>

----------------------------------------------------------------------------
(* The runs.                                                               *)

Goto(g, from, to) == pc[g] = from /\ pc' = [pc EXCEPT ![g] = to]
Returns(g, from) ==
  /\ Goto(g, from, "idle")
  /\ cron' = Set(cron, g, NoCron)
  /\ verdict' = Set(verdict, g, "success")
  /\ late' = late \ {g}

UnderWay(c) == {g \in Goroutines : pc[g] \in AtWork /\ cron[g] = c}

\* The cron library: a started cron runs its function in a new goroutine.
Tick(c, g) ==
  /\ c \in ticking
  /\ ticks < MaxTicks
  /\ ticks' = ticks + 1
  /\ Goto(g, "idle", "waiting")
  /\ cron' = Set(cron, g, c)
  /\ late' = IF UnderWay(c) = {} THEN late ELSE late \cup {g}
  /\ UNCHANGED <<registry, history, stopped, touched, verdict>>

\* Faulty forms: no delay at all, a lock that its waiters hold too, failures
\* not counted.
NotDelayed(g) == FALSE
DelayedByWaiters(g) == \E h \in Goroutines \ {g} : cron[h] = cron[g]
FailuresNotCounted(g, v) ==
  LET id == Of(g) IN
  /\ open' = [open EXCEPT ![id] = @ \ {g}]
  /\ success' = IF v = "success" THEN Plus(success, id) ELSE success
  /\ UNCHANGED failure

\* cron.DelayIfStillRunning: a mutex per cron, held while the function runs.
Delayed(g) == UnderWay(cron[g]) # {}

\* "Schedule not found" or "has reached maximum runs": nothing is done.
CheckRefuses(g) ==
  /\ Returns(g, "waiting")
  /\ ~Delayed(g)
  /\ Of(g) \notin schedules \/ Exhausted(Of(g))
  /\ UNCHANGED <<registry, history, stopped, touched, ticks>>

CheckPasses(g) ==
  /\ Goto(g, "waiting", "checked")
  /\ ~Delayed(g)
  /\ Of(g) \in schedules /\ ~Exhausted(Of(g))
  /\ UNCHANGED <<registry, history, stopped, touched, cron, verdict, ticks,
                 late>>

AddRecord(g) ==
  /\ Goto(g, "checked", "recorded")
  /\ open' = [open EXCEPT ![Of(g)] =
                IF Of(g) \in schedules THEN @ \cup {g} ELSE @]
  /\ UNCHANGED <<registry, success, failure, unloaded, stopped, touched, cron,
                 verdict, ticks, late>>

\* completeExecution: the record is looked up in the history the id has now.
Completed(g, v) ==
  LET id == Of(g)
      found == g \in open[id]
  IN  /\ open' = [open EXCEPT ![id] = @ \ {g}]
      /\ success' = IF found /\ v = "success" THEN Plus(success, id)
                                              ELSE success
      /\ failure' = IF found /\ v # "success" THEN Plus(failure, id)
                                              ELSE failure

\* The workflow cannot be loaded: the run fails and is not counted.
LoadFails(g) ==
  /\ Returns(g, "recorded")
  /\ ~StorageSet \/ LoadErrors
  /\ Completed(g, "failed")
  /\ unloaded' = IF g \in open[Of(g)] THEN Plus(unloaded, Of(g)) ELSE unloaded
  /\ UNCHANGED <<registry, stopped, touched, ticks>>

\* The engine returns a result, an error or, at MaxDuration, the deadline's.
RunEnds(g, v) ==
  /\ StorageSet
  /\ Goto(g, "recorded", "ended")
  /\ verdict' = Set(verdict, g, v)
  /\ UNCHANGED <<registry, history, stopped, touched, cron, ticks, late>>

\* A node panics: executeScheduledWorkflow has no defer for its record or its
\* count, cron.Recover keeps the process alive, DelayIfStillRunning unlocks.
RunPanics(g) ==
  /\ StorageSet
  /\ Goto(g, "recorded", "panicked")
  /\ UNCHANGED <<registry, history, stopped, touched, cron, verdict, ticks,
                 late>>

CompleteRecord(g) ==
  /\ Goto(g, "ended", "completed")
  /\ Completed(g, verdict[g])
  /\ UNCHANGED <<registry, unloaded, stopped, touched, cron, verdict, ticks,
                 late>>

\* RunCount of the config the id has now; the mutex of the cron is released.
CountRun(g) ==
  /\ Returns(g, "completed")
  /\ runCount' = IF Of(g) \in schedules THEN Plus(runCount, Of(g))
                                        ELSE runCount
  /\ UNCHANGED <<schedules, enabled, cronJobs, owner, ticking, total, active,
                 history, stopped, touched, ticks>>

Goroutine(g) ==
  \/ CheckRefuses(g) \/ CheckPasses(g) \/ AddRecord(g) \/ LoadFails(g)
  \/ \E v \in Verdicts : RunEnds(g, v)
  \/ RunPanics(g) \/ CompleteRecord(g) \/ CountRun(g)

Next ==
  \/ \E id \in IDs :
       \/ RemoveSchedule(id)
       \/ \E on \in BOOLEAN :
            \/ SetEnabled(id, on) \/ RescheduleFails(id, on)
            \/ \E c \in Crons : AddSchedule(id, c, on) \/ Reschedule(id, c, on)
  \/ Stop
  \/ \E g \in Goroutines : Goroutine(g) \/ \E c \in Crons : Tick(c, g)

Spec == Init /\ [][Next]_vars

\* A goroutine that may go on does; the mutex of a cron goes to every waiter
\* in the end (Go's mutexes do not starve), and the engine returns or panics.
Fairness == \A g \in Goroutines : SF_vars(Goroutine(g))
FairSpec == Spec /\ Fairness

----------------------------------------------------------------------------
(* What holds of an id unless it was added again, rescheduled or the       *)
(* update of it failed: those three are what MCWorkflowScheduler's         *)
(* findings are about.                                                     *)

Untouched(id) == touched[id] = {}

\* The check under the read lock and the increment after the run do not let
\* a schedule run more than MaxRuns times: the runs of a cron are serial,
\* also across disable and enable (executor.go:23, 78-80).
RunsBounded ==
  MaxRuns > 0 => \A id \in IDs : Untouched(id) => runCount[id] <= MaxRuns

\* The cron of a schedule ticks exactly while the schedule is enabled, until
\* the scheduler is stopped (registry.go:37-39, 148-155).
EnabledIsTicking ==
  ~stopped => \A id \in schedules :
                Untouched(id) => (cronJobs[id] \in ticking <=> enabled[id])

\* No cron ticks for a schedule that was removed or that has another cron
\* now, even after reschedulings and failed updates (registry.go:69-75, 131-139).
OnlyTrackedTicks ==
  \A c \in ticking :
    "readded" \notin touched[owner[c]] => cronJobs[owner[c]] = c

\* The gauges count the schedules and the enabled ones, over any sequence of
\* additions, updates and removals (registry.go:48-53, 77-82, 148-159).
GaugesAgree ==
  (\A id \in IDs : touched[id] \subseteq {"rescheduled"}) =>
    /\ total = Cardinality(schedules)
    /\ active = Cardinality({id \in schedules : enabled[id]})

\* The records that say "running" are those of the goroutines under way and of
\* the runs that panicked, of which none is ever closed or counted; and the
\* counters of the history agree with RunCount but for the runs between the
\* completion and the count, and those that never got a workflow
\* (executor.go:38-80, history.go:42-94, registry.go:212-215).
HistoryAgrees ==
  \A id \in schedules :
    "readded" \notin touched[id] =>
      LET ofId == {g \in Goroutines : cron[g] # NoCron /\ Of(g) = id}
      IN  /\ open[id] = {g \in ofId : pc[g] \in OpenPlaces}
          /\ success[id] + failure[id] =
               runCount[id] + unloaded[id]
                 + Cardinality({g \in ofId : pc[g] = "completed"})

\* A tick that had to wait for the run before it is served in the end, also
\* behind a run that panics (registry.go:212-215).
TicksSettle ==
  \A g \in Goroutines : pc[g] = "waiting" ~> pc[g] \in {"idle", "panicked"}

(* The inductive invariant of the proofs: what the properties above need to  *)
(* know of crons and goroutines.                                             *)

\* A cron that ticks, or ran a goroutine that is under way, was made for an id.
CronsAreOwned ==
  /\ \A c \in ticking : owner[c] \in IDs
  /\ \A g \in Goroutines : pc[g] # "idle" => Of(g) \in IDs
  /\ \A g \in Goroutines : pc[g] = "idle" => cron[g] = NoCron

OneCronEach ==
  \A id \in IDs : Untouched(id) =>
    \A c, d \in Crons : owner[c] = id /\ owner[d] = id => c = d

\* The mutex of a cron: one goroutine at a time is past it.
RunsAreSerial ==
  \A g, h \in Goroutines :
    pc[g] \in AtWork /\ pc[h] \in AtWork /\ cron[g] = cron[h] => g = h

\* What the check found still holds when the run is counted.
RunsLeft ==
  MaxRuns > 0 =>
    \A g \in Goroutines :
      pc[g] \in AtWork /\ Of(g) \in schedules /\ Untouched(Of(g)) =>
        runCount[Of(g)] < MaxRuns

FinitelyMany ==
  IsFiniteSet(schedules) /\ IsFiniteSet({g \in Goroutines : pc[g] # "idle"})

Inv ==
  /\ TypeOK /\ CronsAreOwned /\ OneCronEach /\ RunsAreSerial /\ RunsLeft
  /\ FinitelyMany
  /\ RunsBounded /\ EnabledIsTicking /\ OnlyTrackedTicks
  /\ GaugesAgree /\ HistoryAgrees
=============================================================================
