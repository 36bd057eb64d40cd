-------------------------- MODULE LeaderSchedulers --------------------------
(***************************************************************************)
(* LeaderSchedulers: the nodes of a cluster, each with a                   *)
(* DistributedScheduler (internal/scheduler/distributed_scheduler.go) that *)
(* starts and stops a WorkflowScheduler as the node gains and loses the    *)
(* Raft leadership, and with a LeaderElector (internal/consensus).         *)
(*                                                                         *)
(* Raft is external: who leads by its own account may be nobody, one, or   *)
(* for the length of a lease the old and the new leader.  The monitor      *)
(* learns of it by asking every five seconds, without the mutex, and acts  *)
(* on the answer under it.  Its place:                                     *)
(*   waiting  in the select          ticked  the ticker has been chosen    *)
(*   read     currentlyLeader known  returned                              *)
(* Of a WorkflowScheduler only what leadership changes is here: its        *)
(* schedules, which are enabled, the crons that tick and the context.  Its *)
(* runs are module WorkflowScheduler's; here they never find a workflow,   *)
(* for nothing calls SetStorage on it.                                     *)
(***************************************************************************)
EXTENDS Integers, FiniteSets

CONSTANTS
  Nodes, IDs,
  Stoppable,     \* the nodes whose Stop is called
  Readds,        \* is an id added again whose cron ticks?
  MaxElections

ASSUME ClusterAssumption ==
  /\ Stoppable \subseteq Nodes /\ Readds \in BOOLEAN /\ MaxElections \in Nat

VARIABLES
  leading,    \* the nodes whose raft.State() is Leader
  elections,
  isLeader,   \* the flag of a DistributedScheduler
  pc, seen,   \* its monitor, and what it has read
  service,    \* up; cancelled, Stop before the mutex; stopped
  schedules,  \* the inner scheduler: its ids,
  enabled,
  ticking,    \* those whose tracked cron ticks,
  orphans,    \* those whose replaced cron, in no map, ticks
  ended,      \* and whether its context is cancelled
  held,       \* the elector's cache
  \* history
  wanted      \* the ids added, and not removed, with a nil answer

raft == <<leading, elections>>
monitor == <<isLeader, pc, seen>>
inner == <<schedules, enabled, ticking, orphans, ended>>
vars == <<raft, monitor, service, inner, held, wanted>>

Init ==
  /\ leading = {} /\ elections = 0
  /\ isLeader = [n \in Nodes |-> FALSE]
  /\ pc = [n \in Nodes |-> "waiting"]
  /\ seen = [n \in Nodes |-> FALSE]
  /\ service = [n \in Nodes |-> "up"]
  /\ schedules = [n \in Nodes |-> {}]
  /\ enabled = [n \in Nodes |-> {}]
  /\ ticking = [n \in Nodes |-> {}]
  /\ orphans = [n \in Nodes |-> {}]
  /\ ended = [n \in Nodes |-> FALSE]
  /\ held = [n \in Nodes |-> FALSE]
  /\ wanted = {}

Set(f, x, v) == [f EXCEPT ![x] = v]

----------------------------------------------------------------------------
(* Raft, and the elector.                                                  *)

\* Another node may lead in its own eyes until its lease is over.
Elect(n) ==
  /\ n \notin leading
  /\ elections < MaxElections
  /\ leading' = leading \cup {n}
  /\ elections' = elections + 1
  /\ UNCHANGED <<monitor, service, inner, held, wanted>>

Depose(n) ==
  /\ n \in leading
  /\ leading' = leading \ {n}
  /\ UNCHANGED <<elections, monitor, service, inner, held, wanted>>

\* LeaderElector.IsLeader: a positive answer is kept.
ElectorIsLeader(n) == held[n] \/ n \in leading

\* The function it runs is the caller's.
ScheduleOnLeader(n) ==
  /\ ElectorIsLeader(n)
  /\ held' = Set(held, n, TRUE)
  /\ UNCHANGED <<raft, monitor, service, inner, wanted>>

----------------------------------------------------------------------------
(* leadershipMonitor and checkLeadership.                                  *)

\* The select may take a tick though the context is cancelled, until Stop has
\* stopped the ticker.
Tick(n) ==
  /\ pc[n] = "waiting"
  /\ service[n] # "stopped"
  /\ pc' = Set(pc, n, "ticked")
  /\ UNCHANGED <<raft, isLeader, seen, service, inner, held, wanted>>

MonitorReturns(n) ==
  /\ pc[n] = "waiting"
  /\ service[n] # "up"
  /\ pc' = Set(pc, n, "returned")
  /\ UNCHANGED <<raft, isLeader, seen, service, inner, held, wanted>>

\* Faulty form: the monitor asks the elector.
AsksElector(n) == isLeader[n] \/ n \in leading

CurrentlyLeader(n) == n \in leading

ReadLeadership(n) ==
  /\ pc[n] = "ticked"
  /\ seen' = Set(seen, n, CurrentlyLeader(n))
  /\ pc' = Set(pc, n, "read")
  /\ UNCHANGED <<raft, isLeader, service, inner, held, wanted>>

\* Faulty form: the crons of a scheduler that is stopped go on.
CronsGoOn(n) ==
  /\ ended' = Set(ended, n, TRUE)
  /\ UNCHANGED <<schedules, enabled, ticking, orphans>>

\* WorkflowScheduler.Stop: the context is cancelled for good, the crons in
\* the map are stopped, the schedules stay.
StopScheduler(n) ==
  /\ ended' = Set(ended, n, TRUE)
  /\ ticking' = Set(ticking, n, {})
  /\ UNCHANGED <<schedules, enabled, orphans>>

\* Faulty form: a scheduler that was stopped is not started again.
FirstTimeOnly(n) == seen[n] /\ ~isLeader[n] /\ ~ended[n]

Gained(n) == seen[n] /\ ~isLeader[n]
Lost(n) == ~seen[n] /\ isLeader[n]

\* Starting adds no schedule: of every active workflow the extracted schedule
\* is nil.
CheckLeadership(n) ==
  /\ pc[n] = "read"
  /\ pc' = Set(pc, n, "waiting")
  /\ isLeader' = [isLeader EXCEPT ![n] = Gained(n) \/ (@ /\ ~Lost(n))]
  /\ IF Lost(n) THEN StopScheduler(n) ELSE UNCHANGED inner
  /\ UNCHANGED <<raft, seen, service, held, wanted>>

\* Stop cancels the monitor's context and stops its ticker,
Stop(n) ==
  /\ n \in Stoppable
  /\ service[n] = "up"
  /\ service' = Set(service, n, "cancelled")
  /\ UNCHANGED <<raft, monitor, inner, held, wanted>>

\* and under the mutex the scheduler, if the flag is set.
StopEnds(n) ==
  /\ service[n] = "cancelled"
  /\ service' = Set(service, n, "stopped")
  /\ isLeader' = Set(isLeader, n, FALSE)
  /\ IF isLeader[n] THEN StopScheduler(n) ELSE UNCHANGED inner
  /\ UNCHANGED <<raft, pc, seen, held, wanted>>

----------------------------------------------------------------------------
(* The operations.  One that is ignored answers nil, like one that is done.*)

Add(n, id, on) ==
  /\ IF isLeader[n]
     THEN /\ id \in ticking[n] => Readds
          /\ schedules' = [schedules EXCEPT ![n] = @ \cup {id}]
          /\ enabled' = [enabled EXCEPT
                           ![n] = IF on THEN @ \cup {id} ELSE @ \ {id}]
          /\ ticking' = [ticking EXCEPT
                           ![n] = IF on THEN @ \cup {id} ELSE @ \ {id}]
          /\ orphans' = [orphans EXCEPT ![n] = @ \cup ({id} \cap ticking[n])]
          /\ UNCHANGED ended
     ELSE UNCHANGED inner
  /\ wanted' = wanted \cup {id}
  /\ UNCHANGED <<raft, monitor, service, held>>

Remove(n, id) ==
  /\ isLeader[n] => id \in schedules[n]
  /\ IF isLeader[n]
     THEN /\ schedules' = [schedules EXCEPT ![n] = @ \ {id}]
          /\ enabled' = [enabled EXCEPT ![n] = @ \ {id}]
          /\ ticking' = [ticking EXCEPT ![n] = @ \ {id}]
          /\ UNCHANGED <<orphans, ended>>
     ELSE UNCHANGED inner
  /\ wanted' = wanted \ {id}
  /\ UNCHANGED <<raft, monitor, service, held>>

\* A cron starts when the schedule becomes enabled, and only then: a new
\* expression replaces it by one that is not started.
Update(n, id, on, rescheduled) ==
  /\ isLeader[n]
  /\ id \in schedules[n]
  /\ enabled' = [enabled EXCEPT ![n] = IF on THEN @ \cup {id} ELSE @ \ {id}]
  /\ ticking' = [ticking EXCEPT
                   ![n] = IF on /\ id \notin enabled[n] THEN @ \cup {id}
                          ELSE IF rescheduled \/ ~on THEN @ \ {id} ELSE @]
  /\ UNCHANGED <<raft, monitor, service, schedules, orphans, ended, held,
                 wanted>>

----------------------------------------------------------------------------
Monitor(n) ==
  Tick(n) \/ MonitorReturns(n) \/ ReadLeadership(n) \/ CheckLeadership(n)

Operate(n, id) ==
  \/ Remove(n, id)
  \/ \E on \in BOOLEAN : Add(n, id, on)
  \/ \E on, rescheduled \in BOOLEAN : Update(n, id, on, rescheduled)

Next == \E n \in Nodes :
  \/ Elect(n) \/ Depose(n) \/ ScheduleOnLeader(n)
  \/ Monitor(n) \/ Stop(n) \/ StopEnds(n)
  \/ \E id \in IDs : Operate(n, id)

Spec == Init /\ [][Next]_vars

\* The tickers tick, and what waits for the mutex gets it.
FairSpec == Spec /\ \A n \in Nodes : WF_vars(Monitor(n)) /\ WF_vars(StopEnds(n))

----------------------------------------------------------------------------
TypeOK ==
  /\ leading \in SUBSET Nodes /\ elections \in 0..MaxElections
  /\ isLeader \in [Nodes -> BOOLEAN] /\ seen \in [Nodes -> BOOLEAN]
  /\ pc \in [Nodes -> {"waiting", "ticked", "read", "returned"}]
  /\ service \in [Nodes -> {"up", "cancelled", "stopped"}]
  /\ schedules \in [Nodes -> SUBSET IDs]
  /\ enabled \in [Nodes -> SUBSET IDs]
  /\ ticking \in [Nodes -> SUBSET IDs]
  /\ orphans \in [Nodes -> SUBSET IDs]
  /\ ended \in [Nodes -> BOOLEAN] /\ held \in [Nodes -> BOOLEAN]
  /\ wanted \in SUBSET IDs

\* A node whose flag says follower has no cron that ticks, whatever the order
\* of elections, operations and Stop, unless an id is added while it ticks
\* (distributed_scheduler.go:64-82, 99-132; registry.go:14-58).
OnlyLeadersTick ==
  \A n \in Nodes : ticking[n] \cup orphans[n] # {} => isLeader[n]

\* Once Raft settles on a leader the schedulers of the other nodes fall
\* silent, but for one whose Stop is called
\* (distributed_scheduler.go:85-132).
OneNodeTicks ==
  \A n \in Nodes :
    <>[](leading = {n}) =>
      <>[](\A m \in Nodes \ {n} : service[m] = "up" => ticking[m] = {})

\* and the leader's takes schedules, also one that has led before.
LeaderServes ==
  \A n \in Nodes :
    <>[](leading = {n} /\ service[n] = "up") => <>[]isLeader[n]
=============================================================================
