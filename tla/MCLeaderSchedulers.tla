-------------------------- MODULE MCLeaderSchedulers --------------------------
(***************************************************************************)
(* What the repository says of the cluster's schedulers and the code does  *)
(* not do.                                                                 *)
(***************************************************************************)
EXTENDS LeaderSchedulers

\* distributed_scheduler.go:4: the distributed scheduler "ensures only one
\* node in the cluster executes scheduled workflows".
OneNodeAtATime == \A m, n \in Nodes : ticking[m] # {} /\ ticking[n] # {} => m = n

\* distributed_scheduler.go:118: a new leader is to "load all active workflows
\* and add schedules".
AcceptedIsKept == \A n \in Nodes : isLeader[n] => wanted \subseteq schedules[n]

\* internal/consensus/raft.go:6: "Only the leader runs scheduled workflows".
\* One that leads again has its schedules and does not run them.
EnabledTicksOnLeader ==
  \A n \in Nodes :
    isLeader[n] /\ ended[n] => enabled[n] \subseteq ticking[n]

\* distributed_scheduler.go:63: Stop "gracefully shuts down" the scheduler.
\* A check of the monitor that was under way starts it again.
StoppedStaysStopped == \A n \in Nodes : service[n] = "stopped" => ~isLeader[n]

\* internal/consensus/leader.go:71: "IsLeader returns true iff this node
\* currently holds leadership".
ElectorIsCurrent == \A n \in Nodes : ElectorIsLeader(n) <=> n \in leading
=============================================================================
