---------------------------- MODULE ClusterProofs ----------------------------
(***************************************************************************)
(* Proofs about the components that hang on Raft.                          *)
(*                                                                         *)
(* LeaderSchedulers, for any nodes, schedules and elections: where no id   *)
(* is added while its cron ticks, no cron gets lost from the map           *)
(* (NoOrphans), and then the flag of a node covers what ticks on it.       *)
(*                                                                         *)
(* ReplicatedStore, for any replicas, keys, values and logs: the two       *)
(* promises are about a replica that has caught up; what is inductive is   *)
(* the same about each key that the entries still to be handed to it again *)
(* do not touch (Current, Clean), of the databases and of the snapshots,   *)
(* and the order of the indices.                                           *)
(***************************************************************************)
EXTENDS LeaderSchedulers, ReplicatedStore, TLAPS

NoOrphans == ~Readds => \A n \in Nodes : orphans[n] = {}
Covered == \A n \in Nodes : ticking[n] # {} => isLeader[n]

IInv == TypeOK /\ NoOrphans /\ Covered

LEMMA InitIInv == Init => IInv
BY ClusterAssumption DEF Init, IInv, TypeOK, NoOrphans, Covered

\* What stopping the inner scheduler does to the node, and to the others.
LEMMA SchedulerStopped ==
  ASSUME TypeOK, NEW n \in Nodes, StopScheduler(n)
  PROVE  /\ ended' \in [Nodes -> BOOLEAN]
         /\ ticking' \in [Nodes -> SUBSET IDs]
         /\ \A m \in Nodes : ticking'[m] = IF m = n THEN {} ELSE ticking[m]
         /\ UNCHANGED <<schedules, enabled, orphans>>
BY DEF TypeOK, StopScheduler, Set

\* The actions under the mutex that leadership or Stop is about.
LEMMA StepMonitor ==
  ASSUME IInv, NEW n \in Nodes, CheckLeadership(n) \/ StopEnds(n)
  PROVE  IInv'
<1> USE DEF IInv, TypeOK, NoOrphans, Covered, Set
<1>1. CASE CheckLeadership(n)
  <2>1. /\ isLeader' \in [Nodes -> BOOLEAN]
        /\ \A m \in Nodes : m # n => isLeader'[m] = isLeader[m]
        /\ isLeader'[n] = (Gained(n) \/ (isLeader[n] /\ ~Lost(n)))
    BY <1>1 DEF CheckLeadership, Gained, Lost
  <2>2. pc' \in [Nodes -> {"waiting", "ticked", "read", "returned"}]
    BY <1>1 DEF CheckLeadership
  <2>3. CASE Lost(n)
    <3>1. StopScheduler(n)
      BY <1>1, <2>3 DEF CheckLeadership
    <3>2. TypeOK'
      BY <1>1, <2>1, <2>2, <3>1, SchedulerStopped DEF CheckLeadership, raft
    <3>3. NoOrphans' /\ Covered'
      BY <2>1, <3>1, SchedulerStopped
    <3> QED BY <3>2, <3>3
  <2>4. CASE ~Lost(n)
    <3>1. UNCHANGED inner
      BY <1>1, <2>4 DEF CheckLeadership
    <3>2. TypeOK'
      BY <1>1, <2>1, <2>2, <3>1 DEF CheckLeadership, raft, inner
    <3>3. NoOrphans' /\ Covered'
      BY <2>1, <2>4, <3>1 DEF inner
    <3> QED BY <3>2, <3>3
  <2> QED BY <2>3, <2>4
<1>2. CASE StopEnds(n)
  <2>1. /\ isLeader' \in [Nodes -> BOOLEAN]
        /\ service' \in [Nodes -> {"up", "cancelled", "stopped"}]
        /\ \A m \in Nodes : m # n => isLeader'[m] = isLeader[m]
    BY <1>2 DEF StopEnds
  <2>2. CASE isLeader[n]
    <3>1. StopScheduler(n)
      BY <1>2, <2>2 DEF StopEnds
    <3>2. TypeOK'
      BY <1>2, <2>1, <3>1, SchedulerStopped DEF StopEnds, raft
    <3>3. NoOrphans' /\ Covered'
      BY <2>1, <3>1, SchedulerStopped
    <3> QED BY <3>2, <3>3
  <2>3. CASE ~isLeader[n]    \* nothing ticked
    <3>1. UNCHANGED inner
      BY <1>2, <2>3 DEF StopEnds
    <3>2. TypeOK'
      BY <1>2, <2>1, <3>1 DEF StopEnds, raft, inner
    <3>3. NoOrphans' /\ Covered'
      BY <2>1, <2>3, <3>1 DEF inner
    <3> QED BY <3>2, <3>3
  <2> QED BY <2>2, <2>3
<1> QED BY <1>1, <1>2

\* The operations change the inner scheduler of a leader only.
LEMMA StepOperate ==
  ASSUME IInv, NEW n \in Nodes, NEW id \in IDs, Operate(n, id)
  PROVE  IInv'
<1> USE DEF IInv, TypeOK, NoOrphans, Covered, raft, monitor, inner
<1>1. ASSUME NEW on \in BOOLEAN, Add(n, id, on) PROVE IInv'
  <2>1. CASE isLeader[n]
    <3>1. TypeOK'
      BY <1>1, <2>1 DEF Add
    <3>2. NoOrphans'
      BY <1>1, <2>1 DEF Add
    <3>3. Covered'
      BY <1>1, <2>1 DEF Add
    <3> QED BY <3>1, <3>2, <3>3
  <2>2. CASE ~isLeader[n]
    BY <1>1, <2>2 DEF Add
  <2> QED BY <2>1, <2>2
<1>2. CASE Remove(n, id)
  <2>1. CASE isLeader[n]
    BY <1>2, <2>1 DEF Remove
  <2>2. CASE ~isLeader[n]
    BY <1>2, <2>2 DEF Remove
  <2> QED BY <2>1, <2>2
<1>3. ASSUME NEW on \in BOOLEAN, NEW rescheduled \in BOOLEAN,
             Update(n, id, on, rescheduled)
      PROVE  IInv'
  BY <1>3 DEF Update
<1> QED BY <1>1, <1>2, <1>3 DEF Operate

\* The rest leaves the flag and the inner scheduler alone.
LEMMA StepRest ==
  ASSUME IInv, NEW n \in Nodes,
         \/ Elect(n) \/ Depose(n) \/ ScheduleOnLeader(n)
         \/ Tick(n) \/ MonitorReturns(n) \/ ReadLeadership(n) \/ Stop(n)
  PROVE  IInv'
<1> USE ClusterAssumption
        DEF IInv, TypeOK, NoOrphans, Covered, raft, monitor, inner, Set
<1>1. CASE Elect(n) \/ Depose(n)
  BY <1>1 DEF Elect, Depose
<1>2. CASE ScheduleOnLeader(n)
  BY <1>2 DEF ScheduleOnLeader
<1>3. CASE Tick(n) \/ MonitorReturns(n)
  BY <1>3 DEF Tick, MonitorReturns
<1>4. CASE ReadLeadership(n)
  BY <1>4 DEF ReadLeadership, CurrentlyLeader
<1>5. CASE Stop(n)
  BY <1>5 DEF Stop
<1> QED BY <1>1, <1>2, <1>3, <1>4, <1>5

LEMMA StepIInv == IInv /\ [Next]_vars => IInv'
<1> SUFFICES ASSUME IInv, [Next]_vars PROVE IInv'
  OBVIOUS
<1>1. CASE Next
  BY <1>1, StepMonitor, StepOperate, StepRest DEF Next, Monitor
<1>2. CASE UNCHANGED vars
  BY <1>2
     DEF vars, IInv, TypeOK, NoOrphans, Covered, raft, monitor, inner
<1> QED BY <1>1, <1>2

THEOREM Invariance == Spec => []IInv
BY InitIInv, StepIInv, PTL DEF Spec

\* Every variable of the nodes has its type (distributed_scheduler.go:22-32).
THEOREM TypeCorrect == Spec => []TypeOK
BY Invariance, PTL DEF IInv

\* Where no id is added while its cron ticks, only a node whose flag is set
\* has crons that tick, whatever the elections (distributed_scheduler.go:99-132).
THEOREM OnlyLeaders ==
  ASSUME ~Readds
  PROVE  Spec => []OnlyLeadersTick
<1>1. IInv => OnlyLeadersTick
  BY DEF IInv, NoOrphans, Covered, OnlyLeadersTick
<1> QED BY <1>1, Invariance, PTL

----------------------------------------------------------------------------

\* A database that was applied up to i, after having been at r.
Current(l, d, k, i, r) == Untouched(l, k, i, r) => HasPut(l, d, k, i)
Clean(l, d, k, i, r) == Untouched(l, k, i, r) => LacksDeleted(l, d, k, i)

Ordered(n) ==
  /\ snapshot[n].index <= behind[n] /\ behind[n] <= Len(log)
  /\ snapshot[n].index <= applied[n]
  /\ applied[n] <= reach[n] /\ reach[n] <= Len(log)
  /\ snapping[n] # None => snapping[n] <= applied[n]

AllCurrent(n) ==
  \A k \in Keys :
    /\ Current(log, db[n], k, applied[n], reach[n])
    /\ Current(log, snapshot[n].data, k, snapshot[n].index, behind[n])

AllClean(n) ==
  n \notin installed =>
    \A k \in Keys :
      /\ Clean(log, db[n], k, applied[n], reach[n])
      /\ Clean(log, snapshot[n].data, k, snapshot[n].index, behind[n])

StoreInv ==
  StoreTypeOK /\ \A n \in Replicas : Ordered(n) /\ AllCurrent(n) /\ AllClean(n)

LEMMA LogEntry ==
  ASSUME StoreTypeOK, NEW j \in 1..Len(log)
  PROVE  /\ log[j] \in Command
         /\ log[j].key \in Keys /\ log[j].value \in Values \cup {Absent}
         /\ log[j].type \in {"put", "delete"}
         /\ log[j].type = "put" => log[j].value \in Values
<1>1. log[j] \in Command
  BY DEF StoreTypeOK
<1> QED BY <1>1 DEF Command

LEMMA InitStoreInv == StoreInit => StoreInv
<1> SUFFICES ASSUME StoreInit PROVE StoreInv
  OBVIOUS
<1>1. Empty \in Database
  BY DEF Empty, Database
<1>2. StoreTypeOK
  BY <1>1 DEF StoreInit, StoreTypeOK
<1>3. ASSUME NEW n \in Replicas PROVE Ordered(n) /\ AllCurrent(n) /\ AllClean(n)
  <2>1. Ordered(n)
    BY DEF StoreInit, Ordered
  <2>2. AllCurrent(n)
    BY DEF StoreInit, AllCurrent, Current, HasPut
  <2>3. AllClean(n)
    BY DEF StoreInit, AllClean, Clean, LacksDeleted, Empty
  <2> QED BY <2>1, <2>2, <2>3
<1> QED BY <1>2, <1>3 DEF StoreInv

----------------------------------------------------------------------------
(* What the log says of a key does not depend on later entries, and what a *)
(* database has at one index it has at another between which nothing       *)
(* touches the key.                                                        *)

LEMMA CommitKeeps ==
  ASSUME NEW l \in Seq(Command), NEW c \in Command,
         NEW d, NEW k, NEW i \in Nat, NEW r \in Nat, i <= r, r <= Len(l)
  PROVE  /\ Current(l, d, k, i, r) => Current(Append(l, c), d, k, i, r)
         /\ Clean(l, d, k, i, r) => Clean(Append(l, c), d, k, i, r)
<1> DEFINE m == Append(l, c)
<1>1. Len(l) \in Nat /\ \A j \in 1..Len(l) : m[j] = l[j]
  OBVIOUS
<1> HIDE DEF m
<1>2. \A a, b \in Nat : b <= Len(l) =>
        (Untouched(m, k, a, b) <=> Untouched(l, k, a, b))
  BY <1>1 DEF Untouched
<1>3. \A j \in 1..i : IsLast(m, k, j, i) <=> IsLast(l, k, j, i)
  BY <1>1, <1>2 DEF IsLast
<1>4. HasPut(l, d, k, i) => HasPut(m, d, k, i)
  BY <1>1, <1>3 DEF HasPut
<1>5. LacksDeleted(l, d, k, i) => LacksDeleted(m, d, k, i)
  BY <1>1, <1>2, <1>3 DEF LacksDeleted
<1>6. /\ Current(l, d, k, i, r) => Current(m, d, k, i, r)
      /\ Clean(l, d, k, i, r) => Clean(m, d, k, i, r)
  BY <1>1, <1>2, <1>4, <1>5 DEF Current, Clean
<1> QED BY <1>6 DEF m

LEMMA MoveIndex ==
  ASSUME NEW d, NEW k, NEW i \in Nat, NEW a \in Nat, i <= a,
         Untouched(log, k, i, a)
  PROVE  /\ HasPut(log, d, k, a) => HasPut(log, d, k, i)
         /\ LacksDeleted(log, d, k, a) => LacksDeleted(log, d, k, i)
<1>1. \A j \in 1..i : IsLast(log, k, j, i) => j \in 1..a /\ IsLast(log, k, j, a)
  BY DEF IsLast, Untouched
<1>2. Untouched(log, k, 0, i) => Untouched(log, k, 0, a)
  BY DEF Untouched
<1> QED BY <1>1, <1>2 DEF HasPut, LacksDeleted

\* FSM.Apply, also of an entry that was applied before.
LEMMA ApplyKeeps ==
  ASSUME StoreTypeOK, NEW d \in Database, NEW k \in Keys, NEW a \in Nat,
         NEW r \in Nat, a <= r, a < Len(log)
  PROVE  LET e == Effect(d, log[a + 1])
             s == Later(r, a + 1)
         IN  /\ e \in Database
             /\ Current(log, d, k, a, r) => Current(log, e, k, a + 1, s)
             /\ Clean(log, d, k, a, r) => Clean(log, e, k, a + 1, s)
<1> DEFINE c == log[a + 1]
           e == Effect(d, c)
           s == Later(r, a + 1)
<1>1. /\ Len(log) \in Nat
      /\ c.key \in Keys /\ c.value \in Values \cup {Absent}
      /\ c.type \in {"put", "delete"}
  BY LogEntry DEF StoreTypeOK
<1>2. e \in Database
  BY <1>1 DEF Effect, Database
<1>3. CASE c.key = k
  <2>1. e[k] = IF c.type = "put" THEN c.value ELSE Absent
    BY <1>3 DEF Effect, Database
  <2>2. \A j \in 1..(a + 1) : IsLast(log, k, j, a + 1) => j = a + 1
    BY <1>3 DEF IsLast, Untouched
  <2>3. ~Untouched(log, k, 0, a + 1)
    BY <1>3 DEF Untouched
  <2> HIDE DEF e
  <2>4. HasPut(log, e, k, a + 1)
    BY <2>1, <2>2 DEF HasPut
  <2>5. LacksDeleted(log, e, k, a + 1)
    BY <1>1, <2>1, <2>2, <2>3 DEF LacksDeleted
  <2> QED BY <1>2, <2>4, <2>5 DEF Current, Clean, e
<1>4. CASE c.key # k
  <2>1. e[k] = d[k]
    BY <1>1, <1>4 DEF Effect, Database
  <2>2. Untouched(log, k, a + 1, s) => Untouched(log, k, a, r)
    BY <1>4 DEF Untouched, Later
  <2>3. \A j \in 1..(a + 1) :
          IsLast(log, k, j, a + 1) => j \in 1..a /\ IsLast(log, k, j, a)
    BY <1>4 DEF IsLast, Untouched
  <2>4. Untouched(log, k, 0, a + 1) => Untouched(log, k, 0, a)
    BY DEF Untouched
  <2> HIDE DEF e
  <2>5. HasPut(log, d, k, a) => HasPut(log, e, k, a + 1)
    BY <2>1, <2>3 DEF HasPut
  <2>6. LacksDeleted(log, d, k, a) => LacksDeleted(log, e, k, a + 1)
    BY <2>1, <2>3, <2>4 DEF LacksDeleted
  <2> QED BY <1>2, <2>2, <2>5, <2>6 DEF Current, Clean, e
<1> QED BY <1>3, <1>4

\* FSM.Restore of a snapshot with index i, taken at b, over any database.
LEMMA RestoreKeeps ==
  ASSUME StoreTypeOK, NEW d \in Database, NEW data \in Database, NEW k \in Keys,
         NEW i \in Nat, NEW b \in Nat, NEW r \in Nat, i <= b, i <= Len(log),
         Current(log, data, k, i, b)
  PROVE  /\ Restored(d, data) \in Database
         /\ Current(log, Restored(d, data), k, i, Later(r, b))
<1>1. /\ Restored(d, data) \in Database
      /\ data[k] # Absent => Restored(d, data)[k] = data[k]
  BY DEF Restored, Database
<1>2. Untouched(log, k, i, Later(r, b)) => Untouched(log, k, i, b)
  BY DEF Untouched, Later
<1>3. \A j \in 1..i : log[j].type = "put" => log[j].value # Absent
  BY LogEntry, StoreAssumption DEF StoreTypeOK
<1> QED BY <1>1, <1>2, <1>3 DEF Current, HasPut

\* Over the database of the node itself, applied up to a and once at r.
LEMMA RestoreCleans ==
  ASSUME NEW d \in Database, NEW data \in Database, NEW k \in Keys,
         NEW i \in Nat, NEW b \in Nat, NEW a \in Nat, NEW r \in Nat,
         i <= b, i <= a, a <= r,
         Clean(log, data, k, i, b), Clean(log, d, k, a, r)
  PROVE  Clean(log, Restored(d, data), k, i, Later(r, b))
<1> SUFFICES ASSUME Untouched(log, k, i, Later(r, b))
             PROVE  LacksDeleted(log, Restored(d, data), k, i)
  BY DEF Clean
<1>1. Untouched(log, k, i, b) /\ Untouched(log, k, a, r) /\ Untouched(log, k, i, a)
  BY DEF Untouched, Later
<1>2. LacksDeleted(log, data, k, i)
  BY <1>1 DEF Clean
<1>3. LacksDeleted(log, d, k, i)
  BY <1>1, MoveIndex DEF Clean
<1>4. Restored(d, data)[k] = IF data[k] = Absent THEN d[k] ELSE data[k]
  BY DEF Restored
<1> QED BY <1>2, <1>3, <1>4 DEF LacksDeleted

----------------------------------------------------------------------------
\* The indices of a node and their types.
LEMMA Indices ==
  ASSUME StoreInv, NEW n \in Replicas
  PROVE  /\ applied[n] \in Nat /\ reach[n] \in Nat /\ behind[n] \in Nat
         /\ snapshot[n].index \in Nat /\ Len(log) \in Nat
         /\ db[n] \in Database /\ snapshot[n].data \in Database
         /\ snapping[n] \in Nat \cup {None}
         /\ Ordered(n) /\ AllCurrent(n) /\ AllClean(n)
BY DEF StoreInv, StoreTypeOK

LEMMA StepCommit ==
  ASSUME StoreInv, NEW c \in Command, Commit(c)
  PROVE  StoreInv'
<1>1. StoreTypeOK'
  BY DEF StoreInv, StoreTypeOK, Commit
<1>2. log \in Seq(Command)
  BY DEF StoreInv, StoreTypeOK
<1>3. Len(log') = Len(log) + 1 /\ Len(log) \in Nat
  BY <1>2 DEF Commit
<1>4. ASSUME NEW n \in Replicas
      PROVE  Ordered(n)' /\ AllCurrent(n)' /\ AllClean(n)'
  <2> USE Indices
  <2>1. Ordered(n)'
    BY <1>3 DEF Ordered, Commit
  <2>2. \A k \in Keys :
          /\ Current(log, db[n], k, applied[n], reach[n]) =>
               Current(log', db[n], k, applied[n], reach[n])
          /\ Clean(log, db[n], k, applied[n], reach[n]) =>
               Clean(log', db[n], k, applied[n], reach[n])
    BY <1>2, CommitKeeps DEF Ordered, Commit
  <2>3. \A k \in Keys :
          LET s == snapshot[n]
          IN  /\ Current(log, s.data, k, s.index, behind[n]) =>
                   Current(log', s.data, k, s.index, behind[n])
              /\ Clean(log, s.data, k, s.index, behind[n]) =>
                   Clean(log', s.data, k, s.index, behind[n])
    BY <1>2, CommitKeeps DEF Ordered, Commit
  <2>4. AllCurrent(n)'
    BY <2>2, <2>3 DEF AllCurrent, Commit
  <2>5. AllClean(n)'
    BY <2>2, <2>3 DEF AllClean, Commit
  <2> QED BY <2>1, <2>4, <2>5
<1> QED BY <1>1, <1>4 DEF StoreInv

\* A step that is about one node leaves the others as they were.
Same(n) ==
  /\ db'[n] = db[n] /\ applied'[n] = applied[n] /\ reach'[n] = reach[n]
  /\ snapping'[n] = snapping[n] /\ snapshot'[n] = snapshot[n]
  /\ behind'[n] = behind[n] /\ (n \in installed' <=> n \in installed)

LEMMA OthersKeep ==
  ASSUME StoreInv, NEW n \in Replicas, UNCHANGED log, Same(n)
  PROVE  (Ordered(n) /\ AllCurrent(n) /\ AllClean(n))'
<1>1. Ordered(n)'
  BY Indices DEF Ordered, Same
<1>2. AllCurrent(n)'
  BY Indices DEF AllCurrent, Same
<1>3. AllClean(n)'
  BY Indices DEF AllClean, Same
<1> QED BY <1>1, <1>2, <1>3

LEMMA StepApply ==
  ASSUME StoreInv, NEW n \in Replicas, Apply(n)
  PROVE  StoreInv'
<1> DEFINE a == applied[n]
           e == Effect(db[n], log[a + 1])
           s == Later(reach[n], a + 1)
<1>1. StoreTypeOK /\ a < Len(log) /\ a <= reach[n]
  BY Indices DEF StoreInv, Apply, Ordered
<1>2. /\ e \in Database
      /\ \A k \in Keys :
           /\ Current(log, db[n], k, a, reach[n]) => Current(log, e, k, a + 1, s)
           /\ Clean(log, db[n], k, a, reach[n]) => Clean(log, e, k, a + 1, s)
  <2>1. ASSUME NEW k \in Keys
        PROVE  /\ e \in Database
               /\ Current(log, db[n], k, a, reach[n]) =>
                    Current(log, e, k, a + 1, s)
               /\ Clean(log, db[n], k, a, reach[n]) =>
                    Clean(log, e, k, a + 1, s)
    BY <1>1, Indices, ApplyKeeps
  <2>2. a + 1 \in 1..Len(log)
    BY <1>1, Indices
  <2>3. e \in Database
    BY <1>1, <2>2, Indices, LogEntry DEF Effect, Database
  <2> QED BY <2>1, <2>3
<1>3. /\ db'[n] = e /\ applied'[n] = a + 1 /\ reach'[n] = s
      /\ snapping'[n] = snapping[n] /\ snapshot'[n] = snapshot[n]
      /\ behind'[n] = behind[n] /\ installed' = installed /\ log' = log
  BY DEF Apply, StoreInv, StoreTypeOK
<1>4. s \in Nat /\ reach[n] <= s /\ a + 1 <= s /\ s <= Len(log)
  BY <1>1, Indices DEF Later, Ordered
<1>5. StoreTypeOK'
  <2>1. /\ db' \in [Replicas -> Database] /\ applied' \in [Replicas -> Nat]
        /\ reach' \in [Replicas -> Nat]
    BY <1>1, <1>2, <1>4 DEF Apply, StoreTypeOK
  <2> QED BY <1>1, <2>1 DEF Apply, StoreTypeOK
<1>6. ASSUME NEW m \in Replicas
      PROVE  (Ordered(m) /\ AllCurrent(m) /\ AllClean(m))'
  <2>1. CASE m = n
    <3> HIDE DEF a, e, s
    <3>1. Ordered(n)'
      BY <1>1, <1>3, <1>4, Indices DEF Ordered, a
    <3>2. AllCurrent(n)'
      BY <1>2, <1>3, Indices DEF AllCurrent, a
    <3>3. AllClean(n)'
      BY <1>2, <1>3, Indices DEF AllClean, a
    <3> QED BY <2>1, <3>1, <3>2, <3>3
  <2>2. CASE m # n
    BY <1>1, <2>2, OthersKeep DEF Same, Apply, StoreTypeOK
  <2> QED BY <2>1, <2>2
<1> QED BY <1>5, <1>6 DEF StoreInv

\* What is persisted has an index at or before the one the database is at.
LEMMA StepSnapshot ==
  ASSUME StoreInv, NEW n \in Replicas,
         Snapshot(n) \/ Persist(n) \/ PersistFails(n)
  PROVE  StoreInv'
<1>1. StoreTypeOK'
  <2>1. CASE Snapshot(n)
    BY <2>1 DEF StoreInv, StoreTypeOK, Snapshot
  <2>2. CASE Persist(n)
    <3>1. [index |-> snapping[n], data |-> db[n]] \in
            [index : Nat, data : Database]
      BY <2>2, Indices DEF Persist
    <3>2. /\ snapshot' \in [Replicas -> [index : Nat, data : Database]]
          /\ behind' \in [Replicas -> Nat]
          /\ snapping' \in [Replicas -> Nat \cup {None}]
      BY <2>2, <3>1 DEF StoreInv, StoreTypeOK, Persist
    <3> QED BY <2>2, <3>2 DEF StoreInv, StoreTypeOK, Persist
  <2>3. CASE PersistFails(n)
    BY <2>3 DEF StoreInv, StoreTypeOK, PersistFails
  <2> QED BY <2>1, <2>2, <2>3
<1>2. CASE Snapshot(n) \/ PersistFails(n)
  <2>1. /\ UNCHANGED <<log, db, applied, snapshot, reach, behind, installed>>
        /\ \A m \in Replicas : \/ snapping'[m] = snapping[m]
                              \/ snapping'[m] = None
                              \/ snapping'[m] = applied[m]
    BY <1>2 DEF Snapshot, PersistFails, StoreInv, StoreTypeOK
  <2>2. ASSUME NEW m \in Replicas
        PROVE  (Ordered(m) /\ AllCurrent(m) /\ AllClean(m))'
    <3>1. Ordered(m)'
      BY <2>1, Indices DEF Ordered
    <3>2. AllCurrent(m)' /\ AllClean(m)'
      BY <2>1, Indices DEF AllCurrent, AllClean
    <3> QED BY <3>1, <3>2
  <2> QED BY <1>1, <2>2 DEF StoreInv
<1>3. CASE Persist(n)
  <2> DEFINE i == snapping[n]
  <2>1. /\ i \in Nat /\ i <= applied[n] /\ applied[n] <= reach[n]
        /\ reach[n] <= Len(log)
    BY <1>3, Indices DEF Persist, Ordered
  <2>2. /\ snapshot'[n].index = i /\ snapshot'[n].data = db[n]
        /\ behind'[n] = reach[n] /\ snapping'[n] = None
        /\ UNCHANGED <<log, db, applied, reach, installed>>
    BY <1>3 DEF Persist, StoreInv, StoreTypeOK
  <2>3. ASSUME NEW k \in Keys
        PROVE  /\ Current(log, db[n], k, applied[n], reach[n]) =>
                    Current(log, db[n], k, i, reach[n])
               /\ Clean(log, db[n], k, applied[n], reach[n]) =>
                    Clean(log, db[n], k, i, reach[n])
    <3>1. Untouched(log, k, i, reach[n]) =>
            /\ Untouched(log, k, applied[n], reach[n])
            /\ Untouched(log, k, i, applied[n])
      BY <2>1, Indices DEF Untouched
    <3> QED BY <2>1, <3>1, Indices, MoveIndex DEF Current, Clean
  <2>4. ASSUME NEW m \in Replicas
        PROVE  (Ordered(m) /\ AllCurrent(m) /\ AllClean(m))'
    <3>1. CASE m = n
      <4> HIDE DEF i
      <4>1. Ordered(n)'
        BY <2>1, <2>2, Indices DEF Ordered, None
      <4>2. AllCurrent(n)'
        BY <2>2, <2>3, Indices DEF AllCurrent
      <4>3. AllClean(n)'
        BY <2>2, <2>3, Indices DEF AllClean
      <4> QED BY <3>1, <4>1, <4>2, <4>3
    <3>2. CASE m # n
      BY <1>3, <3>2, OthersKeep DEF Same, Persist, StoreInv, StoreTypeOK
    <3> QED BY <3>1, <3>2
  <2> QED BY <1>1, <2>4 DEF StoreInv
<1> QED BY <1>2, <1>3

\* The leader's snapshot makes a node current, not clean.
LEMMA StepInstall ==
  ASSUME StoreInv, NEW m \in Replicas, NEW n \in Replicas, InstallSnapshot(m, n)
  PROVE  StoreInv'
<1> DEFINE s == snapshot[m]
           e == Restored(db[n], s.data)
           r == Later(reach[n], behind[m])
<1>1. /\ s.index \in Nat /\ s.index <= behind[m] /\ behind[m] <= Len(log)
      /\ s.data \in Database /\ applied[n] < s.index
      /\ reach[n] <= Len(log)
  BY Indices DEF Ordered, InstallSnapshot
<1>2. r \in Nat /\ s.index <= r /\ r <= Len(log)
  BY <1>1, Indices DEF Later
<1>3. /\ db'[n] = e /\ applied'[n] = s.index /\ reach'[n] = r
      /\ snapshot'[n] = s /\ behind'[n] = behind[m]
      /\ snapping' = snapping /\ log' = log /\ n \in installed'
  BY DEF InstallSnapshot, StoreInv, StoreTypeOK
<1>4. e \in Database
  BY <1>1, Indices DEF Restored, Database
<1>5. \A k \in Keys : /\ Current(log, s.data, k, s.index, behind[m])
                       /\ Current(log, e, k, s.index, r)
  <2>1. ASSUME NEW k \in Keys
        PROVE  Current(log, s.data, k, s.index, behind[m])
    BY Indices DEF AllCurrent
  <2>2. StoreTypeOK /\ s.index <= Len(log)
    BY <1>1, Indices DEF StoreInv
  <2> QED BY <1>1, <2>1, <2>2, Indices, RestoreKeeps
<1>6. StoreTypeOK'
  <2>1. /\ db' \in [Replicas -> Database] /\ applied' \in [Replicas -> Nat]
        /\ reach' \in [Replicas -> Nat]
    BY <1>1, <1>2, <1>4 DEF InstallSnapshot, StoreInv, StoreTypeOK
  <2> QED BY <2>1 DEF InstallSnapshot, StoreInv, StoreTypeOK
<1>7. ASSUME NEW x \in Replicas
      PROVE  (Ordered(x) /\ AllCurrent(x) /\ AllClean(x))'
  <2>1. CASE x = n
    <3> HIDE DEF s, e, r
    <3>1. Ordered(n)'
      BY <1>1, <1>2, <1>3, Indices DEF Ordered
    <3>2. AllCurrent(n)'
      BY <1>3, <1>5 DEF AllCurrent
    <3>3. AllClean(n)'
      BY <1>3 DEF AllClean
    <3> QED BY <2>1, <3>1, <3>2, <3>3
  <2>2. CASE x # n
    BY <2>2, OthersKeep DEF Same, InstallSnapshot, StoreInv, StoreTypeOK
  <2> QED BY <2>1, <2>2
<1> QED BY <1>6, <1>7 DEF StoreInv

\* Its own makes it both.
LEMMA StepRestart ==
  ASSUME StoreInv, NEW n \in Replicas, Restart(n)
  PROVE  StoreInv'
<1> DEFINE s == snapshot[n]
           e == Restored(db[n], s.data)
           r == Later(reach[n], behind[n])
<1>1. /\ s.index \in Nat /\ s.index <= behind[n] /\ behind[n] <= Len(log)
      /\ s.index <= applied[n] /\ applied[n] <= reach[n]
      /\ s.data \in Database /\ reach[n] <= Len(log)
  BY Indices DEF Ordered
<1>2. r \in Nat /\ s.index <= r /\ r <= Len(log)
  BY <1>1, Indices DEF Later
<1>3. /\ db'[n] = e /\ applied'[n] = s.index /\ reach'[n] = r
      /\ snapping'[n] = None
      /\ UNCHANGED <<log, snapshot, behind, installed>>
  BY DEF Restart, StoreInv, StoreTypeOK
<1>4. e \in Database
  BY <1>1, Indices DEF Restored, Database
<1>5. \A k \in Keys : Current(log, e, k, s.index, r)
  <2>1. ASSUME NEW k \in Keys
        PROVE  Current(log, s.data, k, s.index, behind[n])
    BY Indices DEF AllCurrent
  <2>2. StoreTypeOK /\ s.index <= Len(log)
    BY <1>1, Indices DEF StoreInv
  <2> QED BY <1>1, <2>1, <2>2, Indices, RestoreKeeps
<1>6. n \notin installed => \A k \in Keys : Clean(log, e, k, s.index, r)
  <2>1. SUFFICES ASSUME n \notin installed, NEW k \in Keys
                 PROVE  Clean(log, e, k, s.index, r)
    OBVIOUS
  <2>2. /\ Clean(log, db[n], k, applied[n], reach[n])
        /\ Clean(log, s.data, k, s.index, behind[n])
    BY <2>1, Indices DEF AllClean
  <2> QED BY <1>1, <2>2, Indices, RestoreCleans
<1>7. StoreTypeOK'
  <2>1. /\ db' \in [Replicas -> Database] /\ applied' \in [Replicas -> Nat]
        /\ reach' \in [Replicas -> Nat]
    BY <1>1, <1>2, <1>4 DEF Restart, StoreInv, StoreTypeOK
  <2> QED BY <2>1 DEF Restart, StoreInv, StoreTypeOK
<1>8. ASSUME NEW x \in Replicas
      PROVE  (Ordered(x) /\ AllCurrent(x) /\ AllClean(x))'
  <2>1. CASE x = n
    <3>1. Ordered(n)'
      BY <1>1, <1>2, <1>3 DEF Ordered
    <3> HIDE DEF e, r
    <3>2. AllCurrent(n)'
      BY <1>3, <1>5, Indices DEF AllCurrent
    <3>3. AllClean(n)'
      BY <1>3, <1>6, Indices DEF AllClean
    <3> QED BY <2>1, <3>1, <3>2, <3>3
  <2>2. CASE x # n
    BY <2>2, OthersKeep DEF Same, Restart, StoreInv, StoreTypeOK
  <2> QED BY <2>1, <2>2
<1> QED BY <1>7, <1>8 DEF StoreInv

LEMMA StepStoreInv == StoreInv /\ [StoreNext]_storeVars => StoreInv'
<1> SUFFICES ASSUME StoreInv, [StoreNext]_storeVars PROVE StoreInv'
  OBVIOUS
<1>1. CASE StoreNext
  BY <1>1, StepCommit, StepApply, StepSnapshot, StepInstall, StepRestart
     DEF StoreNext
<1>2. CASE UNCHANGED storeVars
  <2>1. StoreTypeOK'
    BY <1>2 DEF storeVars, StoreInv, StoreTypeOK
  <2>2. \A n \in Replicas : Same(n)
    BY <1>2 DEF storeVars, Same
  <2> QED BY <1>2, <2>1, <2>2, OthersKeep DEF storeVars, StoreInv
<1> QED BY <1>1, <1>2

THEOREM StoreInvariance == StoreSpec => []StoreInv
BY InitStoreInv, StepStoreInv, PTL DEF StoreSpec

\* Databases, snapshots and indices have their types (raft.go:43-46, 289).
THEOREM StoreTypeCorrect == StoreSpec => []StoreTypeOK
BY StoreInvariance, PTL DEF StoreInv

\* A node that has caught up has every key that is not deleted, with its last
\* value: that a snapshot's content is newer than its index does no harm
\* (raft.go:262-329).
THEOREM NothingMissing == StoreSpec => []NothingIsMissing
<1>1. StoreInv => NothingIsMissing
  <2> SUFFICES ASSUME StoreInv, NEW n \in Replicas, applied[n] >= reach[n],
                      NEW k \in Keys
               PROVE  HasPut(log, db[n], k, applied[n])
    BY DEF NothingIsMissing
  <2>1. Untouched(log, k, applied[n], reach[n])
    BY Indices DEF Untouched
  <2> QED BY <2>1, Indices DEF AllCurrent, Current
<1> QED BY <1>1, StoreInvariance, PTL

\* and one that restored no snapshot but its own has no other
\* (raft.go:237-286).
THEOREM NothingLeft == StoreSpec => []NothingLingers
<1>1. StoreInv => NothingLingers
  <2> SUFFICES ASSUME StoreInv, NEW n \in Replicas \ installed,
                      applied[n] >= reach[n], NEW k \in Keys
               PROVE  LacksDeleted(log, db[n], k, applied[n])
    BY DEF NothingLingers
  <2>1. Untouched(log, k, applied[n], reach[n])
    BY Indices DEF Untouched
  <2> QED BY <2>1, Indices DEF AllClean, Clean
<1> QED BY <1>1, StoreInvariance, PTL
=============================================================================
