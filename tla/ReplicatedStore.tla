--------------------------- MODULE ReplicatedStore ---------------------------
(***************************************************************************)
(* ReplicatedStore: the Badger database of each node, kept by the FSM of   *)
(* internal/consensus/raft.go from the log that Raft replicates.           *)
(*                                                                         *)
(* Raft is external: it commits commands in one order, hands each node the *)
(* entries after its applied index, asks its FSM for a snapshot from time  *)
(* to time, and gives a node whose entries the leader has compacted the    *)
(* leader's snapshot instead.  A node that starts again restores its last  *)
(* snapshot and is handed the entries after it, over a database that is on *)
(* disk and may be far ahead of them.                                      *)
(*                                                                         *)
(* A snapshot is a handle on the database: its index is that of Snapshot,  *)
(* its content that of Persist, a transaction of its own, later.           *)
(* Left out: a command of an unknown type, which changes nothing, and what *)
(* the caller of RaftNode.Apply is told.                                   *)
(***************************************************************************)
EXTENDS Integers, Sequences

CONSTANTS
  Replicas, Keys, Values,
  Absent,
  MaxLog       \* bound on the commands

ASSUME StoreAssumption == Absent \notin Values /\ MaxLog \in Nat

VARIABLES
  log,         \* the committed commands
  db,          \* db[n]: a node's database
  applied,     \* the index of the last entry its FSM was handed
  snapping,    \* the index of a snapshot that is not yet persisted, or None
  snapshot,    \* the last in its snapshot store: index, data
  \* history
  reach,       \* the furthest entry that was ever applied to db[n],
  behind,      \* and to the content of its snapshot
  installed    \* nodes that were given another node's snapshot

storeVars == <<log, db, applied, snapping, snapshot, reach, behind, installed>>

None == -1
Command ==
  [type : {"put"}, key : Keys, value : Values] \cup
  [type : {"delete"}, key : Keys, value : {Absent}]
Database == [Keys -> Values \cup {Absent}]
Empty == [k \in Keys |-> Absent]
Later(a, b) == IF a < b THEN b ELSE a

StoreInit ==
  /\ log = <<>>
  /\ db = [n \in Replicas |-> Empty]
  /\ applied = [n \in Replicas |-> 0]
  /\ snapping = [n \in Replicas |-> None]
  /\ snapshot = [n \in Replicas |-> [index |-> 0, data |-> Empty]]
  /\ reach = [n \in Replicas |-> 0]
  /\ behind = [n \in Replicas |-> 0]
  /\ installed = {}

\* RaftNode.Apply, committed.
Commit(c) ==
  /\ Len(log) < MaxLog
  /\ log' = Append(log, c)
  /\ UNCHANGED <<db, applied, snapping, snapshot, reach, behind, installed>>

\* Faulty form: a delete is not applied.
PutsOnly(d, c) == IF c.type = "put" THEN [d EXCEPT ![c.key] = c.value] ELSE d

Effect(d, c) ==
  [d EXCEPT ![c.key] = IF c.type = "put" THEN c.value ELSE Absent]

\* FSM.Apply, one transaction.
Apply(n) ==
  /\ applied[n] < Len(log)
  /\ applied' = [applied EXCEPT ![n] = @ + 1]
  /\ db' = [db EXCEPT ![n] = Effect(@, log[applied[n] + 1])]
  /\ reach' = [reach EXCEPT ![n] = Later(@, applied[n] + 1)]
  /\ UNCHANGED <<log, snapping, snapshot, behind, installed>>

\* FSM.Snapshot.
Snapshot(n) ==
  /\ snapping[n] = None
  /\ applied[n] > snapshot[n].index
  /\ snapping' = [snapping EXCEPT ![n] = applied[n]]
  /\ UNCHANGED <<log, db, applied, snapshot, reach, behind, installed>>

Persist(n) ==
  /\ snapping[n] # None
  /\ snapshot' = [snapshot EXCEPT
                    ![n] = [index |-> snapping[n], data |-> db[n]]]
  /\ behind' = [behind EXCEPT ![n] = reach[n]]
  /\ snapping' = [snapping EXCEPT ![n] = None]
  /\ UNCHANGED <<log, db, applied, reach, installed>>

\* The sink is cancelled.
PersistFails(n) ==
  /\ snapping[n] # None
  /\ snapping' = [snapping EXCEPT ![n] = None]
  /\ UNCHANGED <<log, db, applied, snapshot, reach, behind, installed>>

\* Faulty form: a key that is there is kept.
KeepsOld(d, data) == [k \in Keys |-> IF d[k] = Absent THEN data[k] ELSE d[k]]

\* FSM.Restore sets the keys of the snapshot, and deletes none.
Restored(d, data) == [k \in Keys |-> IF data[k] = Absent THEN d[k] ELSE data[k]]

\* The leader m has compacted what n lacks.
InstallSnapshot(m, n) ==
  /\ m # n
  /\ snapshot[m].index > applied[n]
  /\ snapshot' = [snapshot EXCEPT ![n] = snapshot[m]]
  /\ behind' = [behind EXCEPT ![n] = behind[m]]
  /\ db' = [db EXCEPT ![n] = Restored(@, snapshot[m].data)]
  /\ applied' = [applied EXCEPT ![n] = snapshot[m].index]
  /\ reach' = [reach EXCEPT ![n] = Later(@, behind[m])]
  /\ installed' = installed \cup {n}
  /\ UNCHANGED <<log, snapping>>

\* The process ends and starts again.
Restart(n) ==
  /\ db' = [db EXCEPT ![n] = Restored(@, snapshot[n].data)]
  /\ applied' = [applied EXCEPT ![n] = snapshot[n].index]
  /\ reach' = [reach EXCEPT ![n] = Later(@, behind[n])]
  /\ snapping' = [snapping EXCEPT ![n] = None]
  /\ UNCHANGED <<log, snapshot, behind, installed>>

StoreNext ==
  \/ \E c \in Command : Commit(c)
  \/ \E n \in Replicas :
       \/ Apply(n) \/ Snapshot(n) \/ Persist(n) \/ PersistFails(n) \/ Restart(n)
       \/ \E m \in Replicas : InstallSnapshot(m, n)

StoreSpec == StoreInit /\ [][StoreNext]_storeVars

----------------------------------------------------------------------------
StoreTypeOK ==
  /\ log \in Seq(Command)
  /\ db \in [Replicas -> Database]
  /\ applied \in [Replicas -> Nat] /\ reach \in [Replicas -> Nat]
  /\ behind \in [Replicas -> Nat]
  /\ snapping \in [Replicas -> Nat \cup {None}]
  /\ snapshot \in [Replicas -> [index : Nat, data : Database]]
  /\ installed \in SUBSET Replicas

\* Nothing among the entries of a log after i, up to the j-th, is about k.
Untouched(l, k, i, j) == \A x \in (i + 1)..j : l[x].key # k

\* The j-th command is the last about k of the first i.
IsLast(l, k, j, i) == j \in 1..i /\ l[j].key = k /\ Untouched(l, k, j, i)

HasPut(l, d, k, i) ==
  \A j \in 1..i :
    IsLast(l, k, j, i) /\ l[j].type = "put" => d[k] = l[j].value

LacksDeleted(l, d, k, i) ==
  /\ Untouched(l, k, 0, i) => d[k] = Absent
  /\ \A j \in 1..i :
       IsLast(l, k, j, i) /\ l[j].type = "delete" => d[k] = Absent

\* A node that has been handed every entry that ever reached its database has
\* the value that was put last under every key that is not deleted, although
\* a snapshot's content is newer than its index, a restart replays entries over
\* their own effects, and a restore mixes two databases (raft.go:237-329).
NothingIsMissing ==
  \A n \in Replicas : applied[n] >= reach[n] =>
    \A k \in Keys : HasPut(log, db[n], k, applied[n])

\* and no key besides, unless it was given another node's snapshot.
NothingLingers ==
  \A n \in Replicas \ installed : applied[n] >= reach[n] =>
    \A k \in Keys : LacksDeleted(log, db[n], k, applied[n])
=============================================================================
