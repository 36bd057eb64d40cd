---------------------- MODULE WorkflowSchedulerProofs ----------------------
(***************************************************************************)
(* Proofs about WorkflowScheduler, for any schedules, crons, goroutines,   *)
(* ticks and MaxRuns, with or without a storage.                           *)
(*                                                                         *)
(* The parts of Inv hold each other up: a run counts on a schedule whose   *)
(* limit it was checked against, because an untouched schedule has had one *)
(* cron (OneCronEach) and a cron one run at a time (RunsAreSerial); a new  *)
(* cron disturbs nobody, because what ticks or runs has an owner already   *)
(* (CronsAreOwned); and the sizes can be counted, because only finitely    *)
(* many goroutines are under way at a time (FinitelyMany).                 *)
(***************************************************************************)
EXTENDS WorkflowScheduler, FiniteSetTheorems, TLAPS

\* The goroutines of id whose record is complete and whose run is not counted.
Uncounted(id) ==
  {g \in Goroutines : cron[g] # NoCron /\ Of(g) = id /\ pc[g] = "completed"}

\* The goroutines of id whose record says "running": at work or panicked.
Running(id) ==
  {g \in Goroutines :
     cron[g] # NoCron /\ Of(g) = id /\ pc[g] \in OpenPlaces}

----------------------------------------------------------------------------
(* Sizes.                                                                  *)

LEMMA SizeOfSubset ==
  ASSUME NEW S, IsFiniteSet(S), NEW T \in SUBSET S
  PROVE  IsFiniteSet(T) /\ Cardinality(T) \in Nat
BY FS_Subset, FS_CardinalityType

LEMMA SizeWithOneMore ==
  ASSUME NEW S, IsFiniteSet(S), NEW x, x \notin S
  PROVE  IsFiniteSet(S \cup {x}) /\ Cardinality(S \cup {x}) = Cardinality(S) + 1
BY FS_AddElement

LEMMA SizeWithOneLess ==
  ASSUME NEW S, IsFiniteSet(S), NEW x \in S
  PROVE  IsFiniteSet(S \ {x}) /\ Cardinality(S \ {x}) = Cardinality(S) - 1
BY FS_RemoveElement

\* HistoryAgrees in terms of the two sets, GaugesAgree of the schedules that
\* are enabled.
HistoryOfSets ==
  \A id \in schedules : "readded" \notin touched[id] =>
    /\ open[id] = Running(id)
    /\ success[id] + failure[id] =
         runCount[id] + unloaded[id] + Cardinality(Uncounted(id))

LEMMA HistoryMeans ==
  /\ HistoryAgrees <=> HistoryOfSets
  /\ HistoryAgrees' <=> HistoryOfSets'
<1>1. HistoryAgrees <=> HistoryOfSets
  <2>1. ASSUME NEW id
        PROVE  LET ofId == {g \in Goroutines : cron[g] # NoCron /\ Of(g) = id}
               IN  /\ {g \in ofId : pc[g] \in OpenPlaces} = Running(id)
                   /\ {g \in ofId : pc[g] = "completed"} = Uncounted(id)
    BY DEF Running, Uncounted
  <2>. QED  BY <2>1 DEF HistoryAgrees, HistoryOfSets
<1>. QED  BY <1>1, PTL

On == {id \in schedules : enabled[id]}

GaugesOfSets ==
  (\A id \in IDs : touched[id] \subseteq {"rescheduled"}) =>
    total = Cardinality(schedules) /\ active = Cardinality(On)

LEMMA GaugesMean ==
  /\ GaugesAgree <=> GaugesOfSets
  /\ GaugesAgree' <=> GaugesOfSets'
<1>1. GaugesAgree <=> GaugesOfSets
  BY DEF GaugesAgree, GaugesOfSets, On
<1>. QED  BY <1>1, PTL

----------------------------------------------------------------------------
(* TypeOK by the part of the state it is about.                            *)

RegistryOK ==
  /\ schedules \in SUBSET IDs
  /\ enabled \in [IDs -> BOOLEAN]
  /\ runCount \in [IDs -> Nat]
  /\ cronJobs \in [IDs -> Crons \cup {NoCron}]
  /\ owner \in [Crons -> IDs \cup {NoID}]
  /\ ticking \in SUBSET Crons
  /\ total \in Int /\ active \in Int
  /\ \A id \in IDs : cronJobs[id] # NoCron <=> id \in schedules
  /\ \A id \in schedules : owner[cronJobs[id]] = id

HistoryOK ==
  /\ open \in [IDs -> SUBSET Goroutines]
  /\ success \in [IDs -> Nat] /\ failure \in [IDs -> Nat]
  /\ unloaded \in [IDs -> Nat]

ThreadsOK ==
  /\ pc \in [Goroutines -> Places]
  /\ cron \in [Goroutines -> Crons \cup {NoCron}]
  /\ verdict \in [Goroutines -> Verdicts]
  /\ ticks \in 0..MaxTicks
  /\ late \in SUBSET Goroutines
  /\ \A g \in Goroutines : pc[g] # "idle" => cron[g] \in Crons

RestOK == stopped \in BOOLEAN /\ touched \in [IDs -> SUBSET Touches]

LEMMA TypeParts ==
  /\ TypeOK <=> RegistryOK /\ HistoryOK /\ ThreadsOK /\ RestOK
  /\ TypeOK' <=> RegistryOK' /\ HistoryOK' /\ ThreadsOK' /\ RestOK'
<1>1. TypeOK <=> RegistryOK /\ HistoryOK /\ ThreadsOK /\ RestOK
  BY DEF TypeOK, RegistryOK, HistoryOK, ThreadsOK, RestOK
<1>. QED  BY <1>1, PTL

----------------------------------------------------------------------------
\* Initially there is no schedule and no goroutine.
LEMMA InitInv == Init => Inv
<1>. SUFFICES ASSUME Init PROVE Inv
  OBVIOUS
<1>. USE SchedulerAssumption DEF Init
<1>1. TypeOK
  <2>1. /\ cronJobs \in [IDs -> Crons \cup {NoCron}]
        /\ owner \in [Crons -> IDs \cup {NoID}]
        /\ cron \in [Goroutines -> Crons \cup {NoCron}]
        /\ pc \in [Goroutines -> Places]
        /\ verdict \in [Goroutines -> Verdicts]
    BY DEF Places, Verdicts
  <2>2. /\ enabled \in [IDs -> BOOLEAN]
        /\ runCount \in [IDs -> Nat] /\ unloaded \in [IDs -> Nat]
        /\ success \in [IDs -> Nat] /\ failure \in [IDs -> Nat]
    OBVIOUS
  <2>3. /\ open \in [IDs -> SUBSET Goroutines]
        /\ touched \in [IDs -> SUBSET Touches]
    OBVIOUS
  <2>4. /\ \A id \in IDs : cronJobs[id] # NoCron <=> id \in schedules
        /\ \A id \in schedules : owner[cronJobs[id]] = id
        /\ \A g \in Goroutines : pc[g] # "idle" => cron[g] \in Crons
    OBVIOUS
  <2>5. /\ schedules \in SUBSET IDs /\ ticking \in SUBSET Crons
        /\ late \in SUBSET Goroutines
        /\ total \in Int /\ active \in Int /\ ticks \in 0..MaxTicks
    OBVIOUS
  <2>6. stopped \in BOOLEAN
    OBVIOUS
  <2>. QED  BY <2>1, <2>2, <2>3, <2>4, <2>5, <2>6 DEF TypeOK
<1>2. CronsAreOwned /\ OneCronEach /\ RunsAreSerial /\ RunsLeft
  BY DEF CronsAreOwned, OneCronEach, RunsAreSerial, RunsLeft, AtWork
<1>3. FinitelyMany
  <2>1. {g \in Goroutines : pc[g] # "idle"} = {}
    OBVIOUS
  <2>. QED  BY <2>1, FS_EmptySet DEF FinitelyMany
<1>4. RunsBounded /\ EnabledIsTicking /\ OnlyTrackedTicks /\ HistoryAgrees
  BY DEF RunsBounded, EnabledIsTicking, OnlyTrackedTicks, HistoryAgrees
<1>5. GaugesAgree
  <2>1. {id \in schedules : enabled[id]} = {}
    OBVIOUS
  <2>. QED  BY <2>1, FS_EmptySet DEF GaugesAgree
<1>. QED  BY <1>1, <1>2, <1>3, <1>4, <1>5 DEF Inv

----------------------------------------------------------------------------
(* The goroutines.  None of their steps is seen by what is about schedules *)
(* and crons alone.                                                        *)

LEMMA RegistryKept ==
  ASSUME Inv,
         UNCHANGED <<schedules, enabled, cronJobs, owner, ticking, total,
                     active, stopped, touched>>
  PROVE  OneCronEach' /\ EnabledIsTicking' /\ OnlyTrackedTicks' /\ GaugesAgree'
<1>1. On' = On
  BY DEF On
<1>2. GaugesAgree'
  BY <1>1, GaugesMean DEF Inv, GaugesOfSets
<1>3. OneCronEach' /\ OnlyTrackedTicks'
  BY DEF Inv, OneCronEach, OnlyTrackedTicks, Untouched
<1>4. EnabledIsTicking'
  BY DEF Inv, EnabledIsTicking, Untouched
<1>. QED  BY <1>2, <1>3, <1>4

\* One goroutine at most joins those under way.
LEMMA StillFinite ==
  ASSUME Inv, NEW g \in Goroutines, schedules' = schedules,
         \A h \in Goroutines : h # g => pc'[h] = pc[h]
  PROVE  FinitelyMany'
<1>. DEFINE Busy == {h \in Goroutines : pc[h] # "idle"}
<1>1. IsFiniteSet(Busy) /\ IsFiniteSet(schedules)
  BY DEF Inv, FinitelyMany
<1>2. IsFiniteSet(Busy \cup {g})
  BY <1>1, FS_AddElement
<1>3. Busy' \subseteq Busy \cup {g}
  OBVIOUS
<1>4. IsFiniteSet(Busy')
  BY <1>2, <1>3, FS_Subset
<1>. QED  BY <1>1, <1>4 DEF FinitelyMany

\* A goroutine that goes on, or passes the check at its cron's mutex.
LEMMA GoesOn ==
  ASSUME Inv, NEW g \in Goroutines, NEW to \in AtWork,
         pc' = [pc EXCEPT ![g] = to],
         \/ pc[g] \in AtWork
         \/ /\ pc[g] = "waiting" /\ ~Delayed(g)
            /\ Of(g) \in schedules /\ ~Exhausted(Of(g)),
         UNCHANGED <<registry, stopped, touched, cron>>
  PROVE  /\ OneCronEach' /\ EnabledIsTicking' /\ OnlyTrackedTicks'
         /\ GaugesAgree' /\ RunsBounded'
         /\ CronsAreOwned' /\ RunsAreSerial' /\ RunsLeft' /\ FinitelyMany'
<1>1. /\ \A h \in Goroutines : pc'[h] = IF h = g THEN to ELSE pc[h]
      /\ \A h \in Goroutines : Of(h)' = Of(h)
      /\ pc[g] # "idle" /\ to # "idle"
  BY TypeParts DEF Inv, ThreadsOK, Of, registry, AtWork
<1>2. OneCronEach' /\ EnabledIsTicking' /\ OnlyTrackedTicks' /\ GaugesAgree'
  BY RegistryKept DEF registry
<1>3. RunsBounded'
  BY DEF Inv, RunsBounded, Untouched, registry
<1>4. CronsAreOwned'
  BY <1>1 DEF Inv, CronsAreOwned, registry
<1>5. RunsAreSerial'
  <2>. SUFFICES ASSUME NEW h \in Goroutines, NEW k \in Goroutines,
                       pc'[h] \in AtWork, pc'[k] \in AtWork,
                       cron[h] = cron[k], h # k
                PROVE  FALSE
    BY DEF RunsAreSerial
  <2>1. CASE pc[g] \in AtWork
    BY <1>1, <2>1 DEF Inv, RunsAreSerial
  <2>2. CASE ~Delayed(g)
    <3>1. \A l \in Goroutines : pc[l] \in AtWork => cron[l] # cron[g]
      BY <2>2 DEF Delayed, UnderWay
    <3>. QED  BY <1>1, <3>1 DEF Inv, RunsAreSerial
  <2>. QED  BY <2>1, <2>2
<1>6. RunsLeft'
  <2>. SUFFICES ASSUME MaxRuns > 0, NEW h \in Goroutines, pc'[h] \in AtWork,
                       Of(h) \in schedules, Untouched(Of(h))
                PROVE  runCount[Of(h)] < MaxRuns
    BY <1>1 DEF RunsLeft, Untouched, registry
  <2>1. CASE pc[h] \in AtWork
    BY <2>1 DEF Inv, RunsLeft
  <2>2. CASE h = g /\ ~Exhausted(Of(g))
    <3>1. runCount[Of(g)] \in Nat
      BY <2>2 DEF Inv, TypeOK
    <3>. QED  BY <2>2, <3>1, SchedulerAssumption DEF Exhausted
  <2>. QED  BY <1>1, <2>1, <2>2
<1>7. FinitelyMany'
  BY <1>1, StillFinite DEF registry
<1>. QED  BY <1>2, <1>3, <1>4, <1>5, <1>6, <1>7

\* A goroutine that returns, whether or not it counts a run.
LEMMA ReturnsWell ==
  ASSUME Inv, NEW g \in Goroutines, NEW from \in Places, Returns(g, from),
         UNCHANGED <<schedules, owner, ticking, touched>>,
         \A h \in Goroutines \ {g} :
           pc[h] \in AtWork /\ Of(h) \in schedules /\ Untouched(Of(h)) =>
             runCount'[Of(h)] = runCount[Of(h)]
  PROVE  /\ CronsAreOwned' /\ RunsAreSerial' /\ RunsLeft' /\ FinitelyMany'
         /\ ThreadsOK' \/ ticks' # ticks
<1>. USE DEF Inv
<1>1. /\ \A h \in Goroutines : pc'[h] = IF h = g THEN "idle" ELSE pc[h]
      /\ \A h \in Goroutines : cron'[h] = IF h = g THEN NoCron ELSE cron[h]
      /\ \A h \in Goroutines : h # g => Of(h)' = Of(h)
  BY TypeParts DEF ThreadsOK, Returns, Goto, Set, Of
<1>2. CronsAreOwned'
  BY <1>1 DEF CronsAreOwned
<1>3. RunsAreSerial'
  BY <1>1 DEF RunsAreSerial, AtWork
<1>4. RunsLeft'
  <2>. SUFFICES ASSUME MaxRuns > 0, NEW h \in Goroutines, pc'[h] \in AtWork,
                       Of(h)' \in schedules, Untouched(Of(h)')
                PROVE  runCount'[Of(h)'] < MaxRuns
    BY DEF RunsLeft, Untouched
  <2>1. h # g
    BY <1>1 DEF AtWork
  <2>2. Of(h)' = Of(h) /\ pc[h] \in AtWork
    BY <1>1, <2>1
  <2>. QED  BY <2>1, <2>2 DEF RunsLeft
<1>5. FinitelyMany'
  BY <1>1, StillFinite
<1>6. ThreadsOK' \/ ticks' # ticks
  <2>1. /\ pc' \in [Goroutines -> Places]
        /\ cron' \in [Goroutines -> Crons \cup {NoCron}]
        /\ verdict' \in [Goroutines -> Verdicts]
        /\ late' \in SUBSET Goroutines
    BY TypeParts DEF ThreadsOK, Returns, Goto, Set, Places, Verdicts
  <2>2. ASSUME NEW h \in Goroutines, pc'[h] # "idle" PROVE cron'[h] \in Crons
    BY <1>1, <2>2, TypeParts DEF ThreadsOK
  <2>. QED  BY <2>1, <2>2, TypeParts DEF ThreadsOK
<1>. QED  BY <1>2, <1>3, <1>4, <1>5, <1>6

\* Where a step of a goroutine leaves the sets of HistoryMeans.
LEMMA SetsMove ==
  ASSUME Inv, NEW g \in Goroutines, NEW to \in Places, pc[g] # "idle",
         \A h \in Goroutines : pc'[h] = IF h = g THEN to ELSE pc[h],
         \A h \in Goroutines : h # g => cron'[h] = cron[h],
         to # "idle" => cron'[g] = cron[g],
         owner' = owner
  PROVE  \A id \in IDs :
           /\ g \in Running(id) <=> Of(g) = id /\ pc[g] \in OpenPlaces
           /\ g \in Uncounted(id) <=> Of(g) = id /\ pc[g] = "completed"
           /\ Running(id)' =
                IF Of(g) = id /\ to \in OpenPlaces
                THEN Running(id) \cup {g} ELSE Running(id) \ {g}
           /\ Uncounted(id)' =
                IF Of(g) = id /\ to = "completed"
                THEN Uncounted(id) \cup {g} ELSE Uncounted(id) \ {g}
<1>1. cron[g] # NoCron
  BY SchedulerAssumption DEF Inv, TypeOK
<1>2. \A h \in Goroutines : h # g => Of(h)' = Of(h)
  BY DEF Of
<1>3. to # "idle" => Of(g)' = Of(g)
  BY DEF Of
<1>. SUFFICES ASSUME NEW id \in IDs
     PROVE  /\ g \in Running(id) <=> Of(g) = id /\ pc[g] \in OpenPlaces
            /\ g \in Uncounted(id) <=> Of(g) = id /\ pc[g] = "completed"
            /\ Running(id)' =
                 IF Of(g) = id /\ to \in OpenPlaces
                 THEN Running(id) \cup {g} ELSE Running(id) \ {g}
            /\ Uncounted(id)' =
                 IF Of(g) = id /\ to = "completed"
                 THEN Uncounted(id) \cup {g} ELSE Uncounted(id) \ {g}
  OBVIOUS
<1>4. /\ g \in Running(id) <=> Of(g) = id /\ pc[g] \in OpenPlaces
      /\ g \in Uncounted(id) <=> Of(g) = id /\ pc[g] = "completed"
  BY <1>1 DEF Running, Uncounted
<1>5. /\ g \in Running(id)' <=> Of(g) = id /\ to \in OpenPlaces
      /\ g \in Uncounted(id)' <=> Of(g) = id /\ to = "completed"
  BY <1>1, <1>3 DEF Running, Uncounted, OpenPlaces
<1>6. \A h : h # g => (h \in Running(id)' <=> h \in Running(id))
  BY <1>2 DEF Running
<1>7. \A h : h # g => (h \in Uncounted(id)' <=> h \in Uncounted(id))
  BY <1>2 DEF Uncounted
<1>8. Running(id)' = IF Of(g) = id /\ to \in OpenPlaces
                     THEN Running(id) \cup {g} ELSE Running(id) \ {g}
  BY <1>5, <1>6
<1>9. Uncounted(id)' = IF Of(g) = id /\ to = "completed"
                       THEN Uncounted(id) \cup {g} ELSE Uncounted(id) \ {g}
  BY <1>5, <1>7
<1>. QED  BY <1>4, <1>8, <1>9

\* The uncounted runs can be counted.
LEMMA UncountedIsFinite ==
  ASSUME Inv, NEW id \in IDs
  PROVE  IsFiniteSet(Uncounted(id)) /\ Cardinality(Uncounted(id)) \in Nat
<1>1. Uncounted(id) \subseteq {g \in Goroutines : pc[g] # "idle"}
  BY DEF Uncounted
<1>. QED  BY <1>1, SizeOfSubset DEF Inv, FinitelyMany

\* The history does not see a goroutine that keeps on the same side of its
\* record, of its completion and of its count.
LEMMA HistoryUnseen ==
  ASSUME Inv, UNCHANGED <<schedules, touched, runCount, history>>,
         \A id \in IDs : /\ Running(id)' = Running(id)
                         /\ Uncounted(id)' = Uncounted(id)
  PROVE  HistoryAgrees'
<1>. SUFFICES ASSUME NEW id \in schedules, "readded" \notin touched[id]
     PROVE  /\ open'[id] = Running(id)'
            /\ success'[id] + failure'[id] =
                 runCount'[id] + unloaded'[id] + Cardinality(Uncounted(id)')
  BY HistoryMeans DEF HistoryOfSets
<1>1. id \in IDs
  BY DEF Inv, TypeOK
<1>. QED  BY <1>1, HistoryMeans DEF Inv, HistoryOfSets, history

LEMMA TickInv ==
  ASSUME Inv, NEW c \in Crons, NEW g \in Goroutines, Tick(c, g)
  PROVE  Inv'
<1>. USE DEF Inv
<1>1. /\ \A h \in Goroutines : pc'[h] = IF h = g THEN "waiting" ELSE pc[h]
      /\ \A h \in Goroutines : cron'[h] = IF h = g THEN c ELSE cron[h]
      /\ \A h \in Goroutines : h # g => Of(h)' = Of(h)
      /\ pc[g] = "idle"
  BY TypeParts DEF ThreadsOK, Tick, Goto, Set, Of, registry
<1>2. TypeOK'
  <2>1. /\ pc' \in [Goroutines -> Places]
        /\ cron' \in [Goroutines -> Crons \cup {NoCron}]
    BY TypeParts DEF ThreadsOK, Tick, Goto, Set, Places
  <2>2. late' \in SUBSET Goroutines
    BY TypeParts DEF ThreadsOK, Tick
  <2>3. ticks' \in 0..MaxTicks /\ verdict' \in [Goroutines -> Verdicts]
    BY TypeParts, SchedulerAssumption DEF ThreadsOK, Tick
  <2>4. \A h \in Goroutines : pc'[h] # "idle" => cron'[h] \in Crons
    BY <1>1, TypeParts DEF ThreadsOK
  <2>5. ThreadsOK'
    BY <2>1, <2>2, <2>3, <2>4 DEF ThreadsOK
  <2>6. RegistryOK' /\ HistoryOK' /\ RestOK'
    BY TypeParts DEF Tick, RegistryOK, HistoryOK, RestOK, registry, history
  <2>. QED  BY <2>5, <2>6, TypeParts
<1>3. OneCronEach' /\ EnabledIsTicking' /\ OnlyTrackedTicks' /\ GaugesAgree'
  BY RegistryKept DEF Tick, registry
<1>4. CronsAreOwned'
  <2>1. Of(g)' = owner[c] /\ c \in ticking
    BY <1>1 DEF Of, Tick, registry
  <2>. QED  BY <1>1, <2>1 DEF CronsAreOwned, Tick, registry
<1>5. RunsAreSerial' /\ RunsLeft' /\ RunsBounded'
  <2>1. \A h \in Goroutines : pc'[h] \in AtWork => pc[h] \in AtWork /\ h # g
    BY <1>1 DEF AtWork
  <2>2. RunsAreSerial'
    BY <1>1, <2>1 DEF RunsAreSerial
  <2>3. RunsLeft'
    BY <1>1, <2>1 DEF RunsLeft, Untouched, Tick, registry
  <2>4. RunsBounded'
    BY DEF RunsBounded, Untouched, Tick, registry
  <2>. QED  BY <2>2, <2>3, <2>4
<1>6. FinitelyMany'
  BY <1>1, StillFinite DEF Tick, registry
<1>7. HistoryAgrees'
  <2>1. ASSUME NEW id \in IDs
        PROVE  Running(id)' = Running(id) /\ Uncounted(id)' = Uncounted(id)
    BY <1>1 DEF Running, Uncounted, OpenPlaces
  <2>. QED  BY <2>1, HistoryUnseen DEF Tick, registry
<1>. QED  BY <1>2, <1>3, <1>4, <1>5, <1>6, <1>7

\* The types of the registry and the rest, which goroutines leave alone.
LEMMA OtherTypes ==
  ASSUME Inv, UNCHANGED <<registry, stopped, touched>>
  PROVE  RegistryOK' /\ RestOK'
BY TypeParts DEF Inv, RegistryOK, RestOK, registry

LEMMA CheckRefusesInv ==
  ASSUME Inv, NEW g \in Goroutines, CheckRefuses(g)
  PROVE  Inv'
<1>1. /\ UNCHANGED <<registry, history, stopped, touched, ticks>>
      /\ Returns(g, "waiting") /\ "waiting" \in Places /\ "idle" \in Places
  BY DEF CheckRefuses, Places
<1>2. /\ CronsAreOwned' /\ RunsAreSerial' /\ RunsLeft' /\ FinitelyMany'
      /\ ThreadsOK'
  BY <1>1, ReturnsWell DEF registry
<1>3. OneCronEach' /\ EnabledIsTicking' /\ OnlyTrackedTicks' /\ GaugesAgree'
  BY <1>1, RegistryKept DEF registry
<1>4. TypeOK'
  BY <1>1, <1>2, OtherTypes, TypeParts DEF Inv, HistoryOK, history
<1>5. RunsBounded'
  BY <1>1 DEF Inv, RunsBounded, Untouched, registry
<1>6. HistoryAgrees'
  <2>1. /\ \A h \in Goroutines : pc'[h] = IF h = g THEN "idle" ELSE pc[h]
        /\ \A h \in Goroutines : h # g => cron'[h] = cron[h]
        /\ pc[g] = "waiting" /\ owner' = owner
    BY <1>1, TypeParts DEF Inv, ThreadsOK, Returns, Goto, Set, registry
  <2>2. ASSUME NEW id \in IDs
        PROVE  Running(id)' = Running(id) /\ Uncounted(id)' = Uncounted(id)
    <3>1. /\ g \notin Running(id) /\ g \notin Uncounted(id)
          /\ Running(id)' = Running(id) \ {g}
          /\ Uncounted(id)' = Uncounted(id) \ {g}
      BY <1>1, <2>1, SetsMove DEF OpenPlaces
    <3>. QED  BY <3>1
  <2>. QED  BY <1>1, <2>2, HistoryUnseen DEF registry
<1>. QED  BY <1>2, <1>3, <1>4, <1>5, <1>6 DEF Inv

\* The four steps on which a goroutine stays at work.
LEMMA StaysFacts ==
  ASSUME Inv, NEW g \in Goroutines, NEW from \in Places, NEW to \in AtWork,
         Goto(g, from, to), from # "idle",
         UNCHANGED <<registry, stopped, touched, cron, ticks, late>>,
         verdict' \in [Goroutines -> Verdicts], HistoryOK',
         \/ from \in AtWork
         \/ /\ from = "waiting" /\ ~Delayed(g)
            /\ Of(g) \in schedules /\ ~Exhausted(Of(g)),
         HistoryAgrees'
  PROVE  Inv'
<1>1. pc' = [pc EXCEPT ![g] = to] /\ pc[g] = from
  BY DEF Goto
<1>2. /\ OneCronEach' /\ EnabledIsTicking' /\ OnlyTrackedTicks'
      /\ GaugesAgree' /\ RunsBounded'
      /\ CronsAreOwned' /\ RunsAreSerial' /\ RunsLeft' /\ FinitelyMany'
  BY <1>1, GoesOn
<1>3. ThreadsOK'
  BY <1>1, TypeParts DEF Inv, ThreadsOK, Places
<1>4. TypeOK'
  BY <1>3, OtherTypes, TypeParts
<1>. QED  BY <1>2, <1>4 DEF Inv

\* and where it leaves the sets.
LEMMA StaysSets ==
  ASSUME Inv, NEW g \in Goroutines, NEW from \in Places, NEW to \in AtWork,
         Goto(g, from, to), from # "idle", UNCHANGED <<owner, cron>>
  PROVE  \A id \in IDs :
           /\ g \in Running(id) <=> Of(g) = id /\ from \in OpenPlaces
           /\ g \in Uncounted(id) <=> Of(g) = id /\ from = "completed"
           /\ Running(id)' =
                IF Of(g) = id /\ to \in OpenPlaces
                THEN Running(id) \cup {g} ELSE Running(id) \ {g}
           /\ Uncounted(id)' =
                IF Of(g) = id /\ to = "completed"
                THEN Uncounted(id) \cup {g} ELSE Uncounted(id) \ {g}
<1>1. /\ \A h \in Goroutines : pc'[h] = IF h = g THEN to ELSE pc[h]
      /\ pc[g] = from /\ to \in Places
  BY TypeParts DEF Inv, ThreadsOK, Goto, Places
<1>. QED  BY <1>1, SetsMove

LEMMA CheckPassesInv ==
  ASSUME Inv, NEW g \in Goroutines, CheckPasses(g)
  PROVE  Inv'
<1>1. /\ UNCHANGED <<registry, history, stopped, touched, cron, ticks, late>>
      /\ Goto(g, "waiting", "checked") /\ verdict' = verdict
      /\ ~Delayed(g) /\ Of(g) \in schedules /\ ~Exhausted(Of(g))
      /\ "checked" \in AtWork /\ "waiting" \in Places
  BY DEF CheckPasses, AtWork, Places
<1>2. HistoryOK' /\ verdict' \in [Goroutines -> Verdicts]
  BY <1>1, TypeParts DEF Inv, HistoryOK, ThreadsOK, history
<1>3. ASSUME NEW id \in IDs
      PROVE  Running(id)' = Running(id) /\ Uncounted(id)' = Uncounted(id)
  <2>1. /\ g \notin Running(id) /\ g \notin Uncounted(id)
        /\ Running(id)' = Running(id) \ {g}
        /\ Uncounted(id)' = Uncounted(id) \ {g}
    BY <1>1, StaysSets DEF registry, OpenPlaces
  <2>. QED  BY <2>1
<1>4. HistoryAgrees'
  BY <1>1, <1>3, HistoryUnseen DEF registry
<1>. QED  BY <1>1, <1>2, <1>4, StaysFacts

LEMMA AddRecordInv ==
  ASSUME Inv, NEW g \in Goroutines, AddRecord(g)
  PROVE  Inv'
<1>1. /\ UNCHANGED <<registry, success, failure, unloaded, stopped, touched,
                     cron, ticks, late>>
      /\ Goto(g, "checked", "recorded") /\ verdict' = verdict
      /\ "recorded" \in AtWork /\ "checked" \in Places /\ "checked" \in AtWork
  BY DEF AddRecord, AtWork, Places
<1>2. Of(g) \in IDs
  BY <1>1 DEF Inv, CronsAreOwned, Goto
<1>3. \A id \in IDs : open'[id] = IF id = Of(g) /\ id \in schedules
                                  THEN open[id] \cup {g} ELSE open[id]
  BY TypeParts DEF Inv, HistoryOK, AddRecord
<1>4. HistoryOK' /\ verdict' \in [Goroutines -> Verdicts]
  <2>1. open' \in [IDs -> SUBSET Goroutines]
    BY TypeParts DEF Inv, HistoryOK, AddRecord
  <2>. QED  BY <1>1, <2>1, TypeParts DEF Inv, HistoryOK, ThreadsOK
<1>5. HistoryAgrees'
  <2>. SUFFICES ASSUME NEW id \in schedules, "readded" \notin touched[id]
       PROVE  /\ open'[id] = Running(id)'
              /\ success'[id] + failure'[id] =
                   runCount'[id] + unloaded'[id] + Cardinality(Uncounted(id)')
    BY <1>1, HistoryMeans DEF HistoryOfSets, registry
  <2>1. id \in IDs
    BY DEF Inv, TypeOK
  <2>2. /\ g \notin Running(id) /\ g \notin Uncounted(id)
        /\ Running(id)' = IF Of(g) = id THEN Running(id) \cup {g} ELSE Running(id)
        /\ Uncounted(id)' = Uncounted(id)
    <3>1. /\ g \notin Running(id) /\ g \notin Uncounted(id)
          /\ Running(id)' = IF Of(g) = id THEN Running(id) \cup {g}
                                          ELSE Running(id) \ {g}
          /\ Uncounted(id)' = Uncounted(id) \ {g}
      BY <1>1, <2>1, StaysSets DEF registry, OpenPlaces
    <3>. QED  BY <3>1
  <2>3. /\ open[id] = Running(id)
        /\ success[id] + failure[id] =
             runCount[id] + unloaded[id] + Cardinality(Uncounted(id))
    BY HistoryMeans DEF Inv, HistoryOfSets
  <2>. QED  BY <1>1, <1>3, <2>1, <2>2, <2>3 DEF registry
<1>. QED  BY <1>1, <1>4, <1>5, StaysFacts

LEMMA RunEndsInv ==
  ASSUME Inv, NEW g \in Goroutines, NEW v \in Verdicts, RunEnds(g, v)
  PROVE  Inv'
<1>1. /\ UNCHANGED <<registry, history, stopped, touched, cron, ticks, late>>
      /\ Goto(g, "recorded", "ended")
      /\ "ended" \in AtWork /\ "recorded" \in Places /\ "recorded" \in AtWork
  BY DEF RunEnds, AtWork, Places
<1>2. HistoryOK' /\ verdict' \in [Goroutines -> Verdicts]
  BY <1>1, TypeParts DEF Inv, HistoryOK, ThreadsOK, history, RunEnds, Set
<1>3. ASSUME NEW id \in IDs
      PROVE  Running(id)' = Running(id) /\ Uncounted(id)' = Uncounted(id)
  <2>1. /\ g \in Running(id) <=> Of(g) = id
        /\ g \notin Uncounted(id)
        /\ Running(id)' =
             IF Of(g) = id THEN Running(id) \cup {g} ELSE Running(id) \ {g}
        /\ Uncounted(id)' = Uncounted(id) \ {g}
    BY <1>1, StaysSets DEF registry, OpenPlaces
  <2>. QED  BY <2>1
<1>4. HistoryAgrees'
  BY <1>1, <1>3, HistoryUnseen DEF registry
<1>. QED  BY <1>1, <1>2, <1>4, StaysFacts

\* A panic leaves the record as it is and the goroutine behind.
LEMMA RunPanicsInv ==
  ASSUME Inv, NEW g \in Goroutines, RunPanics(g)
  PROVE  Inv'
<1>. USE DEF Inv
<1>1. /\ UNCHANGED <<registry, history, stopped, touched, cron, verdict, ticks,
                     late>>
      /\ pc[g] = "recorded" /\ pc' = [pc EXCEPT ![g] = "panicked"]
      /\ "panicked" \in Places /\ "panicked" \in OpenPlaces
  BY DEF RunPanics, Goto, Places, OpenPlaces
<1>2. /\ \A h \in Goroutines : pc'[h] = IF h = g THEN "panicked" ELSE pc[h]
      /\ \A h \in Goroutines : Of(h)' = Of(h)
      /\ \A h \in Goroutines : pc'[h] \in AtWork => pc[h] \in AtWork
  BY <1>1, TypeParts DEF ThreadsOK, Of, registry, AtWork
<1>3. OneCronEach' /\ EnabledIsTicking' /\ OnlyTrackedTicks' /\ GaugesAgree'
  BY <1>1, RegistryKept DEF registry
<1>4. TypeOK'
  <2>1. pc' \in [Goroutines -> Places]
    BY <1>1, TypeParts DEF ThreadsOK
  <2>2. \A h \in Goroutines : pc'[h] # "idle" => cron'[h] \in Crons
    BY <1>1, <1>2, TypeParts DEF ThreadsOK
  <2>3. ThreadsOK' /\ HistoryOK'
    BY <1>1, <2>1, <2>2, TypeParts DEF ThreadsOK, HistoryOK, history
  <2>. QED  BY <1>1, <2>3, OtherTypes, TypeParts
<1>5. CronsAreOwned'
  BY <1>1, <1>2 DEF CronsAreOwned, registry
<1>6. RunsAreSerial'
  BY <1>1, <1>2 DEF RunsAreSerial
<1>7. RunsLeft' /\ RunsBounded'
  BY <1>1, <1>2 DEF RunsLeft, RunsBounded, Untouched, registry
<1>8. FinitelyMany'
  BY <1>1, <1>2, StillFinite DEF registry
<1>9. HistoryAgrees'
  <2>1. ASSUME NEW id \in IDs
        PROVE  Running(id)' = Running(id) /\ Uncounted(id)' = Uncounted(id)
    BY <1>1, <1>2 DEF Running, Uncounted, OpenPlaces
  <2>. QED  BY <1>1, <2>1, HistoryUnseen DEF registry
<1>. QED  BY <1>3, <1>4, <1>5, <1>6, <1>7, <1>8, <1>9

LEMMA PlusType ==
  ASSUME NEW f \in [IDs -> Nat], NEW id \in IDs
  PROVE  /\ Plus(f, id) \in [IDs -> Nat]
         /\ \A x \in IDs : Plus(f, id)[x] = IF x = id THEN f[x] + 1 ELSE f[x]
BY DEF Plus

LEMMA CompletedTypes ==
  ASSUME Inv, NEW g \in Goroutines, NEW v \in Verdicts, Completed(g, v),
         Of(g) \in IDs
  PROVE  /\ open' \in [IDs -> SUBSET Goroutines]
         /\ success' \in [IDs -> Nat] /\ failure' \in [IDs -> Nat]
<1>1. HistoryOK
  BY TypeParts DEF Inv
<1>2. open' \in [IDs -> SUBSET Goroutines]
  BY <1>1 DEF HistoryOK, Completed
<1>3. success' = Plus(success, Of(g)) \/ success' = success
  BY DEF Completed
<1>4. failure' = Plus(failure, Of(g)) \/ failure' = failure
  BY DEF Completed
<1>. QED  BY <1>1, <1>2, <1>3, <1>4, PlusType DEF HistoryOK

LEMMA CompleteRecordInv ==
  ASSUME Inv, NEW g \in Goroutines, CompleteRecord(g)
  PROVE  Inv'
<1>. DEFINE v == verdict[g]
<1>1. /\ UNCHANGED <<registry, unloaded, stopped, touched, cron, ticks, late>>
      /\ Goto(g, "ended", "completed") /\ verdict' = verdict /\ Completed(g, v)
      /\ "completed" \in AtWork /\ "ended" \in Places /\ "ended" \in AtWork
      /\ v \in Verdicts
  BY TypeParts DEF Inv, ThreadsOK, CompleteRecord, AtWork, Places
<1>2. Of(g) \in IDs
  BY <1>1 DEF Inv, CronsAreOwned, Goto
<1>3. HistoryOK' /\ verdict' \in [Goroutines -> Verdicts]
  <2>1. /\ open' \in [IDs -> SUBSET Goroutines]
        /\ success' \in [IDs -> Nat] /\ failure' \in [IDs -> Nat]
    BY <1>1, <1>2, CompletedTypes
  <2>. QED  BY <1>1, <2>1, TypeParts DEF Inv, HistoryOK, ThreadsOK
<1>4. HistoryAgrees'
  <2>. SUFFICES ASSUME NEW id \in schedules, "readded" \notin touched[id]
       PROVE  /\ open'[id] = Running(id)'
              /\ success'[id] + failure'[id] =
                   runCount'[id] + unloaded'[id] + Cardinality(Uncounted(id)')
    BY <1>1, HistoryMeans DEF HistoryOfSets, registry
  <2>1. id \in IDs
    BY DEF Inv, TypeOK
  <2>2. /\ g \in Running(id) <=> Of(g) = id
        /\ g \notin Uncounted(id)
        /\ Running(id)' = Running(id) \ {g}
        /\ Uncounted(id)' =
             IF Of(g) = id THEN Uncounted(id) \cup {g} ELSE Uncounted(id) \ {g}
    BY <1>1, <2>1, StaysSets DEF registry, OpenPlaces
  <2>3. /\ open[id] = Running(id)
        /\ success[id] + failure[id] =
             runCount[id] + unloaded[id] + Cardinality(Uncounted(id))
    BY HistoryMeans DEF Inv, HistoryOfSets
  <2>4. CASE Of(g) = id
    <3>1. open'[id] = open[id] \ {g}
      BY <1>1, <2>1, <2>4, TypeParts DEF Inv, HistoryOK, Completed
    <3>2. success'[id] + failure'[id] = success[id] + failure[id] + 1
      BY <1>1, <2>1, <2>2, <2>3, <2>4, TypeParts
         DEF Inv, HistoryOK, Completed, Plus
    <3>3. Cardinality(Uncounted(id)') = Cardinality(Uncounted(id)) + 1
      BY <2>1, <2>2, <2>4, UncountedIsFinite, SizeWithOneMore
    <3>4. /\ Cardinality(Uncounted(id)) \in Nat
          /\ runCount[id] \in Nat /\ unloaded[id] \in Nat
          /\ runCount' = runCount /\ unloaded' = unloaded
      BY <1>1, <2>1, UncountedIsFinite, TypeParts
         DEF Inv, HistoryOK, RegistryOK, registry
    <3>. QED  BY <2>2, <2>3, <2>4, <3>1, <3>2, <3>3, <3>4
  <2>5. CASE Of(g) # id
    <3>1. /\ open'[id] = open[id]
          /\ success'[id] = success[id] /\ failure'[id] = failure[id]
      BY <1>1, <2>1, <2>5, TypeParts DEF Inv, HistoryOK, Completed, Plus
    <3>2. Running(id)' = Running(id) /\ Uncounted(id)' = Uncounted(id)
      BY <2>2, <2>5
    <3>. QED  BY <1>1, <2>3, <3>1, <3>2 DEF registry
  <2>. QED  BY <2>4, <2>5
<1>. QED  BY <1>1, <1>3, <1>4, StaysFacts

\* The goroutine returns: it leaves both sets.
LEMMA ReturnsSets ==
  ASSUME Inv, NEW g \in Goroutines, NEW from \in Places \ {"idle"},
         Returns(g, from), owner' = owner
  PROVE  \A id \in IDs :
           /\ g \in Running(id) <=> Of(g) = id /\ from \in OpenPlaces
           /\ g \in Uncounted(id) <=> Of(g) = id /\ from = "completed"
           /\ Running(id)' = Running(id) \ {g}
           /\ Uncounted(id)' = Uncounted(id) \ {g}
<1>1. /\ \A h \in Goroutines : pc'[h] = IF h = g THEN "idle" ELSE pc[h]
      /\ \A h \in Goroutines : h # g => cron'[h] = cron[h]
      /\ pc[g] = from /\ "idle" \in Places
  BY TypeParts DEF Inv, ThreadsOK, Returns, Goto, Set, Places
<1>2. \A id \in IDs :
        /\ g \in Running(id) <=> Of(g) = id /\ pc[g] \in OpenPlaces
        /\ g \in Uncounted(id) <=> Of(g) = id /\ pc[g] = "completed"
        /\ Running(id)' =
             IF Of(g) = id /\ "idle" \in OpenPlaces
             THEN Running(id) \cup {g} ELSE Running(id) \ {g}
        /\ Uncounted(id)' =
             IF Of(g) = id /\ "idle" = "completed"
             THEN Uncounted(id) \cup {g} ELSE Uncounted(id) \ {g}
  BY <1>1, SetsMove
<1>. QED  BY <1>1, <1>2 DEF OpenPlaces

LEMMA LoadFailsInv ==
  ASSUME Inv, NEW g \in Goroutines, LoadFails(g)
  PROVE  Inv'
<1>. DEFINE found == g \in open[Of(g)]
<1>1. /\ UNCHANGED <<registry, stopped, touched, ticks>>
      /\ Returns(g, "recorded") /\ Completed(g, "failed")
      /\ unloaded' = IF found THEN Plus(unloaded, Of(g)) ELSE unloaded
      /\ "recorded" \in Places /\ "recorded" \in Places \ {"idle"}
      /\ "failed" \in Verdicts
  BY DEF LoadFails, Places, AtWork, Verdicts
<1>2. Of(g) \in IDs
  BY <1>1 DEF Inv, CronsAreOwned, Returns, Goto
<1>3. /\ CronsAreOwned' /\ RunsAreSerial' /\ RunsLeft' /\ FinitelyMany'
      /\ ThreadsOK'
  BY <1>1, ReturnsWell DEF registry
<1>4. OneCronEach' /\ EnabledIsTicking' /\ OnlyTrackedTicks' /\ GaugesAgree'
  BY <1>1, RegistryKept DEF registry
<1>5. TypeOK'
  <2>1. /\ open' \in [IDs -> SUBSET Goroutines]
        /\ success' \in [IDs -> Nat] /\ failure' \in [IDs -> Nat]
    BY <1>1, <1>2, CompletedTypes
  <2>2. unloaded' \in [IDs -> Nat]
    BY <1>1, <1>2, PlusType, TypeParts DEF Inv, HistoryOK
  <2>. QED  BY <1>1, <1>3, <2>1, <2>2, OtherTypes, TypeParts DEF HistoryOK
<1>6. RunsBounded'
  BY <1>1 DEF Inv, RunsBounded, Untouched, registry
<1>7. HistoryAgrees'
  <2>. SUFFICES ASSUME NEW id \in schedules, "readded" \notin touched[id]
       PROVE  /\ open'[id] = Running(id)'
              /\ success'[id] + failure'[id] =
                   runCount'[id] + unloaded'[id] + Cardinality(Uncounted(id)')
    BY <1>1, HistoryMeans DEF HistoryOfSets, registry
  <2>1. id \in IDs
    BY DEF Inv, TypeOK
  <2>2. /\ g \in Running(id) <=> Of(g) = id
        /\ g \notin Uncounted(id)
        /\ Running(id)' = Running(id) \ {g}
        /\ Uncounted(id)' = Uncounted(id) \ {g}
    BY <1>1, <2>1, ReturnsSets DEF registry, OpenPlaces
  <2>3. /\ open[id] = Running(id)
        /\ success[id] + failure[id] =
             runCount[id] + unloaded[id] + Cardinality(Uncounted(id))
    BY HistoryMeans DEF Inv, HistoryOfSets
  <2>4. /\ Cardinality(Uncounted(id)) \in Nat /\ Uncounted(id)' = Uncounted(id)
        /\ runCount[id] \in Nat /\ runCount' = runCount
    BY <1>1, <2>1, <2>2, UncountedIsFinite, TypeParts
       DEF Inv, RegistryOK, registry
  <2>5. success' = success
    BY <1>1 DEF Completed
  <2>6. HistoryOK
    BY TypeParts DEF Inv
  <2>7. CASE Of(g) = id
    <3>1. found
      BY <2>2, <2>3, <2>7
    <3>2. open'[id] = open[id] \ {g}
      BY <1>1, <2>1, <2>6, <2>7 DEF HistoryOK, Completed
    <3>3. failure' = Plus(failure, id) /\ unloaded' = Plus(unloaded, id)
      BY <1>1, <2>7, <3>1 DEF Completed
    <3>4. /\ failure'[id] = failure[id] + 1 /\ unloaded'[id] = unloaded[id] + 1
          /\ success[id] \in Nat /\ failure[id] \in Nat /\ unloaded[id] \in Nat
      BY <2>1, <2>6, <3>3, PlusType DEF HistoryOK
    <3>5. Cardinality(Uncounted(id)') = Cardinality(Uncounted(id))
      BY <2>4
    <3>6. success'[id] + failure'[id] =
            runCount'[id] + unloaded'[id] + Cardinality(Uncounted(id)')
      BY <2>3, <2>4, <2>5, <3>4, <3>5
    <3>. QED  BY <2>2, <2>3, <3>2, <3>6
  <2>8. CASE Of(g) # id
    <3>1. open'[id] = open[id]
      BY <1>1, <2>1, <2>6, <2>8 DEF HistoryOK, Completed
    <3>2. failure'[id] = failure[id]
      <4>1. failure' = Plus(failure, Of(g)) \/ failure' = failure
        BY <1>1 DEF Completed
      <4>. QED  BY <1>2, <2>1, <2>6, <2>8, <4>1, PlusType DEF HistoryOK
    <3>3. unloaded'[id] = unloaded[id]
      BY <1>1, <1>2, <2>1, <2>6, <2>8, PlusType DEF HistoryOK
    <3>. QED  BY <2>2, <2>3, <2>4, <2>5, <2>8, <3>1, <3>2, <3>3
  <2>. QED  BY <2>7, <2>8
<1>. QED  BY <1>3, <1>4, <1>5, <1>6, <1>7 DEF Inv

\* The run counts: on an untouched schedule no other is past the check.
LEMMA CountRunInv ==
  ASSUME Inv, NEW g \in Goroutines, CountRun(g)
  PROVE  Inv'
<1>. DEFINE here == Of(g) \in schedules
<1>1. /\ UNCHANGED <<schedules, enabled, cronJobs, owner, ticking, total,
                     active, history, stopped, touched, ticks>>
      /\ Returns(g, "completed")
      /\ runCount' = IF here THEN Plus(runCount, Of(g)) ELSE runCount
      /\ "completed" \in Places \ {"idle"} /\ "completed" \in Places
      /\ pc[g] = "completed" /\ pc[g] \in AtWork /\ pc[g] # "idle"
  BY DEF CountRun, Returns, Goto, Places, AtWork
<1>2. RegistryOK /\ HistoryOK /\ ThreadsOK /\ RestOK
  BY TypeParts DEF Inv
<1>3. Of(g) \in IDs /\ cron[g] \in Crons
  BY <1>1, <1>2 DEF Inv, CronsAreOwned, ThreadsOK
<1>4. /\ runCount \in [IDs -> Nat] /\ runCount' \in [IDs -> Nat]
      /\ \A id \in IDs : runCount'[id] = IF here /\ id = Of(g)
                                         THEN runCount[id] + 1 ELSE runCount[id]
  BY <1>1, <1>2, <1>3, PlusType DEF RegistryOK
<1>5. ASSUME NEW h \in Goroutines \ {g}, pc[h] \in AtWork, Of(h) \in schedules,
             Untouched(Of(h))
      PROVE  runCount'[Of(h)] = runCount[Of(h)]
  <2>1. Of(h) \in IDs /\ cron[h] \in Crons
    BY <1>2, <1>5 DEF RegistryOK, ThreadsOK, AtWork
  <2>2. Of(h) # Of(g)
    <3>. SUFFICES ASSUME Of(h) = Of(g) PROVE FALSE
      OBVIOUS
    <3>1. cron[h] = cron[g]
      BY <1>3, <1>5, <2>1 DEF Inv, OneCronEach, Of
    <3>. QED  BY <1>1, <1>5, <3>1 DEF Inv, RunsAreSerial
  <2>. QED  BY <1>4, <2>1, <2>2
<1>6. /\ CronsAreOwned' /\ RunsAreSerial' /\ RunsLeft' /\ FinitelyMany'
      /\ ThreadsOK'
  BY <1>1, <1>5, ReturnsWell
<1>7. OneCronEach' /\ EnabledIsTicking' /\ OnlyTrackedTicks' /\ GaugesAgree'
  BY <1>1, RegistryKept
<1>8. TypeOK'
  <2>1. RegistryOK'
    BY <1>1, <1>2, <1>4 DEF RegistryOK
  <2>2. HistoryOK' /\ RestOK'
    BY <1>1, <1>2 DEF HistoryOK, RestOK, history
  <2>. QED  BY <1>6, <2>1, <2>2, TypeParts
<1>9. RunsBounded'
  <2>. SUFFICES ASSUME MaxRuns > 0, NEW id \in IDs, Untouched(id)
                PROVE  runCount'[id] <= MaxRuns
    BY <1>1 DEF RunsBounded, Untouched
  <2>1. runCount[id] <= MaxRuns /\ runCount[id] \in Nat
    BY <1>4 DEF Inv, RunsBounded
  <2>2. CASE here /\ id = Of(g)
    <3>1. runCount[id] < MaxRuns
      BY <1>1, <2>2 DEF Inv, RunsLeft
    <3>. QED  BY <1>4, <2>1, <2>2, <3>1, SchedulerAssumption
  <2>. QED  BY <1>4, <2>1, <2>2
<1>10. HistoryAgrees'
  <2>. SUFFICES ASSUME NEW id \in schedules, "readded" \notin touched[id]
       PROVE  /\ open'[id] = Running(id)'
              /\ success'[id] + failure'[id] =
                   runCount'[id] + unloaded'[id] + Cardinality(Uncounted(id)')
    BY <1>1, HistoryMeans DEF HistoryOfSets
  <2>1. id \in IDs
    BY <1>2 DEF RegistryOK
  <2>2. /\ g \notin Running(id)
        /\ g \in Uncounted(id) <=> Of(g) = id
        /\ Running(id)' = Running(id) \ {g}
        /\ Uncounted(id)' = Uncounted(id) \ {g}
    BY <1>1, <2>1, ReturnsSets DEF OpenPlaces
  <2>3. /\ open[id] = Running(id)
        /\ success[id] + failure[id] =
             runCount[id] + unloaded[id] + Cardinality(Uncounted(id))
    BY HistoryMeans DEF Inv, HistoryOfSets
  <2>4. /\ Cardinality(Uncounted(id)) \in Nat /\ IsFiniteSet(Uncounted(id))
        /\ runCount[id] \in Nat /\ unloaded[id] \in Nat
        /\ UNCHANGED <<open, success, failure, unloaded>>
    BY <1>1, <1>2, <1>4, <2>1, UncountedIsFinite DEF HistoryOK, history
  <2>5. CASE Of(g) = id
    <3>1. Cardinality(Uncounted(id)') = Cardinality(Uncounted(id)) - 1
      BY <2>2, <2>4, <2>5, SizeWithOneLess
    <3>2. runCount'[id] = runCount[id] + 1
      BY <1>4, <2>1, <2>5
    <3>. QED  BY <2>2, <2>3, <2>4, <3>1, <3>2
  <2>6. CASE Of(g) # id
    <3>1. Uncounted(id)' = Uncounted(id) /\ runCount'[id] = runCount[id]
      BY <1>4, <2>1, <2>2, <2>6
    <3>. QED  BY <2>2, <2>3, <2>4, <3>1
  <2>. QED  BY <2>5, <2>6
<1>. QED  BY <1>6, <1>7, <1>8, <1>9, <1>10 DEF Inv

----------------------------------------------------------------------------
(* The registry.  Its operations leave the goroutines alone.               *)

\* Where no cron is made, the sets are as they were.
LEMMA SetsKept ==
  ASSUME UNCHANGED <<owner, threads>>
  PROVE  \A id \in IDs :
           Running(id)' = Running(id) /\ Uncounted(id)' = Uncounted(id)
BY DEF threads, Running, Uncounted, Of

\* A cron that has no owner is nobody's: it neither ticks, nor runs, nor is
\* tracked.
LEMMA NewCron ==
  ASSUME Inv, NEW id \in IDs, NEW c \in Crons, owner[c] = NoID,
         owner' = Set(owner, c, id), UNCHANGED threads
  PROVE  /\ \A d \in Crons : owner'[d] = IF d = c THEN id ELSE owner[d]
         /\ owner' \in [Crons -> IDs \cup {NoID}]
         /\ c \notin ticking /\ c # NoCron
         /\ \A i \in IDs : cronJobs[i] # c
         /\ \A g \in Goroutines :
              pc[g] # "idle" => cron[g] \in Crons /\ cron[g] # c /\ Of(g)' = Of(g)
         /\ \A i \in IDs : Running(i)' = Running(i) /\ Uncounted(i)' = Uncounted(i)
<1>. USE SchedulerAssumption
<1>1. RegistryOK /\ ThreadsOK /\ CronsAreOwned
  BY TypeParts DEF Inv
<1>2. /\ \A d \in Crons : owner'[d] = IF d = c THEN id ELSE owner[d]
      /\ owner' \in [Crons -> IDs \cup {NoID}]
  BY <1>1 DEF RegistryOK, Set
<1>3. c \notin ticking /\ c # NoCron
  BY <1>1 DEF CronsAreOwned
<1>4. ASSUME NEW i \in IDs PROVE cronJobs[i] # c
  BY <1>1, <1>3 DEF RegistryOK
<1>5. ASSUME NEW g \in Goroutines, pc[g] # "idle"
      PROVE  cron[g] \in Crons /\ cron[g] # c /\ Of(g)' = Of(g)
  <2>1. cron[g] \in Crons /\ owner[cron[g]] \in IDs
    BY <1>1, <1>5 DEF ThreadsOK, CronsAreOwned, Of
  <2>2. cron[g] # c
    BY <2>1
  <2>3. cron' = cron
    BY DEF threads
  <2>. QED  BY <1>2, <2>1, <2>2, <2>3 DEF Of
<1>6. ASSUME NEW i \in IDs
      PROVE  Running(i)' = Running(i) /\ Uncounted(i)' = Uncounted(i)
  <2>1. \A g \in Goroutines : pc[g] = "idle" => cron[g] = NoCron
    BY <1>1 DEF CronsAreOwned
  <2>2. \A g \in Goroutines : cron[g] # NoCron => Of(g)' = Of(g)
    BY <1>5, <2>1
  <2>3. pc' = pc /\ cron' = cron
    BY DEF threads
  <2>. QED  BY <2>2, <2>3 DEF Running, Uncounted
<1>. QED  BY <1>2, <1>3, <1>4, <1>5, <1>6

\* What is touched stays touched.
LEMMA TouchGrows ==
  ASSUME Inv, NEW id \in IDs, NEW how \in Touches, Touch(id, how)
  PROVE  /\ touched' \in [IDs -> SUBSET Touches]
         /\ \A i \in IDs : touched'[i] = IF i = id THEN touched[i] \cup {how}
                                         ELSE touched[i]
BY TypeParts DEF Inv, RestOK, Touch

\* The history of each schedule is as it was, or it is new and empty.
LEMMA HistoryKept ==
  ASSUME Inv, schedules' \subseteq IDs,
         \A id \in IDs : Running(id)' = Running(id) /\ Uncounted(id)' = Uncounted(id),
         \A id \in schedules' : "readded" \notin touched'[id] =>
           \/ /\ id \in schedules /\ "readded" \notin touched[id]
              /\ open'[id] = open[id] /\ runCount'[id] = runCount[id]
              /\ success'[id] = success[id] /\ failure'[id] = failure[id]
              /\ unloaded'[id] = unloaded[id]
           \/ /\ open'[id] = {} /\ runCount'[id] = 0 /\ success'[id] = 0
              /\ failure'[id] = 0 /\ unloaded'[id] = 0
              /\ Running(id) = {} /\ Uncounted(id) = {}
  PROVE  HistoryAgrees'
<1>. SUFFICES ASSUME NEW id \in schedules', "readded" \notin touched'[id]
     PROVE  /\ open'[id] = Running(id)'
            /\ success'[id] + failure'[id] =
                 runCount'[id] + unloaded'[id] + Cardinality(Uncounted(id)')
  BY HistoryMeans DEF HistoryOfSets
<1>1. Running(id)' = Running(id) /\ Uncounted(id)' = Uncounted(id)
  OBVIOUS
<1>2. CASE id \in schedules /\ "readded" \notin touched[id]
                /\ open'[id] = open[id] /\ runCount'[id] = runCount[id]
                /\ success'[id] = success[id] /\ failure'[id] = failure[id]
                /\ unloaded'[id] = unloaded[id]
  <2>1. /\ open[id] = Running(id)
        /\ success[id] + failure[id] =
             runCount[id] + unloaded[id] + Cardinality(Uncounted(id))
    BY <1>2, HistoryMeans DEF Inv, HistoryOfSets
  <2>. QED  BY <1>1, <1>2, <2>1
<1>3. CASE open'[id] = {} /\ runCount'[id] = 0 /\ success'[id] = 0
                /\ failure'[id] = 0 /\ unloaded'[id] = 0
                /\ Running(id) = {} /\ Uncounted(id) = {}
  <2>1. Cardinality(Uncounted(id)') = 0
    BY <1>1, <1>3, FS_EmptySet
  <2>. QED  BY <1>1, <1>3, <2>1
<1>. QED  BY <1>2, <1>3

\* The gauges' sets are finite.
LEMMA GaugesCount ==
  ASSUME Inv
  PROVE  /\ IsFiniteSet(schedules) /\ Cardinality(schedules) \in Nat
         /\ IsFiniteSet(On) /\ Cardinality(On) \in Nat
<1>1. IsFiniteSet(schedules) /\ On \subseteq schedules
  BY DEF Inv, FinitelyMany, On
<1>. QED  BY <1>1, SizeOfSubset, FS_CardinalityType

\* What holds of the goroutines holds on.
LEMMA ThreadsKept ==
  ASSUME Inv, UNCHANGED threads, IsFiniteSet(schedules'),
         \A g \in Goroutines : pc[g] # "idle" => Of(g)' = Of(g),
         \A c \in ticking' : owner'[c] \in IDs
  PROVE  ThreadsOK' /\ CronsAreOwned' /\ RunsAreSerial' /\ FinitelyMany'
<1>. USE DEF Inv, threads
<1>1. ThreadsOK'
  BY TypeParts DEF ThreadsOK
<1>2. CronsAreOwned'
  BY DEF CronsAreOwned
<1>3. RunsAreSerial'
  BY DEF RunsAreSerial
<1>4. FinitelyMany'
  BY DEF FinitelyMany
<1>. QED  BY <1>1, <1>2, <1>3, <1>4

LEMMA AddScheduleInv ==
  ASSUME Inv, NEW id \in IDs, NEW c \in Crons, NEW on \in BOOLEAN,
         AddSchedule(id, c, on)
  PROVE  Inv'
<1>. USE SchedulerAssumption
<1>. DEFINE again == \E d \in Crons : owner[d] = id
<1>1. /\ RegistryOK /\ HistoryOK /\ RestOK
      /\ threads' = threads /\ stopped' = stopped
      /\ owner[c] = NoID /\ owner' = Set(owner, c, id)
      /\ schedules' = schedules \cup {id}
  BY TypeParts DEF Inv, AddSchedule
<1>2. /\ \A d \in Crons : owner'[d] = IF d = c THEN id ELSE owner[d]
      /\ owner' \in [Crons -> IDs \cup {NoID}]
      /\ c \notin ticking /\ c # NoCron
      /\ \A i \in IDs : cronJobs[i] # c
      /\ \A g \in Goroutines :
           pc[g] # "idle" => cron[g] \in Crons /\ cron[g] # c /\ Of(g)' = Of(g)
      /\ \A i \in IDs : Running(i)' = Running(i) /\ Uncounted(i)' = Uncounted(i)
  BY <1>1, NewCron
<1>3. /\ touched' \in [IDs -> SUBSET Touches]
      /\ \A i \in IDs : i # id => touched'[i] = touched[i]
      /\ touched[id] \subseteq touched'[id]
      /\ again => "readded" \in touched'[id]
      /\ ~again => touched'[id] = touched[id]
  <2>1. CASE again
    <3>1. Touch(id, "readded") /\ "readded" \in Touches
      BY <2>1 DEF AddSchedule, Touches
    <3>2. /\ touched' \in [IDs -> SUBSET Touches]
          /\ \A i \in IDs : touched'[i] = IF i = id THEN touched[i] \cup {"readded"}
                                          ELSE touched[i]
      BY <3>1, TouchGrows
    <3>. QED  BY <2>1, <3>2
  <2>2. CASE ~again
    BY <1>1, <2>2 DEF AddSchedule, RestOK
  <2>. QED  BY <2>1, <2>2
<1>4. /\ enabled' \in [IDs -> BOOLEAN] /\ enabled'[id] = on
      /\ runCount' \in [IDs -> Nat] /\ runCount'[id] = 0
      /\ cronJobs' \in [IDs -> Crons \cup {NoCron}] /\ cronJobs'[id] = c
      /\ \A i \in IDs : i # id =>
           /\ enabled'[i] = enabled[i] /\ runCount'[i] = runCount[i]
           /\ cronJobs'[i] = cronJobs[i]
  BY <1>1 DEF RegistryOK, AddSchedule, Set
<1>5. ticking' = IF on THEN ticking \cup {c} ELSE ticking
  BY DEF AddSchedule
<1>6. id \in schedules => again
  BY <1>1 DEF RegistryOK
<1>7. /\ HistoryOK' /\ open'[id] = {} /\ success'[id] = 0 /\ failure'[id] = 0
      /\ unloaded'[id] = 0
      /\ \A i \in IDs : i # id =>
           /\ open'[i] = open[i] /\ success'[i] = success[i]
           /\ failure'[i] = failure[i] /\ unloaded'[i] = unloaded[i]
  BY <1>1 DEF HistoryOK, AddSchedule, HistoryDropped, Set
<1>8. RegistryOK'
  <2>1. total' \in Int /\ active' \in Int
    BY <1>1 DEF RegistryOK, AddSchedule, One
  <2>2. \A i \in IDs : cronJobs'[i] # NoCron <=> i \in schedules'
    BY <1>1, <1>2, <1>4 DEF RegistryOK
  <2>3. ASSUME NEW i \in schedules' PROVE owner'[cronJobs'[i]] = i
    <3>1. CASE i = id
      BY <1>2, <1>4, <3>1
    <3>2. CASE i # id
      <4>1. i \in IDs /\ cronJobs[i] \in Crons /\ owner[cronJobs[i]] = i
        BY <1>1, <2>3, <3>2 DEF RegistryOK
      <4>. QED  BY <1>2, <1>4, <3>2, <4>1
    <3>. QED  BY <3>1, <3>2
  <2>4. schedules' \in SUBSET IDs /\ ticking' \in SUBSET Crons
    BY <1>1, <1>5 DEF RegistryOK
  <2>. QED  BY <1>2, <1>4, <2>1, <2>2, <2>3, <2>4 DEF RegistryOK
<1>9. IsFiniteSet(schedules')
  BY <1>1, FS_AddElement DEF Inv, FinitelyMany
<1>10. \A d \in ticking' : owner'[d] \in IDs
  BY <1>1, <1>2, <1>5 DEF Inv, CronsAreOwned, RegistryOK
<1>11. ThreadsOK' /\ CronsAreOwned' /\ RunsAreSerial' /\ FinitelyMany'
  BY <1>1, <1>2, <1>9, <1>10, ThreadsKept
<1>12. TypeOK'
  BY <1>1, <1>3, <1>7, <1>8, <1>11, TypeParts DEF RestOK
<1>13. OneCronEach'
  <2>. SUFFICES ASSUME NEW i \in IDs, touched'[i] = {}, NEW d \in Crons,
                       NEW e \in Crons, owner'[d] = i, owner'[e] = i
                PROVE  d = e
    BY DEF OneCronEach, Untouched
  <2>1. CASE i = id
    BY <1>2, <1>3, <2>1
  <2>2. CASE i # id
    BY <1>2, <1>3, <2>2 DEF Inv, OneCronEach, Untouched
  <2>. QED  BY <2>1, <2>2
<1>14. RunsLeft'
  <2>. SUFFICES ASSUME MaxRuns > 0, NEW h \in Goroutines, pc[h] \in AtWork,
                       Of(h)' \in schedules', touched'[Of(h)'] = {}
                PROVE  runCount'[Of(h)'] < MaxRuns
    BY <1>1 DEF RunsLeft, Untouched, threads
  <2>1. cron[h] \in Crons /\ Of(h)' = Of(h) /\ Of(h) \in IDs
    BY <1>2 DEF Inv, CronsAreOwned, AtWork
  <2>2. Of(h) # id
    BY <1>3, <2>1 DEF Of
  <2>. QED  BY <1>1, <1>3, <1>4, <2>1, <2>2 DEF Inv, RunsLeft, Untouched
<1>15. RunsBounded'
  <2>. SUFFICES ASSUME MaxRuns > 0, NEW i \in IDs, touched'[i] = {}
                PROVE  runCount'[i] <= MaxRuns
    BY DEF RunsBounded, Untouched
  <2>1. CASE i = id
    BY <1>4, <2>1
  <2>2. CASE i # id
    BY <1>3, <1>4, <2>2 DEF Inv, RunsBounded, Untouched
  <2>. QED  BY <2>1, <2>2
<1>16. EnabledIsTicking'
  <2>. SUFFICES ASSUME ~stopped, NEW i \in schedules', touched'[i] = {}
                PROVE  cronJobs'[i] \in ticking' <=> enabled'[i]
    BY <1>1 DEF EnabledIsTicking, Untouched
  <2>1. CASE i = id
    BY <1>2, <1>4, <1>5, <2>1
  <2>2. CASE i # id
    BY <1>1, <1>2, <1>3, <1>4, <1>5, <2>2
       DEF Inv, EnabledIsTicking, Untouched, RegistryOK
  <2>. QED  BY <2>1, <2>2
<1>17. OnlyTrackedTicks'
  <2>. SUFFICES ASSUME NEW d \in ticking', "readded" \notin touched'[owner'[d]]
                PROVE  cronJobs'[owner'[d]] = d
    BY DEF OnlyTrackedTicks
  <2>1. CASE d = c
    BY <1>2, <1>4, <2>1
  <2>2. CASE d # c
    <3>1. d \in ticking /\ d \in Crons /\ owner'[d] = owner[d] /\ owner[d] \in IDs
      BY <1>1, <1>2, <1>5, <2>2 DEF RegistryOK, Inv, CronsAreOwned
    <3>2. owner[d] # id
      BY <1>3, <3>1
    <3>. QED  BY <1>3, <1>4, <3>1, <3>2 DEF Inv, OnlyTrackedTicks
  <2>. QED  BY <2>1, <2>2
<1>18. GaugesAgree'
  <2>. SUFFICES ASSUME \A i \in IDs : touched'[i] \subseteq {"rescheduled"}
                PROVE  /\ total' = Cardinality(schedules')
                       /\ active' = Cardinality(On')
    BY GaugesMean DEF GaugesOfSets
  <2>1. ~again /\ id \notin schedules
    BY <1>3, <1>6
  <2>2. total = Cardinality(schedules) /\ active = Cardinality(On)
    BY <1>3, <2>1, GaugesMean DEF Inv, GaugesOfSets
  <2>3. id \notin On /\ On' = IF on THEN On \cup {id} ELSE On
    BY <1>1, <1>4, <2>1 DEF On, RegistryOK
  <2>4. /\ Cardinality(schedules') = Cardinality(schedules) + 1
        /\ Cardinality(On') = IF on THEN Cardinality(On) + 1 ELSE Cardinality(On)
    BY <1>1, <2>1, <2>3, GaugesCount, SizeWithOneMore
  <2>. QED  BY <2>2, <2>4, GaugesCount DEF AddSchedule, One
<1>19. HistoryAgrees'
  <2>. SUFFICES ASSUME NEW i \in schedules', "readded" \notin touched'[i]
       PROVE  \/ /\ i \in schedules /\ "readded" \notin touched[i]
                 /\ open'[i] = open[i] /\ runCount'[i] = runCount[i]
                 /\ success'[i] = success[i] /\ failure'[i] = failure[i]
                 /\ unloaded'[i] = unloaded[i]
              \/ /\ open'[i] = {} /\ runCount'[i] = 0 /\ success'[i] = 0
                 /\ failure'[i] = 0 /\ unloaded'[i] = 0
                 /\ Running(i) = {} /\ Uncounted(i) = {}
    BY <1>2, <1>8, HistoryKept DEF RegistryOK
  <2>1. CASE i = id
    <3>1. \A g \in Goroutines : cron[g] # NoCron => Of(g) # id
      BY <1>2, <1>3, <2>1 DEF Inv, CronsAreOwned, Of
    <3>2. Running(i) = {} /\ Uncounted(i) = {}
      BY <2>1, <3>1 DEF Running, Uncounted
    <3>. QED  BY <1>4, <1>7, <2>1, <3>2
  <2>2. CASE i # id
    <3>1. i \in schedules /\ i \in IDs
      BY <1>1, <2>2 DEF RegistryOK
    <3>. QED  BY <1>3, <1>4, <1>7, <2>2, <3>1
  <2>. QED  BY <2>1, <2>2
<1>. QED  BY <1>11, <1>12, <1>13, <1>14, <1>15, <1>16, <1>17, <1>18, <1>19
          DEF Inv

LEMMA RemoveScheduleInv ==
  ASSUME Inv, NEW id \in IDs, RemoveSchedule(id)
  PROVE  Inv'
<1>. USE SchedulerAssumption
<1>1. /\ RegistryOK /\ HistoryOK /\ RestOK
      /\ id \in schedules /\ schedules' = schedules \ {id}
      /\ UNCHANGED <<owner, threads, stopped, touched>>
      /\ ticking' = ticking \ {cronJobs[id]}
  BY TypeParts DEF Inv, RemoveSchedule, CronStopped, Deleted
<1>2. /\ enabled' \in [IDs -> BOOLEAN]
      /\ runCount' \in [IDs -> Nat] /\ runCount'[id] = 0
      /\ cronJobs' \in [IDs -> Crons \cup {NoCron}] /\ cronJobs'[id] = NoCron
      /\ \A i \in IDs : i # id =>
           /\ enabled'[i] = enabled[i] /\ runCount'[i] = runCount[i]
           /\ cronJobs'[i] = cronJobs[i]
  BY <1>1 DEF RegistryOK, RemoveSchedule, Deleted, Set
<1>3. /\ HistoryOK'
      /\ \A i \in IDs : i # id =>
           /\ open'[i] = open[i] /\ success'[i] = success[i]
           /\ failure'[i] = failure[i] /\ unloaded'[i] = unloaded[i]
  BY <1>1 DEF HistoryOK, RemoveSchedule, HistoryDropped, Set
<1>4. RegistryOK'
  <2>1. total' \in Int /\ active' \in Int
    BY <1>1 DEF RegistryOK, RemoveSchedule, One
  <2>2. \A i \in IDs : cronJobs'[i] # NoCron <=> i \in schedules'
    BY <1>1, <1>2 DEF RegistryOK
  <2>3. \A i \in schedules' : owner'[cronJobs'[i]] = i
    BY <1>1, <1>2 DEF RegistryOK
  <2>. QED  BY <1>1, <1>2, <2>1, <2>2, <2>3 DEF RegistryOK
<1>5. IsFiniteSet(schedules')
  BY <1>1, FS_RemoveElement DEF Inv, FinitelyMany
<1>6. /\ \A g \in Goroutines : Of(g)' = Of(g)
      /\ \A d \in ticking' : d \in ticking /\ owner'[d] \in IDs
  BY <1>1 DEF Inv, CronsAreOwned, Of, threads
<1>7. ThreadsOK' /\ CronsAreOwned' /\ RunsAreSerial' /\ FinitelyMany'
  BY <1>1, <1>5, <1>6, ThreadsKept
<1>8. TypeOK'
  BY <1>1, <1>3, <1>4, <1>7, TypeParts DEF RestOK
<1>9. OneCronEach'
  BY <1>1 DEF Inv, OneCronEach, Untouched
<1>10. RunsLeft'
  <2>. SUFFICES ASSUME MaxRuns > 0, NEW h \in Goroutines, pc[h] \in AtWork,
                       Of(h) \in schedules', Untouched(Of(h))
                PROVE  runCount'[Of(h)] < MaxRuns
    BY <1>1, <1>6 DEF RunsLeft, Untouched, threads
  <2>. QED  BY <1>1, <1>2 DEF Inv, RunsLeft, RegistryOK
<1>11. RunsBounded'
  <2>. SUFFICES ASSUME MaxRuns > 0, NEW i \in IDs, Untouched(i)
                PROVE  runCount'[i] <= MaxRuns
    BY <1>1 DEF RunsBounded, Untouched
  <2>. QED  BY <1>2 DEF Inv, RunsBounded
<1>12. EnabledIsTicking'
  <2>. SUFFICES ASSUME ~stopped, NEW i \in schedules', Untouched(i)
                PROVE  cronJobs'[i] \in ticking' <=> enabled'[i]
    BY <1>1 DEF EnabledIsTicking, Untouched
  <2>1. i # id /\ i \in schedules /\ i \in IDs
    BY <1>1 DEF RegistryOK
  <2>2. cronJobs[i] # cronJobs[id]
    BY <1>1, <2>1 DEF RegistryOK
  <2>. QED  BY <1>1, <1>2, <2>1, <2>2 DEF Inv, EnabledIsTicking
<1>13. OnlyTrackedTicks'
  <2>. SUFFICES ASSUME NEW d \in ticking', "readded" \notin touched[owner[d]]
                PROVE  cronJobs'[owner[d]] = d
    BY <1>1 DEF OnlyTrackedTicks
  <2>1. owner[d] \in IDs /\ cronJobs[owner[d]] = d
    BY <1>1, <1>6 DEF Inv, OnlyTrackedTicks
  <2>2. owner[d] # id
    BY <1>1, <2>1
  <2>. QED  BY <1>2, <2>1, <2>2
<1>14. GaugesAgree'
  <2>. SUFFICES ASSUME \A i \in IDs : touched[i] \subseteq {"rescheduled"}
                PROVE  /\ total' = Cardinality(schedules')
                       /\ active' = Cardinality(On')
    BY <1>1, GaugesMean DEF GaugesOfSets
  <2>1. total = Cardinality(schedules) /\ active = Cardinality(On)
    BY GaugesMean DEF Inv, GaugesOfSets
  <2>2. Cardinality(schedules') = Cardinality(schedules) - 1
    BY <1>1, GaugesCount, SizeWithOneLess
  <2>3. /\ id \in On <=> enabled[id]
        /\ On' = IF enabled[id] THEN On \ {id} ELSE On
    BY <1>1, <1>2 DEF On, RegistryOK
  <2>4. Cardinality(On') = IF enabled[id] THEN Cardinality(On) - 1
                                          ELSE Cardinality(On)
    BY <2>3, GaugesCount, SizeWithOneLess
  <2>5. /\ total' = total - 1
        /\ active' = active - (IF enabled[id] THEN 1 ELSE 0)
    BY DEF RemoveSchedule, One
  <2>. QED  BY <2>1, <2>2, <2>4, <2>5, GaugesCount
<1>15. HistoryAgrees'
  <2>1. ASSUME NEW i \in schedules', "readded" \notin touched'[i]
        PROVE  /\ i \in schedules /\ "readded" \notin touched[i]
               /\ open'[i] = open[i] /\ runCount'[i] = runCount[i]
               /\ success'[i] = success[i] /\ failure'[i] = failure[i]
               /\ unloaded'[i] = unloaded[i]
    BY <1>1, <1>2, <1>3, <2>1 DEF RegistryOK
  <2>2. schedules' \subseteq IDs
    BY <1>4 DEF RegistryOK
  <2>. QED  BY <1>1, <2>1, <2>2, SetsKept, HistoryKept
<1>. QED  BY <1>7, <1>8, <1>9, <1>10, <1>11, <1>12, <1>13, <1>14, <1>15
          DEF Inv

\* An update, failed or not, and Stop: no schedule comes or goes, and no run
\* is counted.
LEMMA UpdateKeeps ==
  ASSUME Inv, UNCHANGED <<schedules, runCount, history, threads>>,
         \A g \in Goroutines : pc[g] # "idle" => Of(g)' = Of(g),
         \A i \in IDs : Running(i)' = Running(i) /\ Uncounted(i)' = Uncounted(i),
         \A i \in IDs : touched[i] \subseteq touched'[i],
         \A c \in ticking' : owner'[c] \in IDs
  PROVE  /\ ThreadsOK' /\ CronsAreOwned' /\ RunsAreSerial' /\ FinitelyMany'
         /\ RunsLeft' /\ RunsBounded' /\ HistoryAgrees' /\ HistoryOK'
<1>1. IsFiniteSet(schedules') /\ schedules' \subseteq IDs
  BY DEF Inv, FinitelyMany, TypeOK
<1>2. ThreadsOK' /\ CronsAreOwned' /\ RunsAreSerial' /\ FinitelyMany'
  BY <1>1, ThreadsKept
<1>3. RunsLeft'
  <2>. SUFFICES ASSUME MaxRuns > 0, NEW h \in Goroutines, pc[h] \in AtWork,
                       Of(h)' \in schedules, touched'[Of(h)'] = {}
                PROVE  runCount[Of(h)'] < MaxRuns
    BY DEF RunsLeft, Untouched, threads
  <2>1. Of(h)' = Of(h)
    BY DEF AtWork
  <2>2. Of(h) \in IDs
    BY <1>1, <2>1
  <2>. QED  BY <2>1, <2>2 DEF Inv, RunsLeft, Untouched
<1>4. RunsBounded'
  BY DEF Inv, RunsBounded, Untouched
<1>5. HistoryAgrees'
  <2>1. ASSUME NEW i \in schedules', "readded" \notin touched'[i]
        PROVE  /\ i \in schedules /\ "readded" \notin touched[i]
               /\ open'[i] = open[i] /\ runCount'[i] = runCount[i]
               /\ success'[i] = success[i] /\ failure'[i] = failure[i]
               /\ unloaded'[i] = unloaded[i]
    BY <1>1, <2>1 DEF history
  <2>. QED  BY <1>1, <2>1, HistoryKept
<1>6. HistoryOK'
  BY TypeParts DEF Inv, HistoryOK, history
<1>. QED  BY <1>2, <1>3, <1>4, <1>5, <1>6

\* The gauge of the enabled schedules moves with Enabled.
LEMMA OnMoves ==
  ASSUME Inv, NEW id \in schedules, NEW on \in BOOLEAN,
         enabled' = Set(enabled, id, on), schedules' = schedules,
         ActiveMoved(enabled[id], on), total' = total,
         \A i \in IDs : touched[i] \subseteq touched'[i]
  PROVE  GaugesAgree' /\ active' \in Int
<1>. DEFINE was == enabled[id]
<1>1. /\ RegistryOK /\ id \in IDs
      /\ enabled'[id] = on /\ \A i \in IDs : i # id => enabled'[i] = enabled[i]
  BY TypeParts DEF Inv, RegistryOK, Set
<1>2. active' = active + One(on /\ ~was) - One(was /\ ~on) /\ active' \in Int
  BY <1>1 DEF ActiveMoved, One, RegistryOK
<1>3. Cardinality(On') = Cardinality(On) + One(on /\ ~was) - One(was /\ ~on)
  <2>1. id \in On <=> was
    BY DEF On
  <2>2. On' = IF on THEN On \cup {id} ELSE On \ {id}
    BY <1>1 DEF On, RegistryOK
  <2>3. CASE on /\ ~was
    <3>1. Cardinality(On') = Cardinality(On) + 1
      BY <2>1, <2>2, <2>3, GaugesCount, SizeWithOneMore
    <3>. QED  BY <2>3, <3>1, GaugesCount DEF One
  <2>4. CASE was /\ ~on
    <3>1. Cardinality(On') = Cardinality(On) - 1
      BY <2>1, <2>2, <2>4, GaugesCount, SizeWithOneLess
    <3>. QED  BY <2>4, <3>1, GaugesCount DEF One
  <2>5. CASE (on <=> was)
    <3>1. On' = On
      BY <2>1, <2>2, <2>5
    <3>. QED  BY <2>5, <3>1, GaugesCount DEF One
  <2>. QED  BY <2>3, <2>4, <2>5
<1>4. GaugesAgree'
  <2>. SUFFICES ASSUME \A i \in IDs : touched'[i] \subseteq {"rescheduled"}
                PROVE  /\ total' = Cardinality(schedules')
                       /\ active' = Cardinality(On')
    BY GaugesMean DEF GaugesOfSets
  <2>1. \A i \in IDs : touched[i] \subseteq {"rescheduled"}
    OBVIOUS
  <2>2. total = Cardinality(schedules) /\ active = Cardinality(On)
    BY <2>1, GaugesMean DEF Inv, GaugesOfSets
  <2>. QED  BY <1>2, <1>3, <2>2
<1>. QED  BY <1>2, <1>4

LEMMA SetEnabledInv ==
  ASSUME Inv, NEW id \in IDs, NEW on \in BOOLEAN, SetEnabled(id, on)
  PROVE  Inv'
<1>1. /\ RegistryOK /\ RestOK /\ id \in schedules
      /\ UNCHANGED <<schedules, runCount, cronJobs, owner, total, history,
                     threads, stopped, touched>>
      /\ enabled' = Set(enabled, id, on)
      /\ ActiveMoved(enabled[id], on)
  BY TypeParts DEF Inv, SetEnabled
<1>2. /\ enabled' \in [IDs -> BOOLEAN] /\ enabled'[id] = on
      /\ \A i \in IDs : i # id => enabled'[i] = enabled[i]
  BY <1>1 DEF RegistryOK, Set
<1>3. ticking' = CASE on /\ ~enabled[id] -> ticking \cup {cronJobs[id]}
                   [] enabled[id] /\ ~on -> ticking \ {cronJobs[id]}
                   [] OTHER -> ticking
  BY DEF SetEnabled, Started
<1>4. cronJobs[id] \in Crons /\ owner[cronJobs[id]] = id
  BY <1>1 DEF RegistryOK
<1>5. \A c : c \in ticking' => c \in ticking \/ c = cronJobs[id]
  BY <1>3
<1>6. /\ ThreadsOK' /\ CronsAreOwned' /\ RunsAreSerial' /\ FinitelyMany'
      /\ RunsLeft' /\ RunsBounded' /\ HistoryAgrees' /\ HistoryOK'
  <2>1. \A g \in Goroutines : Of(g)' = Of(g)
    BY <1>1 DEF Of, threads
  <2>2. \A c \in ticking' : owner'[c] \in IDs
    BY <1>1, <1>4, <1>5 DEF Inv, CronsAreOwned
  <2>. QED  BY <1>1, <2>1, <2>2, SetsKept, UpdateKeeps
<1>7. GaugesAgree' /\ active' \in Int
  BY <1>1, OnMoves
<1>8. TypeOK'
  <2>1. ticking' \in SUBSET Crons
    BY <1>1, <1>4, <1>5 DEF RegistryOK
  <2>2. RegistryOK'
    BY <1>1, <1>2, <1>7, <2>1 DEF RegistryOK
  <2>. QED  BY <1>1, <1>6, <2>2, TypeParts DEF RestOK
<1>9. OneCronEach'
  BY <1>1 DEF Inv, OneCronEach, Untouched
<1>10. OnlyTrackedTicks'
  BY <1>1, <1>4, <1>5 DEF Inv, OnlyTrackedTicks
<1>11. EnabledIsTicking'
  <2>. SUFFICES ASSUME ~stopped, NEW i \in schedules, Untouched(i)
                PROVE  cronJobs[i] \in ticking' <=> enabled'[i]
    BY <1>1 DEF EnabledIsTicking, Untouched
  <2>1. cronJobs[i] \in ticking <=> enabled[i]
    BY DEF Inv, EnabledIsTicking
  <2>2. CASE i = id
    BY <1>2, <1>3, <2>1, <2>2
  <2>3. CASE i # id
    <3>1. i \in IDs /\ cronJobs[i] # cronJobs[id]
      BY <1>1, <1>4, <2>3 DEF RegistryOK
    <3>. QED  BY <1>2, <1>3, <2>1, <2>3, <3>1
  <2>. QED  BY <2>2, <2>3
<1>. QED  BY <1>6, <1>7, <1>8, <1>9, <1>10, <1>11 DEF Inv

LEMMA RescheduleInv ==
  ASSUME Inv, NEW id \in IDs, NEW c \in Crons, NEW on \in BOOLEAN,
         Reschedule(id, c, on)
  PROVE  Inv'
<1>. USE SchedulerAssumption
<1>1. /\ RegistryOK /\ RestOK /\ id \in schedules
      /\ UNCHANGED <<schedules, runCount, total, history, threads, stopped>>
      /\ owner[c] = NoID /\ owner' = Set(owner, c, id)
      /\ enabled' = Set(enabled, id, on)
      /\ ActiveMoved(enabled[id], on)
      /\ Touch(id, "rescheduled") /\ "rescheduled" \in Touches
  BY TypeParts DEF Inv, Reschedule, Touches
<1>2. /\ \A d \in Crons : owner'[d] = IF d = c THEN id ELSE owner[d]
      /\ owner' \in [Crons -> IDs \cup {NoID}]
      /\ c \notin ticking /\ c # NoCron
      /\ \A i \in IDs : cronJobs[i] # c
      /\ \A g \in Goroutines :
           pc[g] # "idle" => cron[g] \in Crons /\ cron[g] # c /\ Of(g)' = Of(g)
      /\ \A i \in IDs : Running(i)' = Running(i) /\ Uncounted(i)' = Uncounted(i)
  BY <1>1, NewCron
<1>3. /\ enabled' \in [IDs -> BOOLEAN]
      /\ cronJobs' \in [IDs -> Crons \cup {NoCron}] /\ cronJobs'[id] = c
      /\ \A i \in IDs : i # id => /\ enabled'[i] = enabled[i]
                                  /\ cronJobs'[i] = cronJobs[i]
  BY <1>1 DEF RegistryOK, Reschedule, Set
<1>4. \A d : d \in ticking' <=> \/ d \in ticking /\ d # cronJobs[id]
                                \/ d = c /\ on /\ ~enabled[id]
  BY DEF Reschedule
<1>5. /\ touched' \in [IDs -> SUBSET Touches]
      /\ touched'[id] # {} /\ touched[id] \subseteq touched'[id]
      /\ \A i \in IDs : i # id => touched'[i] = touched[i]
  <2>1. /\ touched' \in [IDs -> SUBSET Touches]
        /\ \A i \in IDs : touched'[i] =
             IF i = id THEN touched[i] \cup {"rescheduled"} ELSE touched[i]
    BY <1>1, TouchGrows
  <2>. QED  BY <2>1
<1>6. \A i \in IDs : touched[i] \subseteq touched'[i]
  BY <1>5
<1>7. \A d \in ticking' : owner'[d] \in IDs
  <2>1. \A d \in ticking : d \in Crons /\ owner[d] \in IDs
    BY <1>1 DEF RegistryOK, Inv, CronsAreOwned
  <2>. QED  BY <1>2, <1>4, <2>1
<1>8. /\ ThreadsOK' /\ CronsAreOwned' /\ RunsAreSerial' /\ FinitelyMany'
      /\ RunsLeft' /\ RunsBounded' /\ HistoryAgrees' /\ HistoryOK'
  BY <1>1, <1>2, <1>6, <1>7, UpdateKeeps
<1>9. GaugesAgree' /\ active' \in Int
  BY <1>1, <1>6, OnMoves
<1>10. TypeOK'
  <2>1. ticking' \in SUBSET Crons
    BY <1>1, <1>4 DEF RegistryOK
  <2>2. \A i \in IDs : cronJobs'[i] # NoCron <=> i \in schedules'
    BY <1>1, <1>2, <1>3 DEF RegistryOK
  <2>3. ASSUME NEW i \in schedules' PROVE owner'[cronJobs'[i]] = i
    <3>1. CASE i = id
      BY <1>2, <1>3, <3>1
    <3>2. CASE i # id
      <4>1. i \in IDs /\ cronJobs[i] \in Crons /\ owner[cronJobs[i]] = i
        BY <1>1, <2>3 DEF RegistryOK
      <4>. QED  BY <1>2, <1>3, <3>2, <4>1
    <3>. QED  BY <3>1, <3>2
  <2>4. RegistryOK'
    BY <1>1, <1>2, <1>3, <1>9, <2>1, <2>2, <2>3 DEF RegistryOK
  <2>. QED  BY <1>1, <1>5, <1>8, <2>4, TypeParts DEF RestOK
<1>11. OneCronEach'
  <2>. SUFFICES ASSUME NEW i \in IDs, touched'[i] = {}, NEW d \in Crons,
                       NEW e \in Crons, owner'[d] = i, owner'[e] = i
                PROVE  d = e
    BY DEF OneCronEach, Untouched
  <2>1. i # id /\ touched[i] = {}
    BY <1>5
  <2>. QED  BY <1>2, <2>1 DEF Inv, OneCronEach, Untouched
<1>12. EnabledIsTicking'
  <2>. SUFFICES ASSUME ~stopped, NEW i \in schedules, touched'[i] = {}
                PROVE  cronJobs'[i] \in ticking' <=> enabled'[i]
    BY <1>1 DEF EnabledIsTicking, Untouched
  <2>1. i \in IDs /\ i # id /\ touched[i] = {}
    BY <1>1, <1>5 DEF RegistryOK
  <2>2. cronJobs[i] # cronJobs[id] /\ cronJobs[i] # c
    BY <1>1, <1>2, <2>1 DEF RegistryOK
  <2>3. cronJobs[i] \in ticking <=> enabled[i]
    BY <2>1 DEF Inv, EnabledIsTicking, Untouched
  <2>. QED  BY <1>3, <1>4, <2>1, <2>2, <2>3
<1>13. OnlyTrackedTicks'
  <2>. SUFFICES ASSUME NEW d \in ticking', "readded" \notin touched'[owner'[d]]
                PROVE  cronJobs'[owner'[d]] = d
    BY DEF OnlyTrackedTicks
  <2>1. CASE d = c
    BY <1>2, <1>3, <2>1
  <2>2. CASE d # c
    <3>1. /\ d \in ticking /\ d \in Crons /\ d # cronJobs[id]
          /\ owner'[d] = owner[d] /\ owner[d] \in IDs
      BY <1>1, <1>2, <1>4, <2>2 DEF RegistryOK, Inv, CronsAreOwned
    <3>2. cronJobs[owner[d]] = d
      BY <1>6, <3>1 DEF Inv, OnlyTrackedTicks
    <3>. QED  BY <1>3, <3>1, <3>2
  <2>. QED  BY <2>1, <2>2
<1>. QED  BY <1>8, <1>9, <1>10, <1>11, <1>12, <1>13 DEF Inv

LEMMA RescheduleFailsInv ==
  ASSUME Inv, NEW id \in IDs, NEW on \in BOOLEAN, RescheduleFails(id, on)
  PROVE  Inv'
<1>1. /\ RegistryOK /\ RestOK /\ id \in schedules
      /\ UNCHANGED <<schedules, runCount, cronJobs, owner, total, active,
                     history, threads, stopped>>
      /\ enabled' = Set(enabled, id, on)
      /\ Touch(id, "failedUpdate") /\ "failedUpdate" \in Touches
  BY TypeParts DEF Inv, RescheduleFails, Touches
<1>2. /\ enabled' \in [IDs -> BOOLEAN]
      /\ \A i \in IDs : i # id => enabled'[i] = enabled[i]
  BY <1>1 DEF RegistryOK, Set
<1>3. ticking' = ticking \/ ticking' = ticking \ {cronJobs[id]}
  BY DEF RescheduleFails, CronStopped
<1>4. /\ touched' \in [IDs -> SUBSET Touches]
      /\ "failedUpdate" \in touched'[id]
      /\ \A i \in IDs : i # id => touched'[i] = touched[i]
      /\ \A i \in IDs : touched[i] \subseteq touched'[i]
  <2>1. /\ touched' \in [IDs -> SUBSET Touches]
        /\ \A i \in IDs : touched'[i] =
             IF i = id THEN touched[i] \cup {"failedUpdate"} ELSE touched[i]
    BY <1>1, TouchGrows
  <2>. QED  BY <2>1
<1>5. \A d \in ticking' : d \in ticking /\ owner[d] \in IDs
  BY <1>3 DEF Inv, CronsAreOwned
<1>6. /\ ThreadsOK' /\ CronsAreOwned' /\ RunsAreSerial' /\ FinitelyMany'
      /\ RunsLeft' /\ RunsBounded' /\ HistoryAgrees' /\ HistoryOK'
  <2>1. \A g \in Goroutines : Of(g)' = Of(g)
    BY <1>1 DEF Of, threads
  <2>. QED  BY <1>1, <1>4, <1>5, <2>1, SetsKept, UpdateKeeps
<1>7. GaugesAgree'
  <2>1. ~(\A i \in IDs : touched'[i] \subseteq {"rescheduled"})
    BY <1>4
  <2>. QED  BY <2>1, GaugesMean DEF GaugesOfSets
<1>8. TypeOK'
  <2>1. RegistryOK'
    BY <1>1, <1>2, <1>5 DEF RegistryOK
  <2>. QED  BY <1>1, <1>4, <1>6, <2>1, TypeParts DEF RestOK
<1>9. OneCronEach'
  <2>1. \A i \in IDs : touched'[i] = {} => touched[i] = {}
    BY <1>4
  <2>. QED  BY <1>1, <2>1 DEF Inv, OneCronEach, Untouched
<1>10. EnabledIsTicking'
  <2>. SUFFICES ASSUME ~stopped, NEW i \in schedules, touched'[i] = {}
                PROVE  cronJobs[i] \in ticking' <=> enabled'[i]
    BY <1>1 DEF EnabledIsTicking, Untouched
  <2>1. i \in IDs /\ i # id /\ touched[i] = {}
    BY <1>1, <1>4 DEF RegistryOK
  <2>2. cronJobs[i] # cronJobs[id]
    BY <1>1, <2>1 DEF RegistryOK
  <2>3. cronJobs[i] \in ticking <=> enabled[i]
    BY <2>1 DEF Inv, EnabledIsTicking, Untouched
  <2>. QED  BY <1>2, <1>3, <2>1, <2>2, <2>3
<1>11. OnlyTrackedTicks'
  BY <1>1, <1>4, <1>5 DEF Inv, OnlyTrackedTicks
<1>. QED  BY <1>6, <1>7, <1>8, <1>9, <1>10, <1>11 DEF Inv

LEMMA StopInv ==
  ASSUME Inv, Stop
  PROVE  Inv'
<1>1. /\ RegistryOK /\ RestOK /\ stopped'
      /\ UNCHANGED <<schedules, enabled, runCount, cronJobs, owner, total,
                     active, history, threads, touched>>
      /\ ticking' \subseteq ticking
  BY TypeParts DEF Inv, Stop
<1>2. \A d \in ticking' : d \in ticking /\ owner[d] \in IDs
  BY <1>1 DEF Inv, CronsAreOwned
<1>3. /\ ThreadsOK' /\ CronsAreOwned' /\ RunsAreSerial' /\ FinitelyMany'
      /\ RunsLeft' /\ RunsBounded' /\ HistoryAgrees' /\ HistoryOK'
  <2>1. \A g \in Goroutines : Of(g)' = Of(g)
    BY <1>1 DEF Of, threads
  <2>. QED  BY <1>1, <1>2, <2>1, SetsKept, UpdateKeeps
<1>4. GaugesAgree'
  <2>1. On' = On
    BY <1>1 DEF On
  <2>. QED  BY <1>1, <2>1, GaugesMean DEF Inv, GaugesOfSets
<1>5. TypeOK'
  <2>1. RegistryOK'
    BY <1>1, <1>2 DEF RegistryOK
  <2>2. RestOK'
    <3>1. stopped' = TRUE
      BY DEF Stop
    <3>. QED  BY <1>1, <3>1 DEF RestOK
  <2>. QED  BY <1>3, <2>1, <2>2, TypeParts
<1>6. OneCronEach' /\ OnlyTrackedTicks'
  BY <1>1, <1>2 DEF Inv, OneCronEach, OnlyTrackedTicks, Untouched
<1>7. EnabledIsTicking'
  BY <1>1 DEF EnabledIsTicking
<1>. QED  BY <1>3, <1>4, <1>5, <1>6, <1>7 DEF Inv

----------------------------------------------------------------------------
LEMMA UnchangedInv ==
  ASSUME Inv, UNCHANGED vars
  PROVE  Inv'
<1>1. UNCHANGED <<registry, history, threads, stopped, touched>>
  BY DEF vars
<1>2. OneCronEach' /\ EnabledIsTicking' /\ OnlyTrackedTicks' /\ GaugesAgree'
  BY <1>1, RegistryKept DEF registry
<1>3. /\ ThreadsOK' /\ CronsAreOwned' /\ RunsAreSerial' /\ FinitelyMany'
      /\ RunsLeft' /\ RunsBounded' /\ HistoryAgrees' /\ HistoryOK'
  <2>1. /\ \A g \in Goroutines : Of(g)' = Of(g)
        /\ \A c \in ticking' : owner'[c] \in IDs
    BY <1>1 DEF Inv, CronsAreOwned, Of, threads, registry
  <2>. QED  BY <1>1, <2>1, SetsKept, UpdateKeeps DEF registry
<1>4. TypeOK'
  BY <1>1, <1>3, OtherTypes, TypeParts
<1>. QED  BY <1>2, <1>3, <1>4 DEF Inv

LEMMA NextInv == Inv /\ [Next]_vars => Inv'
<1>. SUFFICES ASSUME Inv, [Next]_vars PROVE Inv'
  OBVIOUS
<1>1. ASSUME NEW id \in IDs, RemoveSchedule(id) PROVE Inv'
  BY <1>1, RemoveScheduleInv
<1>2. ASSUME NEW id \in IDs, NEW on \in BOOLEAN,
             SetEnabled(id, on) \/ RescheduleFails(id, on)
      PROVE  Inv'
  BY <1>2, SetEnabledInv, RescheduleFailsInv
<1>3. ASSUME NEW id \in IDs, NEW on \in BOOLEAN, NEW c \in Crons,
             AddSchedule(id, c, on) \/ Reschedule(id, c, on)
      PROVE  Inv'
  BY <1>3, AddScheduleInv, RescheduleInv
<1>4. CASE Stop
  BY <1>4, StopInv
<1>5. ASSUME NEW g \in Goroutines, NEW c \in Crons, Tick(c, g) PROVE Inv'
  BY <1>5, TickInv
<1>6. ASSUME NEW g \in Goroutines, Goroutine(g) PROVE Inv'
  <2>1. ASSUME NEW v \in Verdicts, RunEnds(g, v) PROVE Inv'
    BY <2>1, RunEndsInv
  <2>. QED  BY <1>6, <2>1, CheckRefusesInv, CheckPassesInv, AddRecordInv,
               LoadFailsInv, RunPanicsInv, CompleteRecordInv, CountRunInv
            DEF Goroutine
<1>7. CASE UNCHANGED vars
  BY <1>7, UnchangedInv
<1>. QED  BY <1>1, <1>2, <1>3, <1>4, <1>5, <1>6, <1>7 DEF Next

\* The scheduler keeps its inductive invariant, whatever the handlers call
\* between the steps of its goroutines.
THEOREM Invariance == Spec => []Inv
BY InitInv, NextInv, PTL DEF Spec

\* Every variable has its type, and every schedule exactly one tracked cron,
\* made for it (scheduler.go:15-27, registry.go:42-43, 69-74, 135-139).
THEOREM TypeCorrect == Spec => []TypeOK
<1>1. Inv => TypeOK
  BY DEF Inv
<1>. QED  BY <1>1, Invariance, PTL

\* A schedule that is only enabled, disabled and removed runs at most MaxRuns
\* times, though the check and the count are apart (executor.go:23, 78-80).
THEOREM NoRunTooMany == Spec => []RunsBounded
<1>1. Inv => RunsBounded
  BY DEF Inv
<1>. QED  BY <1>1, Invariance, PTL

\* Until the scheduler is stopped the cron of such a schedule ticks exactly
\* while it is enabled (registry.go:37-39, 148-155).
THEOREM TicksWhileEnabled == Spec => []EnabledIsTicking
<1>1. Inv => EnabledIsTicking
  BY DEF Inv
<1>. QED  BY <1>1, Invariance, PTL

\* A cron that is not tracked ticks only for an id that was added twice
\* (registry.go:69-75, 131-139).
THEOREM UntrackedIsSilent == Spec => []OnlyTrackedTicks
<1>1. Inv => OnlyTrackedTicks
  BY DEF Inv
<1>. QED  BY <1>1, Invariance, PTL

\* The gauges agree with the registry while no update fails and no id is added
\* twice (registry.go:48-53, 77-82, 148-159).
THEOREM GaugesRight == Spec => []GaugesAgree
<1>1. Inv => GaugesAgree
  BY DEF Inv
<1>. QED  BY <1>1, Invariance, PTL

\* As long as no history is truncated, records and counters agree with RunCount,
\* with the goroutines under way and with the runs that panicked, for any number
\* of them, also when the schedule is removed, rescheduled or badly updated
\* during a run (executor.go:38-80, history.go:42-94, registry.go:212-215).
THEOREM HistoryRight ==
  ASSUME MaxTicks <= HistoryLimit
  PROVE  Spec => []HistoryAgrees
<1>1. Inv => HistoryAgrees
  BY DEF Inv
<1>. QED  BY <1>1, Invariance, PTL
=============================================================================
