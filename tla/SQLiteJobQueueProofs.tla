------------------------ MODULE SQLiteJobQueueProofs ------------------------
(***************************************************************************)
(* Proofs about SQLiteJobQueue for any set of jobs, any set of workers,    *)
(* any capacity and retry limit, any number of crashes and restarts, and   *)
(* with or without failing statements.                                     *)
(***************************************************************************)
EXTENDS SQLiteJobQueue, TLAPS, SequenceTheorems, FiniteSetTheorems

\* A send keeps the ids in the channel distinct when the id is new to it.
LEMMA SentOnce ==
  ASSUME NEW S, NEW s \in Seq(S), NEW e \in S, IsInjective(s), e \notin ToSet(s)
  PROVE  /\ Append(s, e) \in Seq(S)
         /\ Len(Append(s, e)) = Len(s) + 1
         /\ ToSet(Append(s, e)) = ToSet(s) \cup {e}
         /\ IsInjective(Append(s, e))
  BY AppendProperties DEF ToSet, IsInjective

\* A receive takes the head, and nothing else, from a channel of distinct ids.
LEMMA HeadTaken ==
  ASSUME NEW S, NEW s \in Seq(S), s # <<>>, IsInjective(s)
  PROVE  /\ Head(s) \in S
         /\ Tail(s) \in Seq(S)
         /\ Len(Tail(s)) < Len(s)
         /\ Head(s) \in ToSet(s)
         /\ ToSet(Tail(s)) \subseteq ToSet(s) \ {Head(s)}
         /\ IsInjective(Tail(s))
<1>1. /\ Head(s) \in S /\ Tail(s) \in Seq(S) /\ Len(Tail(s)) = Len(s) - 1
      /\ \A i \in 1..Len(Tail(s)) : Tail(s)[i] = s[i+1]
  BY HeadTailProperties
<1>2. /\ Len(s) \in Nat \ {0} /\ Head(s) = s[1]
      /\ DOMAIN s = 1..Len(s) /\ DOMAIN Tail(s) = 1..Len(Tail(s))
  BY <1>1
<1>3. IsInjective(Tail(s))
  BY <1>1, <1>2 DEF IsInjective
<1>4. ASSUME NEW e \in ToSet(Tail(s)) PROVE e \in ToSet(s) \ {Head(s)}
  BY <1>1, <1>2 DEF ToSet, IsInjective
<1>5. Head(s) \in ToSet(s) /\ Len(Tail(s)) < Len(s)
  BY <1>1, <1>2 DEF ToSet
<1>. QED  BY <1>1, <1>3, <1>4, <1>5

\* What a recovery loads: distinct rows, as many as the channel holds.
LEMMA LoadedOnce ==
  ASSUME NEW S, IsFiniteSet(S), NEW order \in SetToSeqs(S)
  PROVE  /\ Load(order) \in Seq(S)
         /\ Len(Load(order)) <= BufferSize
         /\ IsInjective(Load(order))
<1>. DEFINE n == Cardinality(S)
            m == Min({n, BufferSize})
<1>1. n \in Nat
  BY FS_CardinalityType
<1>2. order \in [1..n -> S] /\ \A i, k \in 1..n : i # k => order[i] # order[k]
  BY DEF SetToSeqs
<1>3. Len(order) = n
  BY <1>1, <1>2
<1>4. m \in Nat /\ m <= n /\ m <= BufferSize
  <2>1. \E x \in {n, BufferSize} : \A y \in {n, BufferSize} : x =< y
    BY <1>1, QueueAssumption
  <2>2. m \in {n, BufferSize} /\ \A y \in {n, BufferSize} : m =< y
    BY <2>1 DEF Min
  <2>. QED  BY <1>1, <2>2, QueueAssumption
<1>5. Load(order) = SubSeq(order, 1, m)
  BY <1>3 DEF Load
<1>6. order \in Seq(S) /\ m \in 0..Len(order)
  BY <1>1, <1>2, <1>3, <1>4
<1>7. /\ SubSeq(order, 1, m) \in Seq(S)
      /\ Len(SubSeq(order, 1, m)) = m
      /\ \A i \in 1..m : SubSeq(order, 1, m)[i] = order[i]
  <2>. HIDE DEF m
  <2>. QED  BY <1>6
<1>8. IsInjective(SubSeq(order, 1, m))
  BY <1>1, <1>2, <1>4, <1>7 DEF IsInjective
<1>. QED  BY <1>4, <1>5, <1>7, <1>8

----------------------------------------------------------------------------
\* The initial state satisfies the invariant.
LEMMA InitInv == Init => Inv
<1>. SUFFICES ASSUME Init PROVE Inv
  OBVIOUS
<1>. USE QueueAssumption DEF Init, PoolInit
<1>1. TypeOK
  <2>1. jobs \in Seq(JobIDs) /\ Len(jobs) <= BufferSize
    OBVIOUS
  <2>2. /\ retryCount \in [JobIDs -> 0..MaxRetries]
        /\ rowRetries \in [JobIDs -> 0..MaxRetries]
    OBVIOUS
  <2>3. PoolTypeOK /\ wjob \in [Workers -> JobIDs \cup {NoJob}]
    BY DEF PoolTypeOK, Places
  <2>4. rowStatus \in [JobIDs -> RowStatuses] /\ runs \in [JobIDs -> Nat]
    BY DEF RowStatuses
  <2>5. /\ reply \in [JobIDs -> {"none", "accepted", "refused"}]
        /\ restarts \in 0..MaxRestarts
    OBVIOUS
  <2>6. /\ up \in BOOLEAN /\ closed \in BOOLEAN
        /\ pending = {} /\ running = {} /\ missed = {}
    OBVIOUS
  <2>. HIDE DEF Init
  <2>. QED  BY <2>1, <2>2, <2>3, <2>4, <2>5, <2>6 DEF TypeOK
<1>2. MemoryMatchesTable
  BY DEF MemoryMatchesTable
<1>3. AcceptedIsDurable /\ OnlyExhaustedJobsFail
  BY DEF AcceptedIsDurable, OnlyExhaustedJobsFail, Accepted
<1>4. OneWorkerPerJob
  BY DEF OneWorkerPerJob, InChannel, InTransit, Held, Holding, ToSet, IsInjective
<1>5. HandsMatch /\ StoppedIsIdle /\ DownIsEmpty
  BY DEF HandsMatch, StoppedIsIdle, DownIsEmpty, Holding
<1>6. RowlessIsFresh
  <2>1. Stored = {}
    BY DEF Stored
  <2>. QED  BY <2>1, FS_EmptySet DEF RowlessIsFresh
<1>7. RunsCounted
  BY DEF RunsCounted
<1>. QED  BY <1>1, <1>2, <1>3, <1>4, <1>5, <1>6, <1>7 DEF Inv

----------------------------------------------------------------------------
(* Lemmas shared by the steps.                                             *)

\* A job is never in both maps.
LEMMA OneMap ==
  ASSUME Inv
  PROVE  pending \cap running = {}
<1>1. CASE up
  BY <1>1 DEF Inv, MemoryMatchesTable
<1>2. CASE ~up
  BY <1>2 DEF Inv, DownIsEmpty
<1>. QED  BY <1>1, <1>2

\* A worker that has not left its loop belongs to a process that is up.
LEMMA WorkerIsUp ==
  ASSUME Inv, NEW w \in Workers, wpc[w] # "exited"
  PROVE  up /\ phase # "stopped"
  BY DEF Inv, StoppedIsIdle, DownIsEmpty, AllExited, TypeOK

\* What is known of a job in the running map.
LEMMA RunningJob ==
  ASSUME Inv, NEW j \in running
  PROVE  /\ j \in JobIDs /\ up
         /\ j \notin pending /\ j \notin InChannel
         /\ Accepted(j) /\ rowStatus[j] = "running"
         /\ retryCount[j] = rowRetries[j]
         /\ rowRetries[j] \in Nat /\ rowRetries[j] < MaxRetries
<1>1. j \in JobIDs /\ up
  BY DEF Inv, TypeOK, DownIsEmpty
<1>2. j \notin pending /\ j \notin InChannel
  BY OneMap DEF Inv, OneWorkerPerJob
<1>3. rowStatus[j] = "running" /\ retryCount[j] = rowRetries[j]
  BY <1>1 DEF Inv, MemoryMatchesTable
<1>4. Accepted(j)
  BY <1>1, <1>3 DEF Inv, AcceptedIsDurable
<1>5. rowRetries[j] \in 0..MaxRetries /\ rowRetries[j] # MaxRetries
  BY <1>1, <1>3 DEF Inv, TypeOK, OnlyExhaustedJobsFail
<1>6. rowRetries[j] \in Nat /\ rowRetries[j] < MaxRetries
  BY <1>5, QueueAssumption
<1>. QED  BY <1>1, <1>2, <1>3, <1>4, <1>6

\* A step that leaves the table, the replies and the counters alone.
LEMMA TableKept ==
  ASSUME Inv, UNCHANGED <<rowStatus, rowRetries, reply, runs, restarts>>
  PROVE  /\ AcceptedIsDurable' /\ OnlyExhaustedJobsFail' /\ RunsCounted'
         /\ Stored' = Stored
  BY DEF Inv, AcceptedIsDurable, OnlyExhaustedJobsFail, RunsCounted, Stored,
         Accepted

\* A send that drops the id when the channel is full.
LEMMA SentIfRoom ==
  ASSUME Inv, NEW j \in JobIDs, j \notin InChannel,
         jobs' = IF Full THEN jobs ELSE Append(jobs, j)
  PROVE  /\ jobs' \in Seq(JobIDs) /\ Len(jobs') <= BufferSize /\ IsInjective(jobs')
         /\ InChannel' \subseteq InChannel \cup {j}
<1>1. CASE Full
  BY <1>1 DEF Inv, TypeOK, OneWorkerPerJob, InChannel
<1>2. CASE ~Full
  <2>1. /\ Append(jobs, j) \in Seq(JobIDs) /\ Len(Append(jobs, j)) = Len(jobs) + 1
        /\ ToSet(Append(jobs, j)) = ToSet(jobs) \cup {j}
        /\ IsInjective(Append(jobs, j))
    BY <1>2, SentOnce DEF Inv, TypeOK, OneWorkerPerJob, InChannel
  <2>2. Len(jobs) + 1 <= BufferSize
    BY <1>2, QueueAssumption DEF Full, Inv, TypeOK
  <2>. QED  BY <1>2, <2>1, <2>2 DEF InChannel
<1>. QED  BY <1>1, <1>2

\* Worker w gives its job back (Ack, Nack, or a failed one), whatever becomes
\* of the job: what that does to the workers.
LEMMA DecideKeepsWorkers ==
  ASSUME Inv, NEW w \in Workers, NEW verdict \in {"ack", "nack"},
         Decide(w, verdict), wjob[w] \in running,
         UNCHANGED <<up, restarts>>
  PROVE  /\ \A k : InTransit(k)' <=> InTransit(k)
         /\ ~InTransit(wjob[w])
         /\ \A v \in Workers : wpc'[v] = "received" <=> wpc[v] = "received"
         /\ \A v \in Workers : wpc[v] = "received" => wjob'[v] = wjob[v]
         /\ \A v \in Workers : Held(v)' => Held(v) /\ wjob'[v] = wjob[v]
                                             /\ wjob[v] # wjob[w]
         /\ \A u, v \in Workers : wjob'[u] = wjob'[v] /\ wjob'[u] # NoJob => u = v
         /\ HandsMatch' /\ StoppedIsIdle' /\ DownIsEmpty'
         /\ PoolTypeOK' /\ wjob' \in [Workers -> JobIDs \cup {NoJob}]
<1>. USE DEF Decide, Goto
<1>. DEFINE j == wjob[w]
<1>1. /\ wpc[w] \in Holding /\ wpc'[w] = "top" /\ wjob'[w] = NoJob
      /\ \A v \in Workers \ {w} : wpc'[v] = wpc[v] /\ wjob'[v] = wjob[v]
  BY DEF Inv, TypeOK, PoolTypeOK, Holding
<1>2. up /\ phase # "stopped" /\ wpc[w] # "received"
  BY <1>1, WorkerIsUp DEF Holding
<1>3. j \in JobIDs /\ j # NoJob
  BY QueueAssumption DEF Inv, TypeOK
<1>4. \A v \in Workers : wjob[v] = j => v = w
  BY <1>3 DEF Inv, OneWorkerPerJob
<1>5. /\ \A v \in Workers : wpc'[v] = "received" <=> wpc[v] = "received"
      /\ \A v \in Workers : wpc[v] = "received" => wjob'[v] = wjob[v]
  BY <1>1, <1>2
<1>6. \A k : InTransit(k)' <=> InTransit(k)
  BY <1>5 DEF InTransit
<1>7. ~InTransit(j)
  BY <1>2, <1>4 DEF InTransit
<1>8. \A v \in Workers : Held(v)' => Held(v) /\ wjob'[v] = wjob[v] /\ wjob[v] # j
  BY <1>1, <1>4 DEF Held, Holding
<1>9. \A u, v \in Workers : wjob'[u] = wjob'[v] /\ wjob'[u] # NoJob => u = v
  BY <1>1 DEF Inv, OneWorkerPerJob
<1>10. HandsMatch'
  BY <1>1 DEF Inv, HandsMatch, Holding
<1>11. StoppedIsIdle' /\ DownIsEmpty'
  BY <1>2 DEF StoppedIsIdle, DownIsEmpty
<1>12. PoolTypeOK' /\ wjob' \in [Workers -> JobIDs \cup {NoJob}]
  BY DEF Inv, TypeOK, PoolTypeOK, Places
<1>. QED  BY <1>5, <1>6, <1>7, <1>8, <1>9, <1>10, <1>11, <1>12

----------------------------------------------------------------------------
(* One lemma per step.                                                     *)

\* A step of the pool alone: no worker starts or stops carrying a job.
LEMMA PoolStepInv ==
  ASSUME Inv, NEW w \in Workers, PoolStep(w)
  PROVE  Inv'
<1>. USE QueueAssumption DEF PoolStep, LoopTop, DequeueTimeout, DequeueCancelled,
                             Execute, Goto, queueVars, table, memory, history
<1>1. /\ wjob' = wjob /\ phase' = phase /\ wpc[w] # "exited"
      /\ \A v \in Workers : /\ Held(v)' <=> Held(v)
                            /\ wpc'[v] = "received" <=> wpc[v] = "received"
                            /\ wpc[v] = "exited" => wpc'[v] = "exited"
  BY DEF Inv, TypeOK, PoolTypeOK, Places, Held, Holding
<1>2. TypeOK'
  BY DEF Inv, TypeOK, PoolTypeOK, Places
<1>3. MemoryMatchesTable' /\ RowlessIsFresh'
  BY DEF Inv, MemoryMatchesTable, RowlessIsFresh, Stored
<1>4. AcceptedIsDurable' /\ OnlyExhaustedJobsFail' /\ RunsCounted'
  BY TableKept
<1>5. OneWorkerPerJob'
  <2>1. \A k : InTransit(k)' <=> InTransit(k)
    BY <1>1 DEF InTransit
  <2>. QED  BY <1>1, <2>1 DEF Inv, OneWorkerPerJob, InChannel
<1>6. HandsMatch'
  BY <1>1 DEF Inv, HandsMatch, Held
<1>7. StoppedIsIdle' /\ DownIsEmpty'
  BY <1>1, WorkerIsUp DEF StoppedIsIdle, DownIsEmpty
<1>. QED  BY <1>2, <1>3, <1>4, <1>5, <1>6, <1>7 DEF Inv

\* An accepted job gets its row, its place in the map and, if there is room,
\* in the channel.
LEMMA EnqueueInsertedInv ==
  ASSUME Inv, NEW j \in JobIDs, EnqueueInserted(j)
  PROVE  Inv'
<1>. USE QueueAssumption DEF EnqueueInserted, TrySend, SetRow, poolVars
<1>1. /\ j \notin pending /\ j \notin running /\ j \notin InChannel
      /\ ~InTransit(j) /\ j \notin Stored /\ up
      /\ rowRetries[j] = 0 /\ retryCount[j] = 0
  BY OneMap DEF Inv, MemoryMatchesTable, OneWorkerPerJob, InTransit, Stored,
                RowlessIsFresh
<1>2. /\ jobs' \in Seq(JobIDs) /\ Len(jobs') <= BufferSize /\ IsInjective(jobs')
      /\ InChannel' \subseteq InChannel \cup {j}
  BY <1>1, SentIfRoom
<1>3. /\ rowStatus'[j] = "pending" /\ reply'[j] = "accepted"
      /\ \A k \in JobIDs \ {j} : rowStatus'[k] = rowStatus[k] /\ reply'[k] = reply[k]
  BY DEF Inv, TypeOK
<1>4. TypeOK'
  <2>1. /\ rowStatus' \in [JobIDs -> RowStatuses] /\ pending' \in SUBSET JobIDs
        /\ missed' \in SUBSET JobIDs
        /\ reply' \in [JobIDs -> {"none", "accepted", "refused"}]
    BY DEF Inv, TypeOK, RowStatuses
  <2>. QED  BY <1>2, <2>1 DEF Inv, TypeOK, PoolTypeOK
<1>5. MemoryMatchesTable'
  BY <1>1, <1>3 DEF Inv, TypeOK, MemoryMatchesTable
<1>6. AcceptedIsDurable'
  BY <1>3 DEF Inv, AcceptedIsDurable, Accepted
<1>7. OnlyExhaustedJobsFail'
  BY <1>1, <1>3 DEF Inv, OnlyExhaustedJobsFail
<1>8. OneWorkerPerJob'
  <2>1. \A k : InTransit(k)' <=> InTransit(k)
    BY DEF InTransit
  <2>2. \A v \in Workers : Held(v)' <=> Held(v)
    BY DEF Held
  <2>. QED  BY <1>1, <1>2, <2>1, <2>2 DEF Inv, OneWorkerPerJob
<1>9. HandsMatch' /\ StoppedIsIdle' /\ DownIsEmpty'
  BY <1>1 DEF Inv, HandsMatch, StoppedIsIdle, DownIsEmpty, AllExited
<1>10. RowlessIsFresh'
  <2>1. Stored' = Stored \cup {j}
    BY <1>3 DEF Stored
  <2>. QED  BY <2>1, FS_AddElement DEF Inv, RowlessIsFresh
<1>11. RunsCounted'
  <2>1. rowStatus[j] = "none"
    OBVIOUS
  <2>. QED  BY <1>3, <2>1 DEF Inv, RunsCounted
<1>. QED  BY <1>4, <1>5, <1>6, <1>7, <1>8, <1>9, <1>10, <1>11 DEF Inv

\* A refused job leaves the queue as it was.
LEMMA EnqueueRefusedInv ==
  ASSUME Inv, NEW j \in JobIDs, EnqueueRefused(j)
  PROVE  Inv'
<1>. USE QueueAssumption DEF EnqueueRefused, poolVars, table, memory
<1>1. \A k \in JobIDs : Accepted(k)' <=> Accepted(k)
  BY DEF Inv, TypeOK, Accepted
<1>2. TypeOK'
  BY DEF Inv, TypeOK, PoolTypeOK
<1>3. MemoryMatchesTable' /\ RowlessIsFresh'
  BY DEF Inv, MemoryMatchesTable, RowlessIsFresh, Stored
<1>4. AcceptedIsDurable' /\ OnlyExhaustedJobsFail' /\ RunsCounted'
  BY <1>1 DEF Inv, AcceptedIsDurable, OnlyExhaustedJobsFail, RunsCounted
<1>5. OneWorkerPerJob'
  BY DEF Inv, OneWorkerPerJob, InChannel, InTransit, Held
<1>6. HandsMatch' /\ StoppedIsIdle' /\ DownIsEmpty'
  BY DEF Inv, HandsMatch, StoppedIsIdle, DownIsEmpty, AllExited
<1>. QED  BY <1>2, <1>3, <1>4, <1>5, <1>6 DEF Inv

\* A receive moves an id from the channel to the worker's hands.
LEMMA ReceiveInv ==
  ASSUME Inv, NEW w \in Workers, Receive(w)
  PROVE  Inv'
<1>. USE QueueAssumption DEF Receive, Take, Goto, table, history
<1>. DEFINE j == Head(jobs)
<1>1. /\ j \in JobIDs /\ j \in InChannel
      /\ jobs' \in Seq(JobIDs) /\ Len(jobs') < Len(jobs)
      /\ InChannel' \subseteq InChannel \ {j} /\ IsInjective(jobs')
  BY HeadTaken DEF Inv, TypeOK, OneWorkerPerJob, InChannel
<1>2. /\ wpc[w] = "dequeue" /\ wpc'[w] = "received" /\ wjob'[w] = j
      /\ \A v \in Workers \ {w} : wpc'[v] = wpc[v] /\ wjob'[v] = wjob[v]
  BY DEF Inv, TypeOK, PoolTypeOK
<1>3. ~InTransit(j) /\ j \in pending /\ j \notin running /\ up /\ phase # "stopped"
  BY <1>1, <1>2, OneMap, WorkerIsUp DEF Inv, OneWorkerPerJob
<1>4. \A v \in Workers : wjob[v] # j
  <2>. SUFFICES ASSUME NEW v \in Workers, wjob[v] = j PROVE FALSE
    OBVIOUS
  <2>1. j # NoJob
    BY <1>1
  <2>2. Held(v) \/ wpc[v] = "received"
    BY <2>1 DEF Inv, HandsMatch, Held
  <2>. QED  BY <1>3, <2>2 DEF Inv, OneWorkerPerJob, InTransit
<1>5. TypeOK'
  <2>1. Len(jobs') <= BufferSize
    BY <1>1 DEF Inv, TypeOK
  <2>. QED  BY <1>1, <2>1 DEF Inv, TypeOK, PoolTypeOK, Places
<1>6. MemoryMatchesTable' /\ RowlessIsFresh'
  BY DEF Inv, MemoryMatchesTable, RowlessIsFresh, Stored
<1>7. AcceptedIsDurable' /\ OnlyExhaustedJobsFail' /\ RunsCounted'
  BY TableKept
<1>8. OneWorkerPerJob'
  <2>1. \A k : InTransit(k)' <=> InTransit(k) \/ k = j
    BY <1>2 DEF InTransit
  <2>2. ~Held(w)' /\ \A v \in Workers \ {w} : Held(v)' <=> Held(v)
    BY <1>2 DEF Held, Holding
  <2>3. \A u, v \in Workers : wjob'[u] = wjob'[v] /\ wjob'[u] # NoJob => u = v
    BY <1>2, <1>4 DEF Inv, OneWorkerPerJob
  <2>4. \A v \in Workers : wpc'[v] = "received" => wjob'[v] \in pending
    BY <1>2, <1>3 DEF Inv, OneWorkerPerJob
  <2>5. \A v \in Workers : Held(v)' => wjob'[v] \in running
    BY <1>2, <2>2 DEF Inv, OneWorkerPerJob
  <2>6. InChannel' \subseteq pending /\ \A k \in InChannel' : ~InTransit(k)'
    BY <1>1, <2>1 DEF Inv, OneWorkerPerJob
  <2>. QED  BY <1>1, <2>3, <2>4, <2>5, <2>6 DEF OneWorkerPerJob
<1>9. HandsMatch'
  <2>1. j # NoJob
    BY <1>1
  <2>. QED  BY <1>2, <2>1 DEF Inv, HandsMatch
<1>10. StoppedIsIdle' /\ DownIsEmpty'
  BY <1>3 DEF StoppedIsIdle, DownIsEmpty
<1>. QED  BY <1>5, <1>6, <1>7, <1>8, <1>9, <1>10 DEF Inv

\* The locked half of Dequeue marks the row and moves the job to the running
\* map.
LEMMA MarkRunningInv ==
  ASSUME Inv, NEW w \in Workers, MarkRunning(w)
  PROVE  Inv'
<1>. USE QueueAssumption DEF MarkRunning, Dequeued, Goto, SetRow
<1>. DEFINE j == wjob[w]
<1>1. /\ wpc[w] = "received" /\ wpc'[w] = "execute" /\ wjob' = wjob
      /\ \A v \in Workers \ {w} : wpc'[v] = wpc[v]
  BY DEF Inv, TypeOK, PoolTypeOK
<1>2. up /\ phase # "stopped" /\ j \in pending /\ j \in JobIDs /\ j # NoJob
  BY <1>1, WorkerIsUp DEF Inv, TypeOK, OneWorkerPerJob
<1>3. j \notin InChannel /\ j \notin running /\ rowStatus[j] = "pending"
  BY <1>1, <1>2, OneMap DEF Inv, OneWorkerPerJob, InTransit, MemoryMatchesTable
<1>4. /\ rowStatus'[j] = "running" /\ runs'[j] = runs[j] + 1
      /\ \A k \in JobIDs \ {j} : rowStatus'[k] = rowStatus[k] /\ runs'[k] = runs[k]
  BY <1>2 DEF Inv, TypeOK
<1>5. TypeOK'
  BY <1>2 DEF Inv, TypeOK, PoolTypeOK, Places, RowStatuses
<1>6. MemoryMatchesTable'
  BY <1>2, <1>4 DEF Inv, TypeOK, MemoryMatchesTable
<1>7. AcceptedIsDurable' /\ OnlyExhaustedJobsFail'
  BY <1>3, <1>4 DEF Inv, AcceptedIsDurable, OnlyExhaustedJobsFail, Accepted
<1>8. OneWorkerPerJob'
  <2>1. \A k : InTransit(k)' <=> InTransit(k) /\ k # j
    BY <1>1, <1>2 DEF InTransit, Inv, OneWorkerPerJob
  <2>2. \A v \in Workers : Held(v)' <=> Held(v) \/ v = w
    BY <1>1 DEF Held, Holding
  <2>3. InChannel' = InChannel
    BY DEF InChannel
  <2>4. InChannel' \subseteq pending' /\ \A k \in InChannel' : ~InTransit(k)'
    BY <1>3, <2>1, <2>3 DEF Inv, OneWorkerPerJob
  <2>5. \A v \in Workers : wpc'[v] = "received" => wjob'[v] \in pending'
    BY <1>1, <1>2 DEF Inv, OneWorkerPerJob
  <2>6. \A v \in Workers : Held(v)' => wjob'[v] \in running'
    BY <1>1, <2>2 DEF Inv, OneWorkerPerJob
  <2>. QED  BY <1>1, <2>4, <2>5, <2>6 DEF Inv, OneWorkerPerJob
<1>9. HandsMatch'
  BY <1>1 DEF Inv, HandsMatch, Holding
<1>10. StoppedIsIdle' /\ DownIsEmpty'
  BY <1>2 DEF StoppedIsIdle, DownIsEmpty
<1>11. RowlessIsFresh'
  <2>1. Stored' = Stored
    BY <1>3, <1>4 DEF Stored
  <2>. QED  BY <2>1 DEF Inv, RowlessIsFresh
<1>12. RunsCounted'
  <2>1. runs[j] <= rowRetries[j] + restarts + 0
    BY <1>2, <1>3 DEF Inv, RunsCounted
  <2>2. runs'[j] <= rowRetries[j] + restarts + 1
    BY <1>2, <1>4, <2>1 DEF Inv, TypeOK
  <2>. QED  BY <1>4, <2>2 DEF Inv, RunsCounted
<1>. QED  BY <1>5, <1>6, <1>7, <1>8, <1>9, <1>10, <1>11, <1>12 DEF Inv

\* A running mark that fails puts the job back where there is room, before any
\* other worker can have taken it.
LEMMA MarkRunningFailsInv ==
  ASSUME Inv, NEW w \in Workers, MarkRunningFails(w)
  PROVE  Inv'
<1>. USE QueueAssumption DEF MarkRunningFails, Goto, table, history
<1>. DEFINE j == wjob[w]
<1>1. /\ wpc[w] = "received" /\ wpc'[w] \in {"exited", "top"} /\ wjob'[w] = NoJob
      /\ \A v \in Workers \ {w} : wpc'[v] = wpc[v] /\ wjob'[v] = wjob[v]
  BY DEF Inv, TypeOK, PoolTypeOK
<1>2. up /\ phase # "stopped" /\ j \in pending /\ j \in JobIDs /\ j # NoJob
  BY <1>1, WorkerIsUp DEF Inv, TypeOK, OneWorkerPerJob
<1>3. j \notin InChannel
  BY <1>1 DEF Inv, OneWorkerPerJob, InTransit
<1>4. /\ jobs' \in Seq(JobIDs) /\ Len(jobs') <= BufferSize /\ IsInjective(jobs')
      /\ InChannel' \subseteq InChannel \cup {j}
  BY <1>2, <1>3, SentIfRoom
<1>5. TypeOK'
  <2>1. PoolTypeOK' /\ wjob' \in [Workers -> JobIDs \cup {NoJob}]
    BY DEF Inv, TypeOK, PoolTypeOK, Places
  <2>. QED  BY <1>2, <1>4, <2>1 DEF Inv, TypeOK
<1>6. MemoryMatchesTable' /\ RowlessIsFresh'
  BY DEF Inv, MemoryMatchesTable, RowlessIsFresh, Stored
<1>7. AcceptedIsDurable' /\ OnlyExhaustedJobsFail' /\ RunsCounted'
  BY TableKept
<1>8. OneWorkerPerJob'
  <2>1. \A k : InTransit(k)' <=> InTransit(k) /\ k # j
    BY <1>1, <1>2 DEF InTransit, Inv, OneWorkerPerJob
  <2>2. ~Held(w)' /\ \A v \in Workers \ {w} : Held(v)' <=> Held(v)
    BY <1>1 DEF Held, Holding
  <2>3. \A u, v \in Workers : wjob'[u] = wjob'[v] /\ wjob'[u] # NoJob => u = v
    BY <1>1 DEF Inv, OneWorkerPerJob
  <2>4. InChannel' \subseteq pending /\ \A k \in InChannel' : ~InTransit(k)'
    BY <1>2, <1>4, <2>1 DEF Inv, OneWorkerPerJob
  <2>5. \A v \in Workers : wpc'[v] = "received" => wjob'[v] \in pending
    BY <1>1 DEF Inv, OneWorkerPerJob
  <2>6. \A v \in Workers : Held(v)' => wjob'[v] \in running
    BY <1>1, <2>2 DEF Inv, OneWorkerPerJob
  <2>. QED  BY <1>4, <2>3, <2>4, <2>5, <2>6 DEF OneWorkerPerJob
<1>9. HandsMatch'
  BY <1>1 DEF Inv, HandsMatch, Holding
<1>10. StoppedIsIdle' /\ DownIsEmpty'
  BY <1>2 DEF StoppedIsIdle, DownIsEmpty
<1>. QED  BY <1>5, <1>6, <1>7, <1>8, <1>9, <1>10 DEF Inv

\* Ack settles the job as completed.
LEMMA AckInv ==
  ASSUME Inv, NEW w \in Workers, Ack(w)
  PROVE  Inv'
<1>. USE QueueAssumption DEF Ack, SetRow, history
<1>. DEFINE j == wjob[w]
<1>1. /\ j \in JobIDs /\ up /\ j \notin pending /\ j \notin InChannel
      /\ Accepted(j) /\ rowStatus[j] = "running"
      /\ rowRetries[j] \in Nat /\ rowRetries[j] < MaxRetries
  BY RunningJob
<1>2. Decide(w, "ack") /\ UNCHANGED <<up, restarts>>
  OBVIOUS
<1>3. /\ \A k : InTransit(k)' <=> InTransit(k)
      /\ \A v \in Workers : wpc'[v] = "received" <=> wpc[v] = "received"
      /\ \A v \in Workers : wpc[v] = "received" => wjob'[v] = wjob[v]
      /\ \A v \in Workers : Held(v)' => Held(v) /\ wjob'[v] = wjob[v] /\ wjob[v] # j
      /\ \A u, v \in Workers : wjob'[u] = wjob'[v] /\ wjob'[u] # NoJob => u = v
      /\ HandsMatch' /\ StoppedIsIdle' /\ DownIsEmpty'
      /\ PoolTypeOK' /\ wjob' \in [Workers -> JobIDs \cup {NoJob}]
  BY <1>2, DecideKeepsWorkers
<1>4. /\ rowStatus'[j] = "completed"
      /\ \A k \in JobIDs \ {j} : rowStatus'[k] = rowStatus[k]
  BY <1>1 DEF Inv, TypeOK
<1>5. TypeOK'
  BY <1>3 DEF Inv, TypeOK, RowStatuses
<1>6. MemoryMatchesTable'
  BY <1>1, <1>4 DEF Inv, TypeOK, MemoryMatchesTable
<1>7. AcceptedIsDurable' /\ OnlyExhaustedJobsFail'
  BY <1>1, <1>4 DEF Inv, AcceptedIsDurable, OnlyExhaustedJobsFail, Accepted
<1>8. OneWorkerPerJob'
  BY <1>3 DEF Inv, OneWorkerPerJob, InChannel
<1>9. RowlessIsFresh'
  <2>1. Stored' = Stored
    BY <1>1, <1>4 DEF Stored
  <2>. QED  BY <2>1 DEF Inv, RowlessIsFresh
<1>10. RunsCounted'
  BY <1>1, <1>4 DEF Inv, RunsCounted
<1>. QED  BY <1>3, <1>5, <1>6, <1>7, <1>8, <1>9, <1>10 DEF Inv

\* An Ack that fails leaves the job in the running map, held by no worker.
LEMMA AckFailsInv ==
  ASSUME Inv, NEW w \in Workers, AckFails(w)
  PROVE  Inv'
<1>. USE QueueAssumption DEF AckFails, table, memory, history
<1>. DEFINE j == wjob[w]
<1>1. j \in JobIDs
  BY RunningJob
<1>2. Decide(w, "ack") /\ UNCHANGED <<up, restarts>>
  OBVIOUS
<1>3. /\ \A k : InTransit(k)' <=> InTransit(k)
      /\ \A v \in Workers : wpc'[v] = "received" <=> wpc[v] = "received"
      /\ \A v \in Workers : wpc[v] = "received" => wjob'[v] = wjob[v]
      /\ \A v \in Workers : Held(v)' => Held(v) /\ wjob'[v] = wjob[v] /\ wjob[v] # j
      /\ \A u, v \in Workers : wjob'[u] = wjob'[v] /\ wjob'[u] # NoJob => u = v
      /\ HandsMatch' /\ StoppedIsIdle' /\ DownIsEmpty'
      /\ PoolTypeOK' /\ wjob' \in [Workers -> JobIDs \cup {NoJob}]
  BY <1>2, DecideKeepsWorkers
<1>4. TypeOK'
  BY <1>1, <1>3 DEF Inv, TypeOK
<1>5. MemoryMatchesTable' /\ RowlessIsFresh'
  BY DEF Inv, MemoryMatchesTable, RowlessIsFresh, Stored
<1>6. AcceptedIsDurable' /\ OnlyExhaustedJobsFail' /\ RunsCounted'
  BY TableKept
<1>7. OneWorkerPerJob'
  BY <1>3 DEF Inv, OneWorkerPerJob, InChannel
<1>. QED  BY <1>3, <1>4, <1>5, <1>6, <1>7 DEF Inv

\* What every Nack does before its statement: the job leaves the running map
\* and the attempt is counted in memory.
LEMMA NackStartsFacts ==
  ASSUME Inv, NEW w \in Workers, NackStarts(w),
         NEW j, j = wjob[w]
  PROVE  /\ j \in JobIDs /\ up /\ j \notin pending /\ j \notin InChannel
         /\ ~InTransit(j) /\ Accepted(j) /\ rowStatus[j] = "running"
         /\ retryCount[j] = rowRetries[j]
         /\ rowRetries[j] \in Nat /\ rowRetries[j] < MaxRetries
         /\ running' = running \ {j}
         /\ retryCount' \in [JobIDs -> 0..MaxRetries]
         /\ retryCount'[j] = rowRetries[j] + 1
         /\ \A k \in JobIDs \ {j} : retryCount'[k] = retryCount[k]
         /\ \A k : InTransit(k)' <=> InTransit(k)
         /\ \A v \in Workers : wpc'[v] = "received" <=> wpc[v] = "received"
         /\ \A v \in Workers : wpc[v] = "received" => wjob'[v] = wjob[v]
         /\ \A v \in Workers : Held(v)' => wjob'[v] \in running'
         /\ \A u, v \in Workers : wjob'[u] = wjob'[v] /\ wjob'[u] # NoJob => u = v
         /\ HandsMatch' /\ StoppedIsIdle' /\ DownIsEmpty'
         /\ PoolTypeOK' /\ wjob' \in [Workers -> JobIDs \cup {NoJob}]
<1>. USE QueueAssumption DEF NackStarts, history
<1>1. /\ j \in JobIDs /\ up /\ j \notin pending /\ j \notin InChannel
      /\ Accepted(j) /\ rowStatus[j] = "running"
      /\ retryCount[j] = rowRetries[j]
      /\ rowRetries[j] \in Nat /\ rowRetries[j] < MaxRetries
  BY RunningJob
<1>2. Decide(w, "nack") /\ wjob[w] \in running /\ UNCHANGED <<up, restarts>>
  OBVIOUS
<1>3. /\ \A k : InTransit(k)' <=> InTransit(k)
      /\ ~InTransit(j)
      /\ \A v \in Workers : wpc'[v] = "received" <=> wpc[v] = "received"
      /\ \A v \in Workers : wpc[v] = "received" => wjob'[v] = wjob[v]
      /\ \A v \in Workers : Held(v)' => Held(v) /\ wjob'[v] = wjob[v] /\ wjob[v] # j
      /\ \A u, v \in Workers : wjob'[u] = wjob'[v] /\ wjob'[u] # NoJob => u = v
      /\ HandsMatch' /\ StoppedIsIdle' /\ DownIsEmpty'
      /\ PoolTypeOK' /\ wjob' \in [Workers -> JobIDs \cup {NoJob}]
  BY <1>2, DecideKeepsWorkers
<1>4. running' = running \ {j}
  OBVIOUS
<1>5. \A v \in Workers : Held(v)' => wjob'[v] \in running'
  BY <1>3, <1>4 DEF Inv, OneWorkerPerJob
<1>6. /\ retryCount' \in [JobIDs -> 0..MaxRetries]
      /\ retryCount'[j] = rowRetries[j] + 1
      /\ \A k \in JobIDs \ {j} : retryCount'[k] = retryCount[k]
  <2>1. retryCount[j] + 1 \in 0..MaxRetries
    BY <1>1
  <2>2. retryCount' = [retryCount EXCEPT ![j] = @ + 1]
    OBVIOUS
  <2>3. retryCount \in [JobIDs -> 0..MaxRetries]
    BY DEF Inv, TypeOK
  <2>. QED  BY <1>1, <2>1, <2>2, <2>3
<1>. QED  BY <1>1, <1>3, <1>4, <1>5, <1>6

\* A failed attempt with attempts left goes back to the map, and to the
\* channel if there is room.
LEMMA NackRetryInv ==
  ASSUME Inv, NEW w \in Workers, NackRetry(w)
  PROVE  Inv'
<1>. USE QueueAssumption DEF NackRetry, RowRetries, SetRow, TrySend, RetryLeft
<1>. DEFINE j == wjob[w]
<1>1. /\ j \in JobIDs /\ up /\ j \notin pending /\ j \notin InChannel
      /\ ~InTransit(j) /\ Accepted(j) /\ rowStatus[j] = "running"
      /\ retryCount[j] = rowRetries[j]
      /\ rowRetries[j] \in Nat /\ rowRetries[j] < MaxRetries
      /\ running' = running \ {j}
      /\ retryCount' \in [JobIDs -> 0..MaxRetries]
      /\ retryCount'[j] = rowRetries[j] + 1
      /\ \A k \in JobIDs \ {j} : retryCount'[k] = retryCount[k]
  BY NackStartsFacts
<1>2. /\ \A k : InTransit(k)' <=> InTransit(k)
      /\ \A v \in Workers : wpc'[v] = "received" <=> wpc[v] = "received"
      /\ \A v \in Workers : wpc[v] = "received" => wjob'[v] = wjob[v]
      /\ \A v \in Workers : Held(v)' => wjob'[v] \in running'
      /\ \A u, v \in Workers : wjob'[u] = wjob'[v] /\ wjob'[u] # NoJob => u = v
      /\ HandsMatch' /\ StoppedIsIdle' /\ DownIsEmpty'
      /\ PoolTypeOK' /\ wjob' \in [Workers -> JobIDs \cup {NoJob}]
  BY NackStartsFacts
<1>3. rowRetries[j] + 1 \in Nat /\ rowRetries[j] + 1 < MaxRetries
  BY <1>1
<1>4. /\ jobs' \in Seq(JobIDs) /\ Len(jobs') <= BufferSize /\ IsInjective(jobs')
      /\ InChannel' \subseteq InChannel \cup {j}
  BY <1>1, SentIfRoom
<1>5. UNCHANGED <<up, closed, reply, runs, restarts>>
  BY DEF NackStarts, history
<1>6. /\ rowStatus'[j] = "pending" /\ rowRetries'[j] = rowRetries[j] + 1
      /\ \A k \in JobIDs \ {j} : /\ rowStatus'[k] = rowStatus[k]
                                /\ rowRetries'[k] = rowRetries[k]
  BY <1>1 DEF Inv, TypeOK
<1>7. TypeOK'
  <2>1. rowRetries[j] + 1 \in 0..MaxRetries
    BY <1>3
  <2>2. rowRetries' \in [JobIDs -> 0..MaxRetries]
    BY <1>1, <2>1 DEF Inv, TypeOK
  <2>3. rowStatus' \in [JobIDs -> RowStatuses]
    BY DEF Inv, TypeOK, RowStatuses
  <2>4. /\ pending' \in SUBSET JobIDs /\ running' \in SUBSET JobIDs
        /\ missed' \in SUBSET JobIDs
    BY <1>1 DEF Inv, TypeOK
  <2>. QED  BY <1>1, <1>2, <1>4, <1>5, <2>2, <2>3, <2>4 DEF Inv, TypeOK
<1>8. MemoryMatchesTable'
  BY <1>1, <1>5, <1>6 DEF Inv, TypeOK, MemoryMatchesTable
<1>9. AcceptedIsDurable' /\ OnlyExhaustedJobsFail'
  BY <1>1, <1>3, <1>5, <1>6 DEF Inv, AcceptedIsDurable, OnlyExhaustedJobsFail, Accepted
<1>10. OneWorkerPerJob'
  <2>1. InChannel' \subseteq pending' /\ \A k \in InChannel' : ~InTransit(k)'
    BY <1>1, <1>2, <1>4 DEF Inv, OneWorkerPerJob
  <2>. QED  BY <1>2, <1>4, <2>1 DEF Inv, OneWorkerPerJob
<1>11. RowlessIsFresh'
  <2>1. Stored' = Stored
    BY <1>1, <1>6 DEF Stored
  <2>2. /\ IsFiniteSet(Stored)
        /\ \A k \in JobIDs \ Stored : rowRetries[k] = 0 /\ retryCount[k] = 0
    BY DEF Inv, RowlessIsFresh
  <2>3. j \in Stored
    BY <1>1 DEF Stored
  <2>. QED  BY <1>1, <1>6, <2>1, <2>2, <2>3 DEF RowlessIsFresh
<1>12. RunsCounted'
  <2>1. runs[j] <= rowRetries[j] + restarts + 1
    BY <1>1 DEF Inv, RunsCounted
  <2>2. runs'[j] <= rowRetries'[j] + restarts' + 0
    BY <1>1, <1>5, <1>6, <2>1 DEF Inv, TypeOK
  <2>. QED  BY <1>5, <1>6, <2>2 DEF Inv, RunsCounted
<1>. QED  BY <1>2, <1>7, <1>8, <1>9, <1>10, <1>11, <1>12 DEF Inv

\* The last attempt fails the row.
LEMMA NackFailInv ==
  ASSUME Inv, NEW w \in Workers, NackFail(w)
  PROVE  Inv'
<1>. USE QueueAssumption DEF NackFail, RowRetries, SetRow, RetryLeft
<1>. DEFINE j == wjob[w]
<1>1. /\ j \in JobIDs /\ up /\ j \notin pending /\ j \notin InChannel
      /\ Accepted(j) /\ rowStatus[j] = "running"
      /\ retryCount[j] = rowRetries[j]
      /\ rowRetries[j] \in Nat /\ rowRetries[j] < MaxRetries
      /\ running' = running \ {j}
      /\ retryCount' \in [JobIDs -> 0..MaxRetries]
      /\ retryCount'[j] = rowRetries[j] + 1
      /\ \A k \in JobIDs \ {j} : retryCount'[k] = retryCount[k]
  BY NackStartsFacts
<1>2. /\ \A k : InTransit(k)' <=> InTransit(k)
      /\ \A v \in Workers : wpc'[v] = "received" <=> wpc[v] = "received"
      /\ \A v \in Workers : wpc[v] = "received" => wjob'[v] = wjob[v]
      /\ \A v \in Workers : Held(v)' => wjob'[v] \in running'
      /\ \A u, v \in Workers : wjob'[u] = wjob'[v] /\ wjob'[u] # NoJob => u = v
      /\ HandsMatch' /\ StoppedIsIdle' /\ DownIsEmpty'
      /\ PoolTypeOK' /\ wjob' \in [Workers -> JobIDs \cup {NoJob}]
  BY NackStartsFacts
<1>3. rowRetries[j] + 1 = MaxRetries
  BY <1>1
<1>4. UNCHANGED <<up, closed, reply, runs, restarts>>
  BY DEF NackStarts, history
<1>5. /\ rowStatus'[j] = "failed" /\ rowRetries'[j] = MaxRetries
      /\ \A k \in JobIDs \ {j} : /\ rowStatus'[k] = rowStatus[k]
                                /\ rowRetries'[k] = rowRetries[k]
  BY <1>1, <1>3 DEF Inv, TypeOK
<1>6. TypeOK'
  <2>1. rowRetries[j] + 1 \in 0..MaxRetries
    BY <1>3
  <2>2. rowRetries' \in [JobIDs -> 0..MaxRetries]
    BY <1>1, <2>1 DEF Inv, TypeOK
  <2>3. rowStatus' \in [JobIDs -> RowStatuses]
    BY DEF Inv, TypeOK, RowStatuses
  <2>4. running' \in SUBSET JobIDs
    BY <1>1 DEF Inv, TypeOK
  <2>. QED  BY <1>1, <1>2, <1>4, <2>2, <2>3, <2>4 DEF Inv, TypeOK
<1>7. MemoryMatchesTable'
  BY <1>1, <1>4, <1>5 DEF Inv, TypeOK, MemoryMatchesTable
<1>8. AcceptedIsDurable' /\ OnlyExhaustedJobsFail'
  BY <1>1, <1>4, <1>5 DEF Inv, AcceptedIsDurable, OnlyExhaustedJobsFail, Accepted
<1>9. OneWorkerPerJob'
  BY <1>2 DEF Inv, OneWorkerPerJob, InChannel
<1>10. RowlessIsFresh'
  <2>1. Stored' = Stored
    BY <1>1, <1>5 DEF Stored
  <2>2. /\ IsFiniteSet(Stored)
        /\ \A k \in JobIDs \ Stored : rowRetries[k] = 0 /\ retryCount[k] = 0
    BY DEF Inv, RowlessIsFresh
  <2>3. j \in Stored
    BY <1>1 DEF Stored
  <2>. QED  BY <1>1, <1>5, <2>1, <2>2, <2>3 DEF RowlessIsFresh
<1>11. RunsCounted'
  <2>1. runs[j] <= rowRetries[j] + restarts + 1
    BY <1>1 DEF Inv, RunsCounted
  <2>2. runs'[j] <= rowRetries'[j] + restarts' + 0
    BY <1>1, <1>3, <1>4, <1>5, <2>1 DEF Inv, TypeOK
  <2>. QED  BY <1>4, <1>5, <2>2 DEF Inv, RunsCounted
<1>. QED  BY <1>2, <1>6, <1>7, <1>8, <1>9, <1>10, <1>11 DEF Inv

\* A Nack whose statement fails: the row stays running and no map has the job.
LEMMA NackFailsInv ==
  ASSUME Inv, NEW w \in Workers, NackFails(w)
  PROVE  Inv'
<1>. USE QueueAssumption DEF NackFails, table
<1>. DEFINE j == wjob[w]
<1>1. /\ j \in JobIDs /\ up /\ j \notin pending /\ Accepted(j)
      /\ rowStatus[j] = "running"
      /\ running' = running \ {j}
      /\ retryCount' \in [JobIDs -> 0..MaxRetries]
      /\ \A k \in JobIDs \ {j} : retryCount'[k] = retryCount[k]
  BY NackStartsFacts
<1>2. /\ \A k : InTransit(k)' <=> InTransit(k)
      /\ \A v \in Workers : wpc'[v] = "received" <=> wpc[v] = "received"
      /\ \A v \in Workers : wpc[v] = "received" => wjob'[v] = wjob[v]
      /\ \A v \in Workers : Held(v)' => wjob'[v] \in running'
      /\ \A u, v \in Workers : wjob'[u] = wjob'[v] /\ wjob'[u] # NoJob => u = v
      /\ HandsMatch' /\ StoppedIsIdle' /\ DownIsEmpty'
      /\ PoolTypeOK' /\ wjob' \in [Workers -> JobIDs \cup {NoJob}]
  BY NackStartsFacts
<1>3. UNCHANGED <<up, closed, reply, runs, restarts>>
  BY DEF NackStarts, history
<1>4. TypeOK'
  <2>1. running' \in SUBSET JobIDs /\ missed' \in SUBSET JobIDs
    BY <1>1 DEF Inv, TypeOK
  <2>. QED  BY <1>1, <1>2, <1>3, <2>1 DEF Inv, TypeOK
<1>5. MemoryMatchesTable'
  BY <1>1, <1>3 DEF Inv, TypeOK, MemoryMatchesTable
<1>6. AcceptedIsDurable' /\ OnlyExhaustedJobsFail' /\ RunsCounted' /\ Stored' = Stored
  BY <1>3, TableKept
<1>7. OneWorkerPerJob'
  BY <1>2 DEF Inv, OneWorkerPerJob, InChannel
<1>8. RowlessIsFresh'
  BY <1>1, <1>6 DEF Inv, RowlessIsFresh, Stored
<1>. QED  BY <1>2, <1>4, <1>5, <1>6, <1>7, <1>8 DEF Inv

\* A crash empties the memory and leaves the table.
LEMMA CrashInv ==
  ASSUME Inv, Crash
  PROVE  Inv'
<1>. USE QueueAssumption DEF Crash, table, history
<1>1. \A w \in Workers : wpc'[w] = "exited" /\ wjob'[w] = NoJob
  OBVIOUS
<1>2. TypeOK'
  <2>1. PoolTypeOK' /\ wjob' \in [Workers -> JobIDs \cup {NoJob}]
    BY DEF PoolTypeOK, Places
  <2>2. jobs' \in Seq(JobIDs) /\ Len(jobs') <= BufferSize
    OBVIOUS
  <2>. QED  BY <2>1, <2>2 DEF Inv, TypeOK
<1>3. AcceptedIsDurable' /\ OnlyExhaustedJobsFail' /\ RunsCounted' /\ Stored' = Stored
  BY TableKept
<1>4. MemoryMatchesTable' /\ RowlessIsFresh'
  BY <1>3 DEF Inv, MemoryMatchesTable, RowlessIsFresh
<1>5. OneWorkerPerJob'
  <2>1. IsInjective(jobs') /\ InChannel' = {}
    BY DEF IsInjective, InChannel, ToSet
  <2>. QED  BY <1>1, <2>1 DEF OneWorkerPerJob, Held, Holding
<1>6. HandsMatch' /\ StoppedIsIdle' /\ DownIsEmpty'
  BY <1>1 DEF HandsMatch, StoppedIsIdle, DownIsEmpty, AllExited, Holding, Inv, TypeOK
<1>. QED  BY <1>2, <1>3, <1>4, <1>5, <1>6 DEF Inv

\* A start finds every worker's hands empty, resets the interrupted rows and
\* loads a prefix of the pending ones.
LEMMA RestartInv ==
  ASSUME Inv, Restart
  PROVE  Inv'
<1>. USE QueueAssumption DEF Restart
<1>1. PICK order \in SetToSeqs(Recovered) : jobs' = Load(order)
  OBVIOUS
<1>2. Recovered \subseteq Stored /\ IsFiniteSet(Recovered)
  <2>1. Recovered \subseteq Stored
    BY DEF Recovered, Stored
  <2>. QED  BY <2>1, FS_Subset DEF Inv, RowlessIsFresh
<1>3. /\ jobs' \in Seq(Recovered) /\ Len(jobs') <= BufferSize /\ IsInjective(jobs')
  BY <1>1, <1>2, LoadedOnce
<1>4. /\ running = {} /\ restarts < MaxRestarts /\ restarts \in Nat
      /\ \A w \in Workers : wpc[w] = "exited" /\ wjob[w] = NoJob
  <2>1. running = {} /\ restarts < MaxRestarts /\ AllExited
    BY DEF Inv, DownIsEmpty, StoppedIsIdle
  <2>2. \A w \in Workers : wpc[w] = "exited" /\ wjob[w] = NoJob
    BY <2>1 DEF Inv, HandsMatch, Holding, AllExited
  <2>. QED  BY <2>1, <2>2 DEF Inv, TypeOK
<1>5. InChannel' \subseteq Recovered /\ jobs' \in Seq(JobIDs)
  BY <1>3 DEF InChannel, ToSet, Recovered
<1>6. \A w \in Workers : wpc'[w] = "top" /\ wjob'[w] = NoJob
  BY <1>4
<1>7. \A j \in JobIDs :
        /\ rowStatus[j] \in RowStatuses
        /\ rowStatus'[j] = Reset(rowStatus[j])
        /\ rowStatus'[j] = "pending" <=> j \in Recovered
        /\ rowStatus'[j] # "running"
        /\ rowStatus[j] \in {"none", "completed", "failed"} => rowStatus'[j] = rowStatus[j]
  <2>. SUFFICES ASSUME NEW j \in JobIDs
                PROVE  /\ rowStatus[j] \in RowStatuses
                       /\ rowStatus'[j] = Reset(rowStatus[j])
                       /\ rowStatus'[j] = "pending" <=> j \in Recovered
                       /\ rowStatus'[j] # "running"
                       /\ rowStatus[j] \in {"none", "completed", "failed"}
                            => rowStatus'[j] = rowStatus[j]
    OBVIOUS
  <2>1. rowStatus[j] \in RowStatuses /\ rowStatus'[j] = Reset(rowStatus[j])
    BY DEF Inv, TypeOK
  <2>. QED  BY <2>1 DEF Reset, RowStatuses, Recovered
<1>8. TypeOK'
  <2>1. rowStatus' \in [JobIDs -> RowStatuses]
    BY <1>7 DEF Reset, RowStatuses
  <2>2. PoolTypeOK' /\ wjob' \in [Workers -> JobIDs \cup {NoJob}]
    BY DEF Inv, TypeOK, PoolTypeOK, Places
  <2>3. restarts' \in 0..MaxRestarts
    BY <1>4
  <2>4. pending' \in SUBSET JobIDs /\ missed' \in SUBSET JobIDs
    BY DEF Recovered
  <2>5. Len(jobs') <= BufferSize /\ jobs' \in Seq(JobIDs)
    BY <1>3, <1>5
  <2>. QED  BY <2>1, <2>2, <2>3, <2>4, <2>5 DEF Inv, TypeOK
<1>9. MemoryMatchesTable'
  <2>1. pending' = {j \in JobIDs : rowStatus'[j] = "pending"}
    BY <1>7 DEF Recovered
  <2>2. running' = {} /\ {j \in JobIDs : rowStatus'[j] = "running"} = {}
    BY <1>4, <1>7
  <2>. QED  BY <2>1, <2>2 DEF MemoryMatchesTable
<1>10. Stored' = Stored
  <2>1. \A j \in JobIDs : rowStatus'[j] = "none" <=> rowStatus[j] = "none"
    BY <1>7 DEF Reset
  <2>. QED  BY <2>1 DEF Stored
<1>11. AcceptedIsDurable'
  <2>1. \A j \in JobIDs : rowStatus'[j] = "none" <=> rowStatus[j] = "none"
    BY <1>10 DEF Stored
  <2>. QED  BY <2>1 DEF Inv, AcceptedIsDurable, Accepted
<1>12. OnlyExhaustedJobsFail'
  <2>1. \A j \in JobIDs : rowStatus'[j] = "failed" <=> rowStatus[j] = "failed"
    BY <1>7 DEF Recovered, RowStatuses
  <2>. QED  BY <2>1 DEF Inv, OnlyExhaustedJobsFail
<1>13. OneWorkerPerJob'
  BY <1>3, <1>5, <1>6 DEF OneWorkerPerJob, InTransit, Held, Holding
<1>14. HandsMatch' /\ StoppedIsIdle' /\ DownIsEmpty'
  BY <1>6 DEF HandsMatch, StoppedIsIdle, DownIsEmpty, Holding
<1>15. RowlessIsFresh'
  BY <1>10 DEF Inv, RowlessIsFresh, Stored
<1>16. RunsCounted'
  <2>. SUFFICES ASSUME NEW j \in JobIDs
                PROVE  runs'[j] <= rowRetries'[j] + restarts'
                         + (IF rowStatus'[j] \in {"running", "completed"} THEN 1 ELSE 0)
    BY DEF RunsCounted
  <2>1. /\ runs'[j] = runs[j] /\ rowRetries'[j] = rowRetries[j]
        /\ restarts' = restarts + 1
        /\ runs[j] \in Nat /\ rowRetries[j] \in Nat
    BY DEF Inv, TypeOK
  <2>2. runs[j] <= rowRetries[j] + restarts + 1
    BY <1>4, <2>1 DEF Inv, RunsCounted
  <2>. QED  BY <1>4, <2>1, <2>2
<1>. QED  BY <1>8, <1>9, <1>11, <1>12, <1>13, <1>14, <1>15, <1>16 DEF Inv

\* Stop, the end of the pool and Close touch no job.
LEMMA ShutdownInv ==
  ASSUME Inv, Shutdown \/ Close \/ UNCHANGED vars
  PROVE  Inv'
<1>. USE QueueAssumption DEF Shutdown, Stop, StopPool, PoolStopped, Close, queueVars,
                             poolVars, vars, table, memory, history
<1>1. /\ wpc' = wpc /\ wjob' = wjob
      /\ UNCHANGED <<table, up, jobs, pending, running, retryCount, history>>
  OBVIOUS
<1>2. TypeOK'
  <2>1. phase' \in {"serving", "stopping", "stopped"} /\ closed' \in BOOLEAN
        /\ missed' = missed
    BY DEF Inv, TypeOK, PoolTypeOK
  <2>. QED  BY <1>1, <2>1 DEF Inv, TypeOK, PoolTypeOK
<1>3. AcceptedIsDurable' /\ OnlyExhaustedJobsFail' /\ RunsCounted' /\ Stored' = Stored
  BY <1>1, TableKept
<1>4. MemoryMatchesTable' /\ RowlessIsFresh'
  BY <1>1, <1>3 DEF Inv, MemoryMatchesTable, RowlessIsFresh
<1>5. OneWorkerPerJob'
  BY <1>1 DEF Inv, OneWorkerPerJob, InChannel, InTransit, Held
<1>6. HandsMatch'
  BY <1>1 DEF Inv, HandsMatch
<1>7. StoppedIsIdle' /\ DownIsEmpty'
  BY <1>1 DEF Inv, StoppedIsIdle, DownIsEmpty, AllExited
<1>. QED  BY <1>2, <1>3, <1>4, <1>5, <1>6, <1>7 DEF Inv

\* Every step keeps the invariant.
LEMMA NextInv == Inv /\ [Next]_vars => Inv'
<1>. SUFFICES ASSUME Inv, [Next]_vars PROVE Inv'
  OBVIOUS
<1>1. ASSUME NEW j \in JobIDs, EnqueueInserted(j) \/ EnqueueRefused(j) PROVE Inv'
  BY <1>1, EnqueueInsertedInv, EnqueueRefusedInv
<1>2. ASSUME NEW w \in Workers, WorkerStep(w) PROVE Inv'
  BY <1>2, PoolStepInv, ReceiveInv, MarkRunningInv, MarkRunningFailsInv, AckInv,
     AckFailsInv, NackRetryInv, NackFailInv, NackFailsInv DEF WorkerStep
<1>3. CASE Crash
  BY <1>3, CrashInv
<1>4. CASE Restart
  BY <1>4, RestartInv
<1>5. CASE Shutdown \/ Close \/ UNCHANGED vars
  BY <1>5, ShutdownInv
<1>. QED  BY <1>1, <1>2, <1>3, <1>4, <1>5 DEF Next

THEOREM Invariance == Spec => []Inv
BY InitInv, NextInv, PTL DEF Spec

\* Type correctness: in particular the channel never holds more than its
\* capacity, after a recovery either, and no retry count passes MaxRetries.
THEOREM TypeCorrect == Spec => []TypeOK
<1>1. Inv => TypeOK
  BY DEF Inv
<1>. QED  BY <1>1, Invariance, PTL

\* The maps of a process that is up are a copy of the table, whatever failed.
THEOREM MapsFollowTable == Spec => []MemoryMatchesTable
<1>1. Inv => MemoryMatchesTable
  BY DEF Inv
<1>. QED  BY <1>1, Invariance, PTL

\* Enqueue's answer tells whether the job has a row, before and after a crash.
THEOREM AnswerIsDurable == Spec => []AcceptedIsDurable
<1>1. Inv => AcceptedIsDurable
  BY DEF Inv
<1>. QED  BY <1>1, Invariance, PTL

\* No two workers run the same job, and the channel offers each job once.
THEOREM NoJobIsShared == Spec => []OneWorkerPerJob
<1>1. Inv => OneWorkerPerJob
  BY DEF Inv
<1>. QED  BY <1>1, Invariance, PTL

\* A row fails exactly when all its attempts have failed.
THEOREM NoEarlyFailure == Spec => []OnlyExhaustedJobsFail
<1>1. Inv => OnlyExhaustedJobsFail
  BY DEF Inv
<1>. QED  BY <1>1, Invariance, PTL

\* A job is run at most MaxRetries times, and once more for each restart.
THEOREM RunsPerRestart == Spec => []AttemptsBounded
<1>1. Inv => AttemptsBounded
  <2>. SUFFICES ASSUME Inv, NEW j \in JobIDs
                PROVE  runs[j] <= MaxRetries + restarts
    BY DEF AttemptsBounded
  <2>1. /\ rowRetries[j] \in 0..MaxRetries /\ restarts \in Nat
        /\ runs[j] \in Nat /\ MaxRetries \in Nat
    BY QueueAssumption DEF Inv, TypeOK
  <2>2. CASE rowStatus[j] \in {"running", "completed"}
    <3>1. rowRetries[j] # MaxRetries
      BY <2>2 DEF Inv, OnlyExhaustedJobsFail
    <3>2. runs[j] <= rowRetries[j] + restarts + 1
      BY <2>2 DEF Inv, RunsCounted
    <3>. QED  BY <2>1, <3>1, <3>2
  <2>3. CASE rowStatus[j] \notin {"running", "completed"}
    <3>1. runs[j] <= rowRetries[j] + restarts + 0
      BY <2>3 DEF Inv, RunsCounted
    <3>. QED  BY <2>1, <3>1
  <2>. QED  BY <2>2, <2>3
<1>. QED  BY <1>1, Invariance, PTL

----------------------------------------------------------------------------
(* Refinement: the life of a row follows the ledger, across restarts.      *)

\* A step that changes the life of one job only is a ledger Move of it.
LEMMA MoveOfOne ==
  ASSUME NEW j \in JobIDs, NEW from, NEW to,
         Life(j) = from, Life(j)' = to,
         \A k \in JobIDs \ {j} : Life(k)' = Life(k)
  PROVE  Ledger!Move(j, from, to)
  BY DEF Ledger!Move

\* A step that leaves the table and the answers alone is a ledger stutter.
LEMMA LedgerStutter ==
  ASSUME UNCHANGED <<rowStatus, rowRetries, reply>>
  PROVE  UNCHANGED Ledger!ledgerVars
  BY DEF Ledger!ledgerVars, Life

\* A step that writes the row of one accepted job.
LEMMA LifeOfRow ==
  ASSUME Inv, NEW j \in JobIDs, NEW s, SetRow(j, s), reply' = reply, Accepted(j)
  PROVE  /\ Life(j) = rowStatus[j] /\ Life(j)' = s
         /\ \A k \in JobIDs \ {j} : Life(k)' = Life(k)
  BY DEF Inv, TypeOK, SetRow, Life, Accepted

LEMMA LedgerEnqueue ==
  ASSUME Inv, NEW j \in JobIDs, EnqueueInserted(j) \/ EnqueueRefused(j)
  PROVE  Ledger!LedgerNext
<1>1. Life(j) = "new"
  BY DEF Life, EnqueueInserted, EnqueueRefused
<1>2. CASE EnqueueInserted(j)
  <2>1. Life(j)' = "pending" /\ \A k \in JobIDs \ {j} : Life(k)' = Life(k)
    BY <1>2 DEF Inv, TypeOK, Life, EnqueueInserted, SetRow
  <2>2. Ledger!Accept(j)
    BY <1>1, <1>2, <2>1, MoveOfOne DEF Ledger!Accept, EnqueueInserted
  <2>. QED  BY <2>2 DEF Ledger!LedgerNext
<1>3. CASE EnqueueRefused(j)
  <2>1. Life(j)' = "refused" /\ \A k \in JobIDs \ {j} : Life(k)' = Life(k)
    BY <1>3 DEF Inv, TypeOK, Life, EnqueueRefused, table
  <2>2. Ledger!Refuse(j)
    BY <1>1, <1>3, <2>1, MoveOfOne DEF Ledger!Refuse, EnqueueRefused, table
  <2>. QED  BY <2>2 DEF Ledger!LedgerNext
<1>. QED  BY <1>2, <1>3

LEMMA LedgerWorker ==
  ASSUME Inv, NEW w \in Workers, WorkerStep(w),
         NEW j, j = wjob[w]
  PROVE  [Ledger!LedgerNext]_(Ledger!ledgerVars)
<1>1. CASE PoolStep(w) \/ Receive(w) \/ MarkRunningFails(w)
  BY <1>1, LedgerStutter
     DEF PoolStep, Receive, MarkRunningFails, queueVars, table, history
<1>2. CASE AckFails(w) \/ NackFails(w)
  BY <1>2, LedgerStutter DEF AckFails, NackFails, NackStarts, table, history
<1>3. CASE MarkRunning(w)
  <2>1. /\ j \in JobIDs /\ rowStatus[j] = "pending" /\ Accepted(j)
        /\ SetRow(j, "running") /\ reply' = reply /\ rowRetries' = rowRetries
    <3>1. wpc[w] = "received" /\ j \in pending /\ j \in JobIDs /\ up
      BY <1>3, WorkerIsUp
         DEF MarkRunning, Dequeued, Goto, Inv, TypeOK, OneWorkerPerJob
    <3>2. rowStatus[j] = "pending" /\ Accepted(j)
      BY <3>1 DEF Inv, MemoryMatchesTable, AcceptedIsDurable
    <3>. QED  BY <1>3, <3>1, <3>2 DEF MarkRunning
  <2>2. Ledger!Begin(j)
    BY <2>1, LifeOfRow, MoveOfOne DEF Ledger!Begin
  <2>. QED  BY <2>1, <2>2 DEF Ledger!LedgerNext
<1>4. CASE Ack(w)
  <2>1. /\ j \in JobIDs /\ rowStatus[j] = "running" /\ Accepted(j)
        /\ SetRow(j, "completed") /\ reply' = reply /\ rowRetries' = rowRetries
    BY <1>4, RunningJob DEF Ack, history
  <2>2. Ledger!Complete(j)
    BY <2>1, LifeOfRow, MoveOfOne DEF Ledger!Complete
  <2>. QED  BY <2>1, <2>2 DEF Ledger!LedgerNext
<1>5. CASE NackRetry(w)
  <2>1. /\ j \in JobIDs /\ rowStatus[j] = "running" /\ Accepted(j)
        /\ retryCount[j] = rowRetries[j]
        /\ SetRow(j, "pending") /\ reply' = reply
        /\ rowRetries' = [rowRetries EXCEPT ![j] = retryCount[j] + 1]
        /\ retryCount[j] + 1 < MaxRetries
    BY <1>5, RunningJob DEF NackRetry, NackStarts, RowRetries, RetryLeft, history
  <2>2. rowRetries' = [rowRetries EXCEPT ![j] = @ + 1]
    BY <2>1
  <2>3. Ledger!Retry(j)
    BY <2>1, <2>2, LifeOfRow, MoveOfOne DEF Ledger!Retry
  <2>. QED  BY <2>1, <2>3 DEF Ledger!LedgerNext
<1>6. CASE NackFail(w)
  <2>1. /\ j \in JobIDs /\ rowStatus[j] = "running" /\ Accepted(j)
        /\ retryCount[j] = rowRetries[j]
        /\ SetRow(j, "failed") /\ reply' = reply
        /\ rowRetries' = [rowRetries EXCEPT ![j] = retryCount[j] + 1]
    BY <1>6, RunningJob DEF NackFail, NackStarts, RowRetries, history
  <2>2. rowRetries' = [rowRetries EXCEPT ![j] = @ + 1]
    BY <2>1
  <2>3. Ledger!GiveUp(j)
    BY <2>1, <2>2, LifeOfRow, MoveOfOne DEF Ledger!GiveUp
  <2>. QED  BY <2>1, <2>3 DEF Ledger!LedgerNext
<1>. QED  BY <1>1, <1>2, <1>3, <1>4, <1>5, <1>6 DEF WorkerStep

\* A start is the ledger's Recover: only interrupted jobs go back.
LEMMA LedgerRestart ==
  ASSUME Inv, Restart
  PROVE  Ledger!LedgerNext
<1>1. \A j \in JobIDs : Life(j)' = IF Life(j) = "running" THEN "pending" ELSE Life(j)
  <2>. SUFFICES ASSUME NEW j \in JobIDs
                PROVE  Life(j)' = IF Life(j) = "running" THEN "pending" ELSE Life(j)
    OBVIOUS
  <2>1. reply' = reply /\ rowStatus'[j] = Reset(rowStatus[j])
    BY DEF Restart
  <2>. QED  BY <2>1 DEF Life, Reset
<1>2. Ledger!Recover
  BY <1>1 DEF Ledger!Recover, Restart
<1>. QED  BY <1>2 DEF Ledger!LedgerNext

\* The SQLite queue with its workers, crashes, restarts and failing statements
\* implements the abstract ledger: decisions survive and are never revised.
THEOREM Refinement == Spec => ImplementsLedger
<1>1. Init => Ledger!LedgerInit
  <2>. SUFFICES ASSUME Init PROVE Ledger!LedgerInit
    OBVIOUS
  <2>1. \A j \in JobIDs : Life(j) = "new"
    BY DEF Init, Life
  <2>. QED  BY <2>1 DEF Ledger!LedgerInit, Init
<1>2. Inv /\ [Next]_vars => [Ledger!LedgerNext]_(Ledger!ledgerVars)
  <2>. SUFFICES ASSUME Inv, [Next]_vars
                PROVE  [Ledger!LedgerNext]_(Ledger!ledgerVars)
    OBVIOUS
  <2>1. ASSUME NEW j \in JobIDs, EnqueueInserted(j) \/ EnqueueRefused(j)
        PROVE  [Ledger!LedgerNext]_(Ledger!ledgerVars)
    BY <2>1, LedgerEnqueue
  <2>2. ASSUME NEW w \in Workers, WorkerStep(w)
        PROVE  [Ledger!LedgerNext]_(Ledger!ledgerVars)
    BY <2>2, LedgerWorker
  <2>3. CASE Restart
    BY <2>3, LedgerRestart
  <2>4. CASE Shutdown \/ Close \/ Crash \/ UNCHANGED vars
    BY <2>4, LedgerStutter
       DEF Shutdown, Close, Crash, vars, queueVars, table, history
  <2>. QED  BY <2>1, <2>2, <2>3, <2>4 DEF Next
<1>. QED  BY <1>1, <1>2, Invariance, PTL DEF Spec, ImplementsLedger, Ledger!LedgerSpec
=============================================================================
