------------------------ MODULE MemoryJobQueueProofs ------------------------
(***************************************************************************)
(* Proofs about MemoryJobQueue for any set of jobs, any set of workers and *)
(* any capacity and retry limit.                                           *)
(***************************************************************************)
EXTENDS MemoryJobQueue, TLAPS, SequenceTheorems

\* A send adds one id to the channel and keeps its ids distinct.
LEMMA AppendSet ==
  ASSUME NEW S, NEW s \in Seq(S), NEW e \in S
  PROVE  /\ Append(s, e) \in Seq(S)
         /\ Len(Append(s, e)) = Len(s) + 1
         /\ ToSet(Append(s, e)) = ToSet(s) \cup {e}
         /\ IsInjective(s) /\ e \notin ToSet(s) => IsInjective(Append(s, e))
  BY AppendProperties DEF ToSet, IsInjective

\* A receive removes the head, and nothing else, from a channel of distinct
\* ids.
LEMMA TailSet ==
  ASSUME NEW S, NEW s \in Seq(S), s # <<>>, IsInjective(s)
  PROVE  /\ Head(s) \in S
         /\ Tail(s) \in Seq(S)
         /\ Len(Tail(s)) < Len(s)
         /\ Head(s) \in ToSet(s)
         /\ ToSet(Tail(s)) = ToSet(s) \ {Head(s)}
         /\ IsInjective(Tail(s))
<1>1. /\ Head(s) \in S /\ Tail(s) \in Seq(S) /\ Len(Tail(s)) = Len(s) - 1
      /\ \A i \in 1..Len(Tail(s)) : Tail(s)[i] = s[i+1]
  BY HeadTailProperties
<1>2. /\ Len(s) \in Nat \ {0} /\ Head(s) = s[1]
      /\ DOMAIN s = 1..Len(s) /\ DOMAIN Tail(s) = 1..Len(Tail(s))
  BY <1>1
<1>3. IsInjective(Tail(s))
  BY <1>1, <1>2 DEF IsInjective
<1>4. ToSet(Tail(s)) = ToSet(s) \ {Head(s)}
  <2>1. ASSUME NEW e \in ToSet(Tail(s)) PROVE e \in ToSet(s) \ {Head(s)}
    BY <1>1, <1>2 DEF ToSet, IsInjective
  <2>2. ASSUME NEW e \in ToSet(s) \ {Head(s)} PROVE e \in ToSet(Tail(s))
    <3>1. PICK i \in 1..Len(s) : s[i] = e
      BY <1>2 DEF ToSet
    <3>2. i - 1 \in 1..Len(Tail(s)) /\ Tail(s)[i - 1] = e
      BY <3>1, <1>1, <1>2
    <3>. QED  BY <3>2, <1>2 DEF ToSet
  <2>. QED  BY <2>1, <2>2
<1>5. Head(s) \in ToSet(s)
  BY <1>2 DEF ToSet
<1>6. Len(Tail(s)) < Len(s)
  BY <1>1, <1>2
<1>. QED  BY <1>1, <1>3, <1>4, <1>5, <1>6

----------------------------------------------------------------------------
\* The initial state satisfies the invariant.
LEMMA InitInv == Init => Inv
<1>. SUFFICES ASSUME Init PROVE Inv
  OBVIOUS
<1>. USE QueueAssumption DEF Init, PoolInit
<1>1. TypeOK
  <2>1. jobs \in Seq(JobIDs) /\ Len(jobs) <= BufferSize
    OBVIOUS
  <2>2. retryCount \in [JobIDs -> 0..MaxRetries]
    OBVIOUS
  <2>. QED  BY <2>1, <2>2 DEF TypeOK, PoolTypeOK, Places, JobStatuses
<1>2. JobsConserved
  BY DEF JobsConserved, Accepted
<1>3. PendingIsReachable
  BY DEF PendingIsReachable, InChannel, InTransit, ToSet, IsInjective
<1>4. RunningIsHeld
  BY DEF RunningIsHeld, Held, Holding
<1>5. StatusAgrees
  BY DEF StatusAgrees
<1>6. AttemptsBounded
  BY DEF AttemptsBounded
<1>. QED  BY <1>1, <1>2, <1>3, <1>4, <1>5, <1>6 DEF Inv

\* What a step of the pool alone leaves of the queue's invariant: no worker
\* starts or stops carrying a job.
LEMMA PoolStepInv ==
  ASSUME Inv, NEW w \in Workers, PoolStep(w)
  PROVE  Inv'
<1>. USE QueueAssumption DEF PoolStep, LoopTop, DequeueTimeout,
                             DequeueCancelled, Execute, Goto, queueVars
<1>1. TypeOK'
  BY DEF Inv, TypeOK, PoolTypeOK, Places
<1>2. /\ wjob' = wjob /\ phase' = phase
      /\ \A v \in Workers : /\ Held(v)' <=> Held(v)
                            /\ wpc'[v] = "received" <=> wpc[v] = "received"
                            /\ wpc[v] = "exited" => wpc'[v] = "exited"
  BY DEF Inv, TypeOK, PoolTypeOK, Places, Held, Holding
<1>3. \A j : InTransit(j)' <=> InTransit(j)
  BY <1>2 DEF InTransit
<1>4. JobsConserved'
  BY DEF Inv, JobsConserved, Accepted
<1>5. PendingIsReachable'
  BY <1>3 DEF Inv, PendingIsReachable, InChannel
<1>6. RunningIsHeld'
  BY <1>2 DEF Inv, RunningIsHeld
<1>7. StatusAgrees' /\ AttemptsBounded'
  BY DEF Inv, StatusAgrees, AttemptsBounded, Accepted
<1>8. phase' = "stopped" => AllExited'
  BY <1>2 DEF Inv, AllExited
<1>. QED  BY <1>1, <1>4, <1>5, <1>6, <1>7, <1>8 DEF Inv

\* An accepted job joins the pending map and the channel together.
LEMMA EnqueueAcceptedInv ==
  ASSUME Inv, NEW j \in JobIDs, EnqueueAccepted(j)
  PROVE  Inv'
<1>. USE QueueAssumption DEF EnqueueAccepted, Send, SetStatus, Reply, Full,
                             poolVars
<1>1. /\ j \notin pending \cup running \cup completed
      /\ j \notin ToSet(jobs) /\ ~InTransit(j)
  BY DEF Inv, TypeOK, JobsConserved, PendingIsReachable, InChannel, Accepted
<1>2. /\ jobs' \in Seq(JobIDs) /\ Len(jobs') = Len(jobs) + 1
      /\ ToSet(jobs') = ToSet(jobs) \cup {j}
      /\ IsInjective(jobs')
  BY <1>1, AppendSet DEF Inv, TypeOK, PendingIsReachable
<1>3. TypeOK'
  BY <1>2 DEF Inv, TypeOK, PoolTypeOK, JobStatuses
<1>4. JobsConserved'
  BY <1>1 DEF Inv, TypeOK, JobsConserved, Accepted
<1>5. PendingIsReachable'
  BY <1>1, <1>2 DEF Inv, PendingIsReachable, InChannel, InTransit
<1>6. RunningIsHeld' /\ (phase' = "stopped" => AllExited')
  BY DEF Inv, RunningIsHeld, Held, AllExited
<1>7. StatusAgrees'
  BY <1>1 DEF Inv, TypeOK, StatusAgrees, Accepted
<1>8. AttemptsBounded'
  BY <1>1 DEF Inv, TypeOK, StatusAgrees, AttemptsBounded, Accepted
<1>. QED  BY <1>3, <1>4, <1>5, <1>6, <1>7, <1>8 DEF Inv

\* A refused job leaves the queue as it was.
LEMMA EnqueueRefusedInv ==
  ASSUME Inv, NEW j \in JobIDs, EnqueueRejected(j) \/ EnqueueFull(j)
  PROVE  Inv'
<1>. USE QueueAssumption DEF EnqueueRejected, EnqueueFull, TakenBack, SetStatus,
                             Reply, poolVars
<1>1. /\ ~Accepted(j) /\ ~Accepted(j)'
      /\ \A k \in JobIDs : Accepted(k)' <=> Accepted(k)
  BY DEF Inv, TypeOK, Accepted
<1>2. /\ j \notin running \cup completed
      /\ jobStatus[j] \in {"unset", "pending"}
      /\ pending' = pending
  BY <1>1 DEF Inv, JobsConserved, StatusAgrees
<1>3. /\ jobStatus'[j] \in {"unset", "pending"}
      /\ \A k \in JobIDs \ {j} : jobStatus'[k] = jobStatus[k]
  BY <1>2 DEF Inv, TypeOK
<1>4. TypeOK'
  BY <1>2 DEF Inv, TypeOK, PoolTypeOK, JobStatuses
<1>5. JobsConserved'
  BY <1>1, <1>2 DEF Inv, JobsConserved
<1>6. PendingIsReachable'
  BY <1>2 DEF Inv, PendingIsReachable, InChannel, InTransit
<1>7. RunningIsHeld' /\ (phase' = "stopped" => AllExited')
  BY DEF Inv, RunningIsHeld, Held, AllExited
<1>8. StatusAgrees'
  <2>1. j \notin pending
    BY <1>1 DEF Inv, JobsConserved
  <2>. QED  BY <1>1, <1>2, <1>3, <2>1 DEF Inv, StatusAgrees
<1>9. AttemptsBounded'
  BY <1>2, <1>3 DEF Inv, AttemptsBounded
<1>. QED  BY <1>4, <1>5, <1>6, <1>7, <1>8, <1>9 DEF Inv

\* A receive moves an id from the channel to the worker's hands.
LEMMA ReceiveInv ==
  ASSUME Inv, NEW w \in Workers, Receive(w)
  PROVE  Inv'
<1>. USE QueueAssumption DEF Receive, Take, Goto
<1>. DEFINE j == Head(jobs)
<1>1. /\ j \in JobIDs /\ j \in ToSet(jobs)
      /\ jobs' \in Seq(JobIDs) /\ Len(jobs') < Len(jobs)
      /\ ToSet(jobs') = ToSet(jobs) \ {j} /\ IsInjective(jobs')
  BY TailSet DEF Inv, TypeOK, PendingIsReachable
<1>2. /\ wpc[w] = "dequeue" /\ wpc'[w] = "received" /\ wjob'[w] = j
      /\ \A v \in Workers \ {w} : wpc'[v] = wpc[v] /\ wjob'[v] = wjob[v]
  BY DEF Inv, TypeOK, PoolTypeOK
<1>3. ~InTransit(j) /\ j \in pending /\ j \notin running
  BY <1>1 DEF Inv, PendingIsReachable, JobsConserved, InChannel
<1>4. \A v \in Workers : wjob[v] # j
  <2>1. j # NoJob
    BY <1>1
  <2>2. ASSUME NEW v \in Workers, wjob[v] = j PROVE FALSE
    <3>1. Held(v) \/ wpc[v] = "received"
      BY <2>1, <2>2 DEF Inv, RunningIsHeld
    <3>2. ~Held(v)
      BY <1>3, <2>2 DEF Inv, RunningIsHeld
    <3>. QED  BY <1>3, <2>2, <3>1, <3>2 DEF InTransit
  <2>. QED  BY <2>2
<1>5. TypeOK'
  <2>1. Len(jobs') <= BufferSize
    BY <1>1 DEF Inv, TypeOK
  <2>. QED  BY <1>1, <2>1 DEF Inv, TypeOK, PoolTypeOK, Places
<1>6. JobsConserved'
  BY DEF Inv, JobsConserved, Accepted
<1>7. \A k : InTransit(k)' <=> InTransit(k) \/ k = j
  BY <1>2 DEF InTransit
<1>8. PendingIsReachable'
  <2>1. InChannel' = InChannel \ {j}
    BY <1>1 DEF InChannel
  <2>. QED  BY <1>1, <1>3, <1>7, <2>1 DEF Inv, PendingIsReachable
<1>9. RunningIsHeld'
  <2>1. \A v \in Workers : Held(v)' <=> Held(v)
    BY <1>2 DEF Held, Holding
  <2>2. ~Held(w)
    BY <1>2 DEF Held, Holding
  <2>3. running' = {wjob'[v] : v \in {u \in Workers : Held(u)'}}
    BY <2>1, <2>2, <1>2 DEF Inv, RunningIsHeld
  <2>4. \A v, u \in Workers : wjob'[v] = wjob'[u] /\ wjob'[v] # NoJob => v = u
    BY <1>2, <1>4 DEF Inv, RunningIsHeld
  <2>5. \A v \in Workers : wjob'[v] = NoJob <=> ~Held(v)' /\ wpc'[v] # "received"
    BY <1>1, <1>2, <2>1 DEF Inv, RunningIsHeld
  <2>. QED  BY <2>3, <2>4, <2>5 DEF RunningIsHeld
<1>10. StatusAgrees' /\ AttemptsBounded'
  BY DEF Inv, StatusAgrees, AttemptsBounded, Accepted
<1>11. phase' = "stopped" => AllExited'
  BY <1>2 DEF Inv, AllExited
<1>. QED  BY <1>5, <1>6, <1>8, <1>9, <1>10, <1>11 DEF Inv

\* The locked half of Dequeue moves the received job to the running map.
LEMMA MarkRunningInv ==
  ASSUME Inv, NEW w \in Workers, MarkRunning(w)
  PROVE  Inv'
<1>. USE QueueAssumption DEF MarkRunning, Dequeued, Goto, SetStatus
<1>. DEFINE j == wjob[w]
<1>1. /\ wpc[w] = "received" /\ wpc'[w] = "execute" /\ wjob' = wjob
      /\ \A v \in Workers \ {w} : wpc'[v] = wpc[v]
  BY DEF Inv, TypeOK, PoolTypeOK
<1>2. j \in JobIDs /\ j # NoJob
  BY <1>1 DEF Inv, TypeOK, RunningIsHeld
<1>3. /\ InTransit(j) /\ j \in pending /\ j \notin InChannel
      /\ j \notin running /\ j \notin completed /\ jobStatus[j] = "pending"
      /\ Accepted(j)
  <2>1. InTransit(j)
    BY <1>1 DEF InTransit
  <2>. QED  BY <1>2, <2>1 DEF Inv, PendingIsReachable, JobsConserved, StatusAgrees
<1>4. TypeOK'
  BY <1>2 DEF Inv, TypeOK, PoolTypeOK, Places, JobStatuses
<1>5. JobsConserved'
  BY <1>3 DEF Inv, JobsConserved, Accepted
<1>6. PendingIsReachable'
  <2>1. \A k \in JobIDs : InTransit(k)' <=> InTransit(k) /\ k # j
    BY <1>1, <1>2 DEF InTransit, Inv, RunningIsHeld
  <2>2. InChannel' = InChannel /\ InChannel \subseteq JobIDs
    BY DEF InChannel, Inv, TypeOK, ToSet
  <2>. QED  BY <1>3, <2>1, <2>2 DEF Inv, PendingIsReachable
<1>7. RunningIsHeld'
  <2>1. \A v \in Workers : Held(v)' <=> Held(v) \/ v = w
    BY <1>1 DEF Held, Holding
  <2>2. running' = {wjob'[v] : v \in {u \in Workers : Held(u)'}}
    BY <2>1, <1>1 DEF Inv, RunningIsHeld
  <2>3. \A v \in Workers : wjob'[v] = NoJob <=> ~Held(v)' /\ wpc'[v] # "received"
    BY <1>1, <1>2, <2>1 DEF Inv, RunningIsHeld
  <2>. QED  BY <1>1, <2>2, <2>3 DEF Inv, RunningIsHeld
<1>8. /\ jobStatus'[j] = "running" /\ runs'[j] = runs[j] + 1
      /\ \A k \in JobIDs \ {j} : jobStatus'[k] = jobStatus[k] /\ runs'[k] = runs[k]
  BY <1>2 DEF Inv, TypeOK
<1>9. StatusAgrees'
  BY <1>3, <1>8 DEF Inv, StatusAgrees, Accepted
<1>10. AttemptsBounded'
  <2>1. runs[j] = retryCount[j] + 0
    BY <1>2, <1>3 DEF Inv, AttemptsBounded
  <2>2. retryCount[j] < MaxRetries /\ retryCount[j] \in Nat
    BY <1>2, <1>3 DEF Inv, TypeOK, StatusAgrees
  <2>3. runs'[j] = retryCount[j] + 1 /\ runs'[j] <= MaxRetries
    BY <1>8, <2>1, <2>2
  <2>. QED  BY <1>8, <2>3 DEF Inv, AttemptsBounded
<1>11. phase' = "stopped" => AllExited'
  BY <1>1 DEF Inv, AllExited
<1>. QED  BY <1>4, <1>5, <1>6, <1>7, <1>9, <1>10, <1>11 DEF Inv

\* Worker w hands its job back (Ack or Nack): what every such step does to
\* the workers, whatever becomes of the job.
LEMMA DecideKeepsWorkers ==
  ASSUME Inv, NEW w \in Workers, NEW verdict \in {"ack", "nack"},
         Decide(w, verdict), Release(wjob[w])
  PROVE  /\ wjob[w] \in JobIDs
         /\ \A k \in JobIDs : InTransit(k)' <=> InTransit(k)
         /\ ~InTransit(wjob[w])
         /\ RunningIsHeld'
         /\ PoolTypeOK' /\ wjob' \in [Workers -> JobIDs \cup {NoJob}]
         /\ phase' = "stopped" => AllExited'
<1>. USE QueueAssumption DEF Decide, Goto
<1>. DEFINE j == wjob[w]
<1>1. /\ wpc[w] \in Holding /\ wpc'[w] = "top" /\ wjob'[w] = NoJob
      /\ \A v \in Workers \ {w} : wpc'[v] = wpc[v] /\ wjob'[v] = wjob[v]
  BY DEF Inv, TypeOK, PoolTypeOK, Holding
<1>2. j \in JobIDs /\ j # NoJob
  BY <1>1 DEF Inv, TypeOK, RunningIsHeld, Held
<1>3. \A v \in Workers : wjob[v] = j => v = w
  BY <1>2 DEF Inv, RunningIsHeld
<1>4. \A k \in JobIDs : InTransit(k)' <=> InTransit(k)
  BY <1>1 DEF InTransit
<1>5. ~InTransit(j)
  BY <1>1, <1>3 DEF InTransit, Holding
<1>6. RunningIsHeld'
  <2>1. /\ Held(w) /\ ~Held(w)'
        /\ \A v \in Workers \ {w} : Held(v)' <=> Held(v)
    BY <1>1 DEF Held, Holding
  <2>2. running' = {wjob'[v] : v \in {u \in Workers : Held(u)'}}
    BY <1>1, <1>3, <2>1 DEF Inv, RunningIsHeld, Release
  <2>3. \A v, u \in Workers : wjob'[v] = wjob'[u] /\ wjob'[v] # NoJob => v = u
    BY <1>1 DEF Inv, RunningIsHeld
  <2>4. \A v \in Workers : wjob'[v] = NoJob <=> ~Held(v)' /\ wpc'[v] # "received"
    BY <1>1, <2>1 DEF Inv, RunningIsHeld
  <2>. QED  BY <2>2, <2>3, <2>4 DEF RunningIsHeld
<1>7. PoolTypeOK' /\ wjob' \in [Workers -> JobIDs \cup {NoJob}]
  BY DEF Inv, TypeOK, PoolTypeOK, Places
<1>8. phase' = "stopped" => AllExited'
  BY <1>1 DEF Inv, AllExited, Holding
<1>. QED  BY <1>2, <1>4, <1>5, <1>6, <1>7, <1>8

\* What is known of the job that worker w gives back.
LEMMA JobGivenBack ==
  ASSUME Inv, NEW j \in running
  PROVE  /\ j \in JobIDs
         /\ j \notin pending /\ j \notin completed /\ j \notin InChannel
         /\ Accepted(j)
         /\ jobStatus[j] = "running"
         /\ retryCount[j] \in Nat /\ retryCount[j] < MaxRetries
         /\ runs[j] = retryCount[j] + 1
<1>1. j \in JobIDs
  BY DEF Inv, TypeOK
<1>2. j \notin pending /\ j \notin completed /\ Accepted(j)
  BY <1>1 DEF Inv, JobsConserved
<1>3. jobStatus[j] = "running"
  BY <1>1 DEF Inv, StatusAgrees
<1>4. j \notin InChannel
  BY <1>1, <1>2 DEF Inv, PendingIsReachable
<1>5. retryCount[j] \in Nat /\ retryCount[j] < MaxRetries
  BY <1>1, <1>3, QueueAssumption DEF Inv, TypeOK, StatusAgrees
<1>6. runs[j] = retryCount[j] + 1
  BY <1>1, <1>3 DEF Inv, AttemptsBounded
<1>. QED  BY <1>1, <1>2, <1>3, <1>4, <1>5, <1>6

\* Ack settles the job as completed.
LEMMA AckInv ==
  ASSUME Inv, NEW w \in Workers, Ack(w)
  PROVE  Inv'
<1>. USE QueueAssumption DEF Ack, Settle, SetStatus
<1>. DEFINE j == wjob[w]
<1>1. /\ j \in JobIDs /\ \A k \in JobIDs : InTransit(k)' <=> InTransit(k)
      /\ RunningIsHeld' /\ (phase' = "stopped" => AllExited')
      /\ PoolTypeOK' /\ wjob' \in [Workers -> JobIDs \cup {NoJob}]
  BY DecideKeepsWorkers
<1>2. /\ j \notin pending /\ Accepted(j) /\ jobStatus[j] = "running"
      /\ retryCount[j] \in Nat /\ retryCount[j] < MaxRetries
      /\ runs[j] = retryCount[j] + 1
  BY JobGivenBack
<1>3. TypeOK'
  BY <1>1 DEF Inv, TypeOK, JobStatuses, Release
<1>4. JobsConserved'
  BY <1>1, <1>2 DEF Inv, JobsConserved, Accepted, Release
<1>5. PendingIsReachable'
  <2>1. InChannel' = InChannel /\ InChannel \subseteq JobIDs
    BY DEF InChannel, Inv, TypeOK, ToSet
  <2>. QED  BY <1>1, <2>1 DEF Inv, PendingIsReachable
<1>6. /\ jobStatus'[j] = "completed"
      /\ \A k \in JobIDs \ {j} : jobStatus'[k] = jobStatus[k]
  BY <1>1 DEF Inv, TypeOK
<1>7. StatusAgrees'
  BY <1>1, <1>2, <1>6 DEF Inv, StatusAgrees, Accepted, Release
<1>8. AttemptsBounded'
  <2>1. runs'[j] = retryCount'[j] + 1 /\ runs'[j] <= MaxRetries
    BY <1>2
  <2>. QED  BY <1>6, <2>1 DEF Inv, AttemptsBounded
<1>. QED  BY <1>1, <1>3, <1>4, <1>5, <1>7, <1>8 DEF Inv

\* A failed attempt with attempts left puts the job back in the map and in
\* the channel together.
LEMMA NackRetryInv ==
  ASSUME Inv, NEW w \in Workers, NackRetry(w)
  PROVE  Inv'
<1>. USE QueueAssumption DEF NackRetry, SetStatus, Failed, Send, Full, RetryLeft
<1>. DEFINE j == wjob[w]
<1>1. /\ j \in JobIDs /\ \A k \in JobIDs : InTransit(k)' <=> InTransit(k)
      /\ ~InTransit(j)
      /\ RunningIsHeld' /\ (phase' = "stopped" => AllExited')
      /\ PoolTypeOK' /\ wjob' \in [Workers -> JobIDs \cup {NoJob}]
  BY DecideKeepsWorkers
<1>2. /\ j \notin pending /\ j \notin completed /\ j \notin InChannel
      /\ Accepted(j) /\ jobStatus[j] = "running"
      /\ retryCount[j] \in Nat /\ retryCount[j] + 1 < MaxRetries
      /\ runs[j] = retryCount[j] + 1
  BY JobGivenBack
<1>3. /\ jobs' \in Seq(JobIDs) /\ Len(jobs') = Len(jobs) + 1
      /\ InChannel' = InChannel \cup {j} /\ IsInjective(jobs')
  BY <1>1, <1>2, AppendSet DEF Inv, TypeOK, PendingIsReachable, InChannel
<1>4. /\ jobStatus'[j] = "pending" /\ retryCount'[j] = retryCount[j] + 1
      /\ \A k \in JobIDs \ {j} : /\ jobStatus'[k] = jobStatus[k]
                                /\ retryCount'[k] = retryCount[k]
  BY <1>1 DEF Inv, TypeOK
<1>5. TypeOK'
  <2>1. Len(jobs') <= BufferSize
    BY <1>3 DEF Inv, TypeOK
  <2>2. retryCount[j] + 1 \in 0..MaxRetries
    BY <1>2
  <2>3. retryCount' \in [JobIDs -> 0..MaxRetries]
    BY <1>1, <2>2 DEF Inv, TypeOK
  <2>. QED  BY <1>1, <1>3, <2>1, <2>3 DEF Inv, TypeOK, JobStatuses, Release
<1>6. JobsConserved'
  BY <1>1, <1>2 DEF Inv, JobsConserved, Accepted, Release
<1>7. PendingIsReachable'
  <2>1. InChannel \subseteq JobIDs
    BY DEF InChannel, Inv, TypeOK, ToSet
  <2>. QED  BY <1>1, <1>3, <2>1 DEF Inv, PendingIsReachable
<1>8. StatusAgrees'
  BY <1>1, <1>2, <1>4 DEF Inv, StatusAgrees, Accepted, Release
<1>9. AttemptsBounded'
  <2>1. runs'[j] = retryCount'[j] + 0 /\ runs'[j] <= MaxRetries
    BY <1>2, <1>4
  <2>. QED  BY <1>4, <2>1 DEF Inv, AttemptsBounded
<1>. QED  BY <1>1, <1>5, <1>6, <1>7, <1>8, <1>9 DEF Inv

\* A failed attempt that is not retried, for want of room or of attempts.
LEMMA NackGiveUpInv ==
  ASSUME Inv, NEW w \in Workers, NackFull(w) \/ NackFail(w)
  PROVE  Inv'
<1>. USE QueueAssumption DEF NackFull, NackFail, Settle, SetStatus, Failed, TakenBack
<1>. DEFINE j == wjob[w]
<1>1. /\ j \in JobIDs /\ \A k \in JobIDs : InTransit(k)' <=> InTransit(k)
      /\ RunningIsHeld' /\ (phase' = "stopped" => AllExited')
      /\ PoolTypeOK' /\ wjob' \in [Workers -> JobIDs \cup {NoJob}]
  BY DecideKeepsWorkers
<1>2. /\ j \notin pending /\ Accepted(j) /\ jobStatus[j] = "running"
      /\ retryCount[j] \in Nat /\ retryCount[j] < MaxRetries
      /\ runs[j] = retryCount[j] + 1
  BY JobGivenBack
<1>3. pending' = pending
  <2>1. CASE NackFull(w)
    BY <1>2, <2>1
  <2>2. CASE NackFail(w)
    BY <2>2
  <2>. QED  BY <2>1, <2>2
<1>4. /\ jobStatus'[j] = "failed" /\ retryCount'[j] = retryCount[j] + 1
      /\ \A k \in JobIDs \ {j} : /\ jobStatus'[k] = jobStatus[k]
                                /\ retryCount'[k] = retryCount[k]
  BY <1>1 DEF Inv, TypeOK
<1>5. TypeOK'
  <2>1. retryCount[j] + 1 \in 0..MaxRetries
    BY <1>2
  <2>2. retryCount' \in [JobIDs -> 0..MaxRetries]
    <3>1. retryCount' = [retryCount EXCEPT ![j] = @ + 1]
      OBVIOUS
    <3>2. retryCount \in [JobIDs -> 0..MaxRetries]
      BY DEF Inv, TypeOK
    <3>. QED  BY <1>1, <2>1, <3>1, <3>2
  <2>3. jobStatus' \in [JobIDs -> JobStatuses]
    BY <1>1 DEF Inv, TypeOK, JobStatuses
  <2>4. /\ running' \in SUBSET JobIDs /\ completed' \in SUBSET JobIDs
        /\ pending' \in SUBSET JobIDs
    BY <1>1, <1>3 DEF Inv, TypeOK, Release
  <2>5. UNCHANGED <<jobs, closed, reply, runs>>
    OBVIOUS
  <2>. QED  BY <1>1, <2>2, <2>3, <2>4, <2>5 DEF Inv, TypeOK
<1>6. JobsConserved'
  BY <1>1, <1>2, <1>3 DEF Inv, JobsConserved, Accepted, Release
<1>7. PendingIsReachable'
  <2>1. InChannel' = InChannel /\ InChannel \subseteq JobIDs
    BY DEF InChannel, Inv, TypeOK, ToSet
  <2>. QED  BY <1>1, <1>3, <2>1 DEF Inv, PendingIsReachable
<1>8. StatusAgrees'
  BY <1>1, <1>2, <1>3, <1>4 DEF Inv, StatusAgrees, Accepted, Release
<1>9. AttemptsBounded'
  <2>1. runs'[j] = retryCount'[j] + 0 /\ runs'[j] <= MaxRetries
    BY <1>2, <1>4
  <2>. QED  BY <1>4, <2>1 DEF Inv, AttemptsBounded
<1>. QED  BY <1>1, <1>5, <1>6, <1>7, <1>8, <1>9 DEF Inv

----------------------------------------------------------------------------
\* Stop and Close touch no job.
LEMMA ShutdownInv ==
  ASSUME Inv, Shutdown \/ Close
  PROVE  Inv'
<1>. USE QueueAssumption DEF Shutdown, StopPool, PoolStopped, Close, queueVars,
                             poolVars
<1>1. wpc' = wpc /\ wjob' = wjob
  OBVIOUS
<1>2. TypeOK'
  BY DEF Inv, TypeOK, PoolTypeOK
<1>3. JobsConserved' /\ StatusAgrees' /\ AttemptsBounded'
  BY DEF Inv, JobsConserved, StatusAgrees, AttemptsBounded, Accepted
<1>4. PendingIsReachable'
  BY <1>1 DEF Inv, PendingIsReachable, InChannel, InTransit
<1>5. RunningIsHeld'
  BY <1>1 DEF Inv, RunningIsHeld, Held
<1>6. phase' = "stopped" => AllExited'
  BY <1>1 DEF Inv, AllExited
<1>. QED  BY <1>2, <1>3, <1>4, <1>5, <1>6 DEF Inv

LEMMA StutterInv ==
  ASSUME Inv, UNCHANGED vars
  PROVE  Inv'
<1>. USE DEF vars, queueVars, poolVars
<1>1. TypeOK'
  BY DEF Inv, TypeOK, PoolTypeOK
<1>2. JobsConserved' /\ StatusAgrees' /\ AttemptsBounded'
  BY DEF Inv, JobsConserved, StatusAgrees, AttemptsBounded, Accepted
<1>3. PendingIsReachable'
  BY DEF Inv, PendingIsReachable, InChannel, InTransit
<1>4. RunningIsHeld' /\ (phase' = "stopped" => AllExited')
  BY DEF Inv, RunningIsHeld, Held, AllExited
<1>. QED  BY <1>1, <1>2, <1>3, <1>4 DEF Inv

\* Every step of the queue, its workers and its handlers keeps the invariant.
LEMMA NextInv == Inv /\ [Next]_vars => Inv'
<1>. SUFFICES ASSUME Inv, [Next]_vars PROVE Inv'
  OBVIOUS
<1>1. ASSUME NEW j \in JobIDs, Enqueue(j) PROVE Inv'
  BY <1>1, EnqueueAcceptedInv, EnqueueRefusedInv DEF Enqueue
<1>2. ASSUME NEW w \in Workers, WorkerStep(w) PROVE Inv'
  BY <1>2, PoolStepInv, ReceiveInv, MarkRunningInv, AckInv, NackRetryInv,
     NackGiveUpInv DEF WorkerStep
<1>3. ASSUME Shutdown \/ Close PROVE Inv'
  BY <1>3, ShutdownInv
<1>4. CASE UNCHANGED vars
  BY <1>4, StutterInv
<1>. QED  BY <1>1, <1>2, <1>3, <1>4 DEF Next

THEOREM Invariance == Spec => []Inv
BY InitInv, NextInv, PTL DEF Spec

\* Type correctness: in particular the channel never holds more than its
\* capacity and no retry counter passes MaxRetries.
THEOREM TypeCorrect == Spec => []TypeOK
<1>1. Inv => TypeOK
  BY DEF Inv
<1>. QED  BY <1>1, Invariance, PTL

\* No accepted job is lost, duplicated or stranded, whatever the number of
\* handlers and workers and however they interleave.
THEOREM NoJobLost == Spec => [](JobsConserved /\ PendingIsReachable)
<1>1. Inv => JobsConserved /\ PendingIsReachable
  BY DEF Inv
<1>. QED  BY <1>1, Invariance, PTL

\* A running job is held by exactly one worker.
THEOREM OneWorkerPerJob == Spec => []RunningIsHeld
<1>1. Inv => RunningIsHeld
  BY DEF Inv
<1>. QED  BY <1>1, Invariance, PTL

\* The status the API reports agrees with the map the job is in.
THEOREM StatusIsRight == Spec => []StatusAgrees
<1>1. Inv => StatusAgrees
  BY DEF Inv
<1>. QED  BY <1>1, Invariance, PTL

\* No job is handed to a worker more than MaxRetries times.
THEOREM BoundedAttempts == Spec => []AttemptsBounded
<1>1. Inv => AttemptsBounded
  BY DEF Inv
<1>. QED  BY <1>1, Invariance, PTL

\* When Stop returns no job is running: wg.Wait has seen every worker leave,
\* and a worker leaves with empty hands.
THEOREM GracefulStop == Spec => []StopDrainsRunning
<1>1. Inv => StopDrainsRunning
  <2>. SUFFICES ASSUME Inv, phase = "stopped" PROVE running = {}
    BY DEF StopDrainsRunning
  <2>1. \A w \in Workers : ~Held(w)
    BY DEF Inv, AllExited, Held, Holding
  <2>. QED  BY <2>1 DEF Inv, RunningIsHeld
<1>. QED  BY <1>1, Invariance, PTL

----------------------------------------------------------------------------
(* Refinement: a job's life, read off the maps, follows the ledger.        *)

LifeFacts ==
  \A j \in JobIDs :
    /\ j \in pending => Life(j) = "pending"
    /\ j \in running => Life(j) = "running"
    /\ j \in completed => Life(j) = jobStatus[j]
    /\ ~Accepted(j) => Life(j) = IF reply[j] = "none" THEN "new" ELSE "refused"
    /\ \/ j \in pending \/ j \in running \/ j \in completed \/ ~Accepted(j)

LEMMA LifeByMap == (Inv => LifeFacts) /\ (Inv' => LifeFacts')
<1>1. Inv => LifeFacts
  BY DEF Inv, JobsConserved, LifeFacts, Life
<1>2. Inv' => LifeFacts'
  BY DEF Inv, JobsConserved, LifeFacts, Life
<1>. QED  BY <1>1, <1>2

\* A step that changes the life of one job only is a ledger Move of it.
LEMMA MoveOfOne ==
  ASSUME NEW j \in JobIDs, NEW from, NEW to,
         Life(j) = from, Life(j)' = to,
         \A k \in JobIDs \ {j} : Life(k)' = Life(k)
  PROVE  Ledger!Move(j, from, to)
  BY DEF Ledger!Move

\* A step that changes no map, reply or retry counter is a ledger stutter.
LEMMA LedgerStutter ==
  ASSUME UNCHANGED <<pending, running, completed, jobStatus, reply, retryCount>>
  PROVE  UNCHANGED Ledger!ledgerVars
  BY DEF Ledger!ledgerVars, Life

LEMMA LedgerEnqueue ==
  ASSUME Inv, Inv', NEW j \in JobIDs, Enqueue(j)
  PROVE  Ledger!LedgerNext
<1>. USE DEF Reply, SetStatus, TakenBack
<1>1. LifeFacts /\ LifeFacts'
  BY LifeByMap
<1>2. j \notin pending \cup running \cup completed /\ Life(j) = "new"
  BY <1>1 DEF Inv, JobsConserved, Accepted, LifeFacts, Enqueue, EnqueueAccepted,
              EnqueueRejected, EnqueueFull
<1>3. CASE EnqueueAccepted(j)
  <2>1. Life(j)' = "pending"
    BY <1>1, <1>3 DEF LifeFacts, EnqueueAccepted
  <2>2. \A k \in JobIDs \ {j} : Life(k)' = Life(k)
    BY <1>3 DEF Inv, TypeOK, Life, EnqueueAccepted
  <2>3. Ledger!Accept(j)
    BY <1>2, <1>3, <2>1, <2>2, MoveOfOne DEF Ledger!Accept, EnqueueAccepted
  <2>. QED  BY <2>3 DEF Ledger!LedgerNext
<1>4. CASE EnqueueRejected(j) \/ EnqueueFull(j)
  <2>1. ~Accepted(j)' /\ reply'[j] = "refused"
    BY <1>4 DEF Inv, TypeOK, Accepted, EnqueueRejected, EnqueueFull
  <2>2. Life(j)' = "refused"
    BY <1>1, <2>1 DEF LifeFacts
  <2>3. pending' = pending
    BY <1>2, <1>4 DEF EnqueueRejected, EnqueueFull
  <2>4. \A k \in JobIDs \ {j} : Life(k)' = Life(k)
    BY <1>4, <2>3 DEF Inv, TypeOK, Life, EnqueueRejected, EnqueueFull
  <2>5. Ledger!Refuse(j)
    BY <1>2, <1>4, <2>2, <2>4, MoveOfOne
       DEF Ledger!Refuse, EnqueueRejected, EnqueueFull
  <2>. QED  BY <2>5 DEF Ledger!LedgerNext
<1>. QED  BY <1>3, <1>4 DEF Enqueue

LEMMA LedgerWorker ==
  ASSUME Inv, Inv', NEW w \in Workers, WorkerStep(w),
         NEW j, j = wjob[w]
  PROVE  [Ledger!LedgerNext]_(Ledger!ledgerVars)
<1>. USE DEF SetStatus, Settle, Release, Failed, TakenBack, RetryLeft
<1>1. LifeFacts /\ LifeFacts'
  BY LifeByMap
<1>2. CASE PoolStep(w) \/ Receive(w)
  BY <1>2, LedgerStutter DEF PoolStep, Receive, queueVars
<1>3. CASE MarkRunning(w)
  <2>1. j \in JobIDs /\ j \in pending /\ j \in running'
    <3>1. wpc[w] = "received" /\ j \in JobIDs
      BY <1>3 DEF MarkRunning, Dequeued, Goto, Inv, TypeOK, RunningIsHeld
    <3>2. InTransit(j)
      BY <3>1 DEF InTransit
    <3>. QED  BY <1>3, <3>1, <3>2 DEF MarkRunning, Inv, PendingIsReachable
  <2>2. Life(j) = "pending" /\ Life(j)' = "running"
    BY <1>1, <2>1 DEF LifeFacts
  <2>3. \A k \in JobIDs \ {j} : Life(k)' = Life(k)
    <3>1. /\ pending' = pending \ {j} /\ running' = running \cup {j}
          /\ completed' = completed /\ reply' = reply
          /\ \A k \in JobIDs \ {j} : jobStatus'[k] = jobStatus[k]
      BY <1>3 DEF Inv, TypeOK, MarkRunning
    <3>. QED  BY <3>1 DEF Life
  <2>4. Ledger!Begin(j)
    BY <1>3, <2>1, <2>2, <2>3, MoveOfOne DEF Ledger!Begin, MarkRunning
  <2>. QED  BY <2>1, <2>4 DEF Ledger!LedgerNext
<1>4. ASSUME j \in running
      PROVE  j \in JobIDs /\ Life(j) = "running" /\ j \notin pending
  BY <1>1, <1>4, JobGivenBack DEF LifeFacts
<1>5. CASE Ack(w)
  <2>1. j \in JobIDs /\ Life(j) = "running"
    BY <1>4, <1>5 DEF Ack
  <2>2. /\ pending' = pending /\ running' = running \ {j}
        /\ completed' = completed \cup {j} /\ reply' = reply
        /\ jobStatus'[j] = "completed"
        /\ \A k \in JobIDs \ {j} : jobStatus'[k] = jobStatus[k]
    BY <1>5, <2>1 DEF Inv, TypeOK, Ack
  <2>3. Life(j)' = "completed"
    BY <1>1, <2>1, <2>2 DEF LifeFacts
  <2>4. \A k \in JobIDs \ {j} : Life(k)' = Life(k)
    BY <2>2 DEF Life
  <2>5. Ledger!Complete(j)
    BY <1>5, <2>1, <2>3, <2>4, MoveOfOne DEF Ledger!Complete, Ack
  <2>. QED  BY <2>1, <2>5 DEF Ledger!LedgerNext
<1>6. CASE NackRetry(w)
  <2>1. j \in JobIDs /\ Life(j) = "running"
    BY <1>4, <1>6 DEF NackRetry
  <2>2. /\ pending' = pending \cup {j} /\ running' = running \ {j}
        /\ completed' = completed /\ reply' = reply
        /\ \A k \in JobIDs \ {j} : jobStatus'[k] = jobStatus[k]
    BY <1>6, <2>1 DEF Inv, TypeOK, NackRetry
  <2>3. Life(j)' = "pending"
    BY <1>1, <2>1, <2>2 DEF LifeFacts
  <2>4. \A k \in JobIDs \ {j} : Life(k)' = Life(k)
    BY <2>2 DEF Life
  <2>5. Ledger!Retry(j)
    BY <1>6, <2>1, <2>3, <2>4, MoveOfOne DEF Ledger!Retry, NackRetry
  <2>. QED  BY <2>1, <2>5 DEF Ledger!LedgerNext
<1>7. CASE NackFull(w) \/ NackFail(w)
  <2>1. j \in JobIDs /\ Life(j) = "running" /\ j \notin pending
    BY <1>4, <1>7 DEF NackFull, NackFail
  <2>2. /\ pending' = pending /\ running' = running \ {j}
        /\ completed' = completed \cup {j} /\ reply' = reply
        /\ jobStatus'[j] = "failed"
        /\ \A k \in JobIDs \ {j} : jobStatus'[k] = jobStatus[k]
    <3>1. pending' = pending
      BY <1>7, <2>1 DEF NackFull, NackFail
    <3>2. /\ running' = running \ {j} /\ completed' = completed \cup {j}
          /\ reply' = reply /\ jobStatus' = [jobStatus EXCEPT ![j] = "failed"]
      BY <1>7 DEF NackFull, NackFail
    <3>. QED  BY <2>1, <3>1, <3>2 DEF Inv, TypeOK
  <2>3. Life(j)' = "failed"
    BY <1>1, <2>1, <2>2 DEF LifeFacts
  <2>4. \A k \in JobIDs \ {j} : Life(k)' = Life(k)
    BY <2>2 DEF Life
  <2>5. Ledger!GiveUp(j)
    BY <1>7, <2>1, <2>3, <2>4, MoveOfOne DEF Ledger!GiveUp, NackFull, NackFail
  <2>. QED  BY <2>1, <2>5 DEF Ledger!LedgerNext
<1>. QED  BY <1>2, <1>3, <1>5, <1>6, <1>7 DEF WorkerStep

\* The in-memory queue, with any number of handlers and workers, implements
\* the abstract job ledger.
THEOREM Refinement == Spec => ImplementsLedger
<1>1. Init => Ledger!LedgerInit
  <2>. SUFFICES ASSUME Init PROVE Ledger!LedgerInit
    OBVIOUS
  <2>1. \A j \in JobIDs : Life(j) = "new"
    BY DEF Init, Life
  <2>. QED  BY <2>1 DEF Ledger!LedgerInit, Init
<1>2. Inv /\ Inv' /\ [Next]_vars => [Ledger!LedgerNext]_(Ledger!ledgerVars)
  <2>. SUFFICES ASSUME Inv, Inv', [Next]_vars
                PROVE  [Ledger!LedgerNext]_(Ledger!ledgerVars)
    OBVIOUS
  <2>1. ASSUME NEW j \in JobIDs, Enqueue(j)
        PROVE  [Ledger!LedgerNext]_(Ledger!ledgerVars)
    BY <2>1, LedgerEnqueue
  <2>2. ASSUME NEW w \in Workers, WorkerStep(w)
        PROVE  [Ledger!LedgerNext]_(Ledger!ledgerVars)
    BY <2>2, LedgerWorker
  <2>3. CASE Shutdown \/ Close \/ UNCHANGED vars
    BY <2>3, LedgerStutter DEF Shutdown, Close, vars, queueVars
  <2>. QED  BY <2>1, <2>2, <2>3 DEF Next
<1>. QED  BY <1>1, <1>2, Invariance, PTL DEF Spec, ImplementsLedger, Ledger!LedgerSpec
=============================================================================
