--------------------------- MODULE WorkPlaneProofs ---------------------------
(***************************************************************************)
(* Proofs about WorkPlane, for any executions, workers and limits: what a  *)
(* Stop awaits has been through sendResult when it ends, with a result     *)
(* that is sent or a failure that is logged.  That is not inductive: that  *)
(* activeExecutions is empty says something of what was owed only because  *)
(* an execution leaves it after that call, and because one that is at work *)
(* is in it (Tracking).                                                    *)
(***************************************************************************)
EXTENDS WorkPlane, TLAPS

Tracking(e) ==
  /\ e \in active => place[e] \in {"tracked", "unsent"} \/ e \in sent
  /\ place[e] = "tracked" => e \in active
  /\ e \in sent => place[e] \in {"returning", "collected", "lost"}
  /\ e \in owed => \/ e \in sent \/ place[e] = "unsent"
                   \/ place[e] = "tracked" /\ worker[holder[e]] = "draining"

IInv == TypeOK /\ \A e \in Executions : Tracking(e)

LEMMA InitIInv == Init => IInv
<1> SUFFICES ASSUME Init PROVE IInv
  OBVIOUS
<1>1. TypeOK
  BY WorkPlaneAssumption DEF Init, TypeOK, Places
<1>2. ASSUME NEW e \in Executions PROVE Tracking(e)
  BY DEF Init, Tracking
<1> QED BY <1>1, <1>2 DEF IInv

\* One step of the type invariant per action.
LEMMA StepType == TypeOK /\ [Next]_vars => TypeOK'
<1> SUFFICES ASSUME TypeOK, [Next]_vars PROVE TypeOK'
  OBVIOUS
<1> USE WorkPlaneAssumption
        DEF TypeOK, Places, Set, Move, messages, processes, registry, queue,
            history
<1>1. ASSUME NEW e \in Executions, PushWork(e) PROVE TypeOK'
  BY <1>1 DEF PushWork
<1>2. ASSUME NEW e \in Executions, Execute(e) PROVE TypeOK'
  <2>1. CASE Track(e)
    BY <2>1 DEF Track
  <2>2. CASE SendResult(e)
    BY <2>2 DEF SendResult
  <2>3. CASE SendFails(e)
    BY <2>3 DEF SendFails
  <2>4. CASE Untrack(e)
    BY <2>4 DEF Untrack
  <2> QED BY <1>2, <2>1, <2>2, <2>3, <2>4 DEF Execute
<1>3. ASSUME NEW e \in Executions, Collect(e) PROVE TypeOK'
  BY <1>3 DEF Collect, Looped
<1>4. ASSUME NEW e \in Executions, NEW w \in Workers, Deliver(e, w)
      PROVE  TypeOK'
  BY <1>4 DEF Deliver
<1>5. ASSUME NEW w \in Workers, Connect(w) PROVE TypeOK'
  BY <1>5 DEF Connect
<1>6. ASSUME NEW w \in Workers, Register(w) PROVE TypeOK'
  BY <1>6 DEF Register, Looped
<1>7. ASSUME NEW w \in Workers, Loops(w) PROVE TypeOK'
  <2>1. CASE PullerLoops(w)
    BY <2>1 DEF PullerLoops
  <2>2. ASSUME NEW e \in Executions, Receive(w, e) PROVE TypeOK'
    BY <2>2 DEF Receive
  <2> QED BY <1>7, <2>1, <2>2 DEF Loops
<1>8. ASSUME NEW w \in Workers, Stop(w) PROVE TypeOK'
  BY <1>8 DEF Stop, Tracked
<1>9. ASSUME NEW w \in Workers, Stops(w) PROVE TypeOK'
  <2>1. CASE DrainEnds(w)
    BY <2>1 DEF DrainEnds
  <2>2. CASE DrainTimesOut(w)
    BY <2>2 DEF DrainTimesOut
  <2>3. CASE StopEnds(w)
    BY <2>3 DEF StopEnds, Gone
  <2> QED BY <1>9, <2>1, <2>2, <2>3 DEF Stops
<1>10. ASSUME NEW w \in Workers, Crash(w) PROVE TypeOK'
  BY <1>10 DEF Crash, Gone
<1>11. ASSUME NEW w \in Workers, Heartbeats(w) PROVE TypeOK'
  <2>1. CASE SendHeartbeat(w)
    BY <2>1 DEF SendHeartbeat
  <2>2. CASE HeartbeatReturns(w)
    BY <2>2 DEF HeartbeatReturns
  <2>3. CASE UpdateHeartbeat(w)
    BY <2>3 DEF UpdateHeartbeat, HeardFrom, Looped
  <2> QED BY <1>11, <2>1, <2>2, <2>3 DEF Heartbeats
<1>12. ASSUME NEW w \in Workers, GoesStale(w) PROVE TypeOK'
  BY <1>12 DEF GoesStale
<1>13. CASE CheckWorkerHealth
  BY <1>13 DEF CheckWorkerHealth
<1>14. CASE Close
  BY <1>14 DEF Close
<1>15. CASE CloseEnds
  BY <1>15 DEF CloseEnds, Unheard
<1>16. CASE Restart
  BY <1>16 DEF Restart, Unheard
<1>17. CASE UNCHANGED vars
  BY <1>17 DEF vars
<1> QED
  BY <1>1, <1>2, <1>3, <1>4, <1>5, <1>6, <1>7, <1>8, <1>9, <1>10, <1>11,
     <1>12, <1>13, <1>14, <1>15, <1>16, <1>17 DEF Next

\* What the other executions, the loops and the registry do does not matter.
LEMMA StepTracking ==
  ASSUME IInv, [Next]_vars, NEW x \in Executions
  PROVE  Tracking(x)'
<1> USE DEF IInv, TypeOK, Tracking, Set, Move, messages, processes, history
<1>0. Tracking(x)
  OBVIOUS
<1>1. ASSUME NEW e \in Executions, PushWork(e) PROVE Tracking(x)'
  BY <1>0, <1>1 DEF PushWork
<1>2. ASSUME NEW e \in Executions, Execute(e) PROVE Tracking(x)'
  <2>1. CASE Track(e)
    BY <1>0, <2>1 DEF Track
  <2>2. CASE SendResult(e)
    BY <1>0, <2>2 DEF SendResult
  <2>3. CASE SendFails(e)
    BY <1>0, <2>3 DEF SendFails
  <2>4. CASE Untrack(e)
    BY <1>0, <2>4 DEF Untrack, Returned
  <2> QED BY <1>2, <2>1, <2>2, <2>3, <2>4 DEF Execute
<1>3. ASSUME NEW e \in Executions, Collect(e) PROVE Tracking(x)'
  BY <1>0, <1>3 DEF Collect
<1>4. ASSUME NEW e \in Executions, NEW w \in Workers, Deliver(e, w)
      PROVE  Tracking(x)'
  BY <1>0, <1>4 DEF Deliver
<1>5. ASSUME NEW w \in Workers, Connect(w) PROVE Tracking(x)'
  BY <1>0, <1>5 DEF Connect
<1>6. ASSUME NEW w \in Workers, Register(w) PROVE Tracking(x)'
  BY <1>0, <1>6 DEF Register
<1>7. ASSUME NEW w \in Workers, Loops(w) PROVE Tracking(x)'
  <2>1. CASE PullerLoops(w)
    BY <1>0, <2>1 DEF PullerLoops
  <2>2. ASSUME NEW e \in Executions, Receive(w, e) PROVE Tracking(x)'
    BY <1>0, <2>2 DEF Receive
  <2> QED BY <1>7, <2>1, <2>2 DEF Loops
<1>8. ASSUME NEW w \in Workers, Stop(w) PROVE Tracking(x)'
  BY <1>0, <1>8 DEF Stop, Tracked, Of
<1>9. ASSUME NEW w \in Workers, Stops(w) PROVE Tracking(x)'
  <2>1. CASE DrainEnds(w)    \* nothing of w's is in activeExecutions
    BY <1>0, <2>1 DEF DrainEnds, Drained, Tracked, Of
  <2>2. CASE DrainTimesOut(w)
    BY <1>0, <2>2 DEF DrainTimesOut, Of
  <2>3. CASE StopEnds(w)
    BY <1>0, <2>3 DEF StopEnds, Gone, Of, AtWorker
  <2> QED BY <1>9, <2>1, <2>2, <2>3 DEF Stops
<1>10. ASSUME NEW w \in Workers, Crash(w) PROVE Tracking(x)'
  BY <1>0, <1>10 DEF Crash, Gone, Of, AtWorker
<1>11. ASSUME NEW w \in Workers, Heartbeats(w) PROVE Tracking(x)'
  BY <1>0, <1>11
     DEF Heartbeats, SendHeartbeat, HeartbeatReturns, UpdateHeartbeat
<1>12. ASSUME NEW w \in Workers, GoesStale(w) PROVE Tracking(x)'
  BY <1>0, <1>12 DEF GoesStale
<1>13. CASE CheckWorkerHealth \/ Close
  BY <1>0, <1>13 DEF CheckWorkerHealth, Close
<1>14. CASE CloseEnds
  BY <1>0, <1>14 DEF CloseEnds, Unheard
<1>15. CASE Restart
  BY <1>0, <1>15 DEF Restart, Unheard
<1>16. CASE UNCHANGED vars
  BY <1>0, <1>16 DEF vars
<1> QED
  BY <1>1, <1>2, <1>3, <1>4, <1>5, <1>6, <1>7, <1>8, <1>9, <1>10, <1>11,
     <1>12, <1>13, <1>14, <1>15, <1>16 DEF Next

\* The inductive invariant holds, whatever stops, dies or is started again.
THEOREM Invariance == Spec => []IInv
<1>1. IInv /\ [Next]_vars => IInv'
  <2> SUFFICES ASSUME IInv, [Next]_vars PROVE IInv'
    OBVIOUS
  <2>1. TypeOK'
    BY StepType DEF IInv
  <2>2. \A e \in Executions : Tracking(e)'
    BY StepTracking
  <2> QED BY <2>1, <2>2 DEF IInv
<1> QED BY InitIInv, <1>1, PTL DEF Spec

\* Every variable of the two sides has its type (executor.go:28-58,
\* work_queue.go:60-92).
THEOREM TypeCorrect == Spec => []TypeOK
BY Invariance, PTL DEF IInv

\* Of what a graceful Stop finds at work and is in time to await, the result is
\* sent when the wait is over, or its send has failed and was given up: none is
\* cut short between the engine and the socket (executor.go:297-319, 514-546).
THEOREM DrainComplete == Spec => []DrainKeepsTracked
<1>1. IInv => DrainKeepsTracked
  BY DEF IInv, TypeOK, Tracking, DrainKeepsTracked    \* owed's type
<1> QED BY <1>1, Invariance, PTL
=============================================================================
