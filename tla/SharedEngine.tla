---------------------------- MODULE SharedEngine ----------------------------
(***************************************************************************)
(* The fields that one workflowEngineImpl (internal/engine/engine.go)      *)
(* keeps for "the" run, written and read by every call of ExecuteWorkflow: *)
(* the workers of the queue, the HTTP handlers and, nested in a run, the   *)
(* Execute Workflow node all call the same engine, which has no lock.      *)
(*                                                                         *)
(* A run's place in ExecuteWorkflowWithContext:                            *)
(*   new      not called yet                                               *)
(*   begun    the fields are set, the workflow is not yet looked at        *)
(*   node     at the top of the node loop                                  *)
(*   ran      a node's executor has returned its output                    *)
(*   calling  inside the Execute Workflow node, the callee runs            *)
(*   failing  the Execute Workflow node has returned the callee's error    *)
(*   ok, failed   returned, with a result and with an error                *)
(* Maps and run data are objects; each is named by the run that made it.   *)
(* Reading or writing a field is atomic.                                   *)
(***************************************************************************)
EXTENDS Naturals, FiniteSets

CONSTANTS
  Runs,          \* the calls of ExecuteWorkflow, top-level and nested
  NodesPerRun,   \* nodes in the execution order of a workflow
  Concurrency,   \* top-level runs that may be under way together
  EmptyCallees,  \* may a called workflow have no nodes?
  MaxDepths,     \* values of an Execute Workflow node's maxDepth parameter
  Nobody         \* nil

ASSUME EngineAssumption ==
  /\ NodesPerRun \in Nat \ {0}
  /\ Concurrency \in Nat \ {0}
  /\ EmptyCallees \in BOOLEAN
  /\ MaxDepths \subseteq Nat
  /\ Nobody \notin Runs
  /\ IsFiniteSet(Runs)

VARIABLES
  workflow,         \* e.workflow: the run whose workflow it is
  runExecutionData, \* e.runExecutionData: the run that made it
  edgesTaken,       \* e.edgesTaken: the run that made the map
  pc,
  executed,         \* executed[r]: nodes of its order r has gone past
  caller,           \* caller[r]: the run whose node called r
  parentEdges,      \* r's local parentEdgesTaken
  taken,            \* taken[m]: the edges in the map made by run m
  stored,           \* stored[d]: the node results in the data made by run d
  result,           \* result[r]: the map in r's ExecutionResult
  seen              \* seen[r]: whose context r's nodes were given (history)

fields == <<workflow, runExecutionData, edgesTaken>>
vars == <<fields, pc, executed, caller, parentEdges, taken, stored, result,
          seen>>

Places == {"new", "begun", "node", "ran", "calling", "failing", "ok",
           "failed"}
MaybeRun == Runs \cup {Nobody}
Edges == Runs \X (1..NodesPerRun)   \* the edges leaving a node of a run

Returned(r) == pc[r] \in {"ok", "failed"}
Active(r) == pc[r] # "new" /\ ~Returned(r)
TopLevel(r) == caller[r] = Nobody

\* Faulty forms of the operators below: the fields kept at the end of a run,
\* the workflow alone cleared, the callee's edges not merged or the caller's
\* map not put back, a node loop that goes one too far.
FieldsKept == UNCHANGED <<workflow, runExecutionData>>
WorkflowOnlyCleared == workflow' = Nobody /\ UNCHANGED runExecutionData
NotMerged(r) == taken
NotRestored(r) == edgesTaken
OneTooFar(r) == executed[r] <= NodesPerRun

\* The deferred function: two fields are set to nil, edgesTaken is not.
Cleared == workflow' = Nobody /\ runExecutionData' = Nobody

Merged(r) ==
  IF parentEdges[r] = Nobody THEN taken
  ELSE [taken EXCEPT ![parentEdges[r]] = @ \cup taken[edgesTaken]]

Restored(r) == IF parentEdges[r] = Nobody THEN edgesTaken ELSE parentEdges[r]

\* The loop over the execution order.
NodesLeft(r) == executed[r] < NodesPerRun

Counted(r) == executed' = [executed EXCEPT ![r] = @ + 1]

Goto(r, from, to) == pc[r] \in from /\ pc' = [pc EXCEPT ![r] = to]

\* r returns; a caller waiting in its Execute Workflow node goes on.
Return(r, how) ==
  pc' = [s \in Runs |->
           CASE s = r -> how
             [] s = caller[r] -> (IF how = "ok" THEN "ran" ELSE "failing")
             [] OTHER -> pc[s]]

TypeOK ==
  /\ workflow \in MaybeRun
  /\ runExecutionData \in MaybeRun
  /\ edgesTaken \in MaybeRun
  /\ pc \in [Runs -> Places]
  /\ executed \in [Runs -> 0..NodesPerRun]
  /\ caller \in [Runs -> MaybeRun]
  /\ parentEdges \in [Runs -> MaybeRun]
  /\ taken \in [Runs -> SUBSET Edges]
  /\ stored \in [Runs -> SUBSET Edges]
  /\ result \in [Runs -> MaybeRun]
  /\ seen \in [Runs -> SUBSET MaybeRun]

Init ==
  /\ workflow = Nobody /\ runExecutionData = Nobody /\ edgesTaken = Nobody
  /\ pc = [r \in Runs |-> "new"]
  /\ executed = [r \in Runs |-> 0]
  /\ caller = [r \in Runs |-> Nobody]
  /\ parentEdges = [r \in Runs |-> Nobody]
  /\ taken = [r \in Runs |-> {}]
  /\ stored = [r \in Runs |-> {}]
  /\ result = [r \in Runs |-> Nobody]
  /\ seen = [r \in Runs |-> {}]

----------------------------------------------------------------------------
\* The beginning of ExecuteWorkflowWithContext, whoever calls it.
SetFields(r) ==
  /\ parentEdges' = [parentEdges EXCEPT ![r] = edgesTaken]
  /\ workflow' = r /\ runExecutionData' = r /\ edgesTaken' = r

\* A worker or a handler starts a run.
StartTop(r) ==
  /\ Goto(r, {"new"}, "begun")
  /\ Cardinality({s \in Runs : Active(s) /\ TopLevel(s)}) < Concurrency
  /\ SetFields(r)
  /\ UNCHANGED <<executed, caller, taken, stored, result, seen>>

\* n.depth, which nothing but a test ever sets.
depth == 0

\* Run p comes to an Execute Workflow node, which calls the engine back.
CallWorkflow(p, r) ==
  /\ pc[p] = "node" /\ NodesLeft(p)
  /\ pc[r] = "new"
  /\ \E maxDepth \in MaxDepths : depth < maxDepth
  /\ pc' = [pc EXCEPT ![p] = "calling", ![r] = "begun"]
  /\ caller' = [caller EXCEPT ![r] = p]
  /\ SetFields(r)
  /\ UNCHANGED <<executed, taken, stored, result, seen>>

\* "maximum recursion depth reached": the node returns an error.
DepthExceeded(p) ==
  /\ \E maxDepth \in MaxDepths : depth >= maxDepth
  /\ NodesLeft(p)
  /\ Goto(p, {"node"}, "failing")
  /\ UNCHANGED <<fields, executed, caller, parentEdges, taken, stored, result,
                 seen>>

\* len(workflow.Nodes) == 0: returned before the merge, without a map.
EmptyWorkflow(r) ==
  /\ pc[r] = "begun"
  /\ TopLevel(r) \/ EmptyCallees
  /\ Return(r, "ok")
  /\ Cleared
  /\ UNCHANGED <<edgesTaken, executed, caller, parentEdges, taken, stored,
                 result, seen>>

\* The connections are valid, there is an order: the node loop begins.
Validated(r) ==
  /\ Goto(r, {"begun"}, "node")
  /\ UNCHANGED <<fields, executed, caller, parentEdges, taken, stored, result,
                 seen>>

\* A run-aware executor (Code) is handed the engine's fields.
RunNode(r) ==
  /\ NodesLeft(r)
  /\ Goto(r, {"node"}, "ran")
  /\ seen' = [seen EXCEPT ![r] = @ \cup {workflow, runExecutionData}]
  /\ UNCHANGED <<fields, executed, caller, parentEdges, taken, stored,
                 result>>

\* No items reached the node, or a loop driver owns it, or it is decorative.
SkipNode(r) ==
  /\ pc[r] = "node" /\ NodesLeft(r)
  /\ Counted(r)
  /\ UNCHANGED <<fields, pc, caller, parentEdges, taken, stored, result,
                 seen>>

\* The output goes to the run data, if there is one, and the edges that
\* carried items to whatever map e.edgesTaken is now.
RecordNode(r) ==
  LET edge == <<r, executed[r] + 1>> IN
  /\ Goto(r, {"ran"}, "node")
  /\ stored' = [d \in Runs |->
                  stored[d] \cup (IF d = runExecutionData THEN {edge} ELSE {})]
  /\ taken' = [taken EXCEPT ![edgesTaken] = @ \cup {edge}]
  /\ Counted(r)
  /\ UNCHANGED <<fields, caller, parentEdges, result, seen>>

\* The end of the order: merge, restore, and publish the restored map.
ReturnOk(r) ==
  /\ pc[r] = "node" /\ ~NodesLeft(r)
  /\ Return(r, "ok")
  /\ taken' = Merged(r)
  /\ edgesTaken' = Restored(r)
  /\ result' = [result EXCEPT ![r] = edgesTaken']
  /\ Cleared
  /\ UNCHANGED <<executed, caller, parentEdges, stored, seen>>

\* Every early return with an error: an invalid workflow, a cancelled
\* context, a node's or the router's error.  None merges or restores.
ReturnError(r) ==
  /\ pc[r] \in {"begun", "node", "ran", "failing"}
  /\ Return(r, "failed")
  /\ Cleared
  /\ UNCHANGED <<edgesTaken, executed, caller, parentEdges, taken, stored,
                 result, seen>>

Next ==
  \E r \in Runs :
    \/ StartTop(r) \/ DepthExceeded(r)
    \/ \E p \in Runs \ {r} : CallWorkflow(p, r)
    \/ EmptyWorkflow(r) \/ Validated(r)
    \/ RunNode(r) \/ SkipNode(r) \/ RecordNode(r)
    \/ ReturnOk(r) \/ ReturnError(r)

Spec == Init /\ [][Next]_vars

----------------------------------------------------------------------------
(* What holds while one top-level run at a time uses the engine.           *)

\* Run r and the runs called, directly or not, from its nodes: the least set
\* with r that holds the runs called by its members.
ClosedUnderCalls(S) == \A s \in Runs : caller[s] \in S => s \in S

Tree(r) ==
  {s \in Runs : \A S \in SUBSET Runs : r \in S /\ ClosedUnderCalls(S) => s \in S}

EdgesOf(S) == {e \in UNION {taken[m] : m \in Runs} : e[1] \in S}

\* A published EdgesTaken lacks no edge that the run, or a run nested in it,
\* recorded: the merge and the restore of engine.go:766-771 undo what the
\* callee did to the caller's accumulator.
ResultCoversTree ==
  \A r \in Runs :
    result[r] # Nobody => EdgesOf(Tree(r)) \subseteq taken[result[r]]

\* A run that is recording records into the map it made at its beginning,
\* however many calls its nodes have made (engine.go:295, 739, 770).
AccumulatorIsOwn ==
  \A r \in Runs : pc[r] \in {"begun", "node", "ran"} => edgesTaken = r

\* A node is never handed another run's workflow or data (engine.go:815);
\* only in a run that has called a workflow is it handed none.
ContextIsNotAnothers ==
  \A r \in Runs :
    seen[r] \subseteq {r} \cup (IF \E s \in Runs : caller[s] = r
                               THEN {Nobody} ELSE {})

\* The data a Code node looks siblings up in holds results of one run only
\* (engine.go:695-704).
DataIsOneRuns == \A d \in Runs : \A e \in stored[d] : e[1] = d
=============================================================================
