--------------------------- MODULE MCSharedEngine ---------------------------
(***************************************************************************)
(* Bounds for TLC: three calls of the engine (a chain of two nested calls, *)
(* or two siblings, or three runs one after the other), two nodes each.    *)
(***************************************************************************)
EXTENDS SharedEngine, TLC

Symmetry == Permutations(Runs)

----------------------------------------------------------------------------
(* What the repository says of the engine and the code does not do.        *)

\* engine.go:133-134: the map is fresh at the start of every call "so the
\* previous run's data never leaks across runs"; 276-279: a re-used engine
\* "never leaks edges from the previous workflow into the current one".
EdgesDoNotLeak ==
  \A r \in Runs :
    result[r] # Nobody /\ TopLevel(r) => taken[result[r]] \subseteq EdgesOf(Tree(r))

\* engine.go:272-274: the fields are cleared at the end "to keep the engine
\* re-entrant across concurrent workflows".
ConcurrentRunsAreApart == \A r \in Runs : seen[r] \subseteq {r, Nobody}

\* engine.go:117-121: the fields are populated for a run so that its nodes
\* are handed "the workflow + live runExecutionData".
NodesGetTheirRun == \A r \in Runs : seen[r] \subseteq {r}

\* execute_workflow.go:125-128: no more than maxDepth calls are nested.
NestingBounded ==
  LET level[r \in MaybeRun] == IF r = Nobody THEN 0 ELSE 1 + level[caller[r]]
  IN  \A r \in Runs : \E maxDepth \in MaxDepths : level[r] - 1 <= maxDepth
=============================================================================
