-------------------------- MODULE ConnectionRouter --------------------------
(***************************************************************************)
(* ConnectionRouter (internal/connections): what the engine computes from  *)
(* a workflow's graph before and between the runs of its nodes.            *)
(*                                                                         *)
(* A workflow is a record:                                                 *)
(*   kind[n]  "plain", "if", "switch", "loop" (splitInBatches), "guard" (an*)
(*            If whose condition is attempt < maxAttempts), "inert" (a     *)
(*            sticky note or a manual trigger, that no executor runs)      *)
(*   main[n]  the branches of n, each the sequence of its targets          *)
(*   x[n]     the place of n on the canvas                                 *)
(*   nodes    workflow.Nodes, the order in which the file lists the nodes  *)
(* Branch b is main[b - 1] of the code.  A node is its name, and names are *)
(* ordered.                                                                *)
(***************************************************************************)
EXTENDS Integers, Sequences, SequencesExt, FiniteSets

CONSTANT Nodes     \* node names, a set of numbers

ASSUME NodesAssumption == Nodes \subseteq Int /\ IsFiniteSet(Nodes)

VARIABLES
  path,     \* the calls of visitNode under way: the temporary marks
  sorted    \* executionOrder as far as it is built: the visited nodes

Kinds == {"plain", "if", "switch", "loop", "guard", "inert"}
Graphs ==
  {w \in [kind : [Nodes -> Kinds], main : [Nodes -> Seq(Seq(Nodes))],
          x : [Nodes -> Int], nodes : Seq(Nodes)] :
     IsInjective(w.nodes) /\ ToSet(w.nodes) = Nodes}

\* The elements of s that are in S, in their order.
Among(s, S) ==
  LET kept[i \in 0..Len(s)] ==
        IF i = 0 THEN <<>>
        ELSE IF s[i] \in S THEN Append(kept[i - 1], s[i])
        ELSE kept[i - 1]
  IN  kept[Len(s)]

Branches(wf, n) == DOMAIN wf.main[n]
Targets(wf, n, b) ==
  IF b \in Branches(wf, n) THEN ToSet(wf.main[n][b]) ELSE {}
Successors(wf, n) == UNION {Targets(wf, n, b) : b \in Branches(wf, n)}
Loops(wf) == {n \in Nodes : wf.kind[n] = "loop"}
DoneBranch == 1
ProcessBranch == 2

\* All that can be reached from S along next, S included: the least set that
\* has S and is closed under next.
Closed(next, T) == \A n \in T : next[n] \subseteq T
ReachableFrom(next, S) ==
  LET closed == {T \in SUBSET Nodes : S \subseteq T /\ Closed(next, T)}
  IN  {n \in Nodes : \A T \in closed : n \in T}

Forward(wf) == [n \in Nodes |-> Successors(wf, n)]
Backward(wf) == [n \in Nodes |-> {m \in Nodes : n \in Successors(wf, m)}]

\* CollectBranchDescendants: an edge into a loop node is not followed.
Descendants(wf, n, b) ==
  LET inward == [m \in Nodes |-> Successors(wf, m) \ Loops(wf)]
  IN  ReachableFrom(inward, Targets(wf, n, b)) \ {n}

----------------------------------------------------------------------------
(* If-retry loops: a guard whose first true target reaches the guard.      *)

RetryEntry(wf, g) == wf.main[g][1][1]
RetryBodySet(wf, g) ==
  LET entry == {RetryEntry(wf, g)}
  IN  (ReachableFrom(Forward(wf), entry)
         \cap ReachableFrom(Backward(wf), entry)
         \cap ReachableFrom(Backward(wf), {g})) \ {g}
RetryGuards(wf) ==
  {g \in Nodes : /\ wf.kind[g] = "guard"
                 /\ Targets(wf, g, 1) # {}
                 /\ g \in ReachableFrom(Forward(wf), {RetryEntry(wf, g)})
                 /\ RetryBodySet(wf, g) # {}}
RetryBody(wf, g) == Among(wf.nodes, RetryBodySet(wf, g))

----------------------------------------------------------------------------
(* The execution order: a depth-first sort, one call or return of visitNode*)
(* a step.  sorted are the nodes that are visited, path those with a       *)
(* temporary mark, in the order of the calls.                              *)

\* Faulty form: every edge is waited for.
EveryEdge(wf, s, t) == FALSE

\* Edges the sort leaves out: every edge into a loop node, the entry's too,
\* and the back edge of a retry loop.
Dropped(wf, s, t) ==
  \/ t \in Loops(wf)
  \/ s \in RetryGuards(wf) /\ t = RetryEntry(wf, s)

\* deepestProcessBranchNode: a descendant without a descendant, by name.
Anchor(wf, l) ==
  LET D == Descendants(wf, l, ProcessBranch)
      leaves == {n \in D : Successors(wf, n) \cap D = {}}
      from == IF leaves # {} THEN leaves ELSE D
  IN  {n \in from : \A m \in from : n <= m}

\* The synthetic dependency of a done branch on the end of the body.
DoneWaitsFor(wf, t) ==
  UNION {Anchor(wf, l) : l \in {l \in Loops(wf) \ {t} :
                                   t \in Targets(wf, l, DoneBranch)}} \ {t}

Sources(wf, t) ==
  {s \in Nodes : t \in Successors(wf, s) /\ ~Dropped(wf, s, t)}

Visited == ToSet(sorted)

\* The dependencies of n that visitNode may look at next, but for those it
\* returns from at once.  Sources come in the order in which Go walks the map
\* of connections, any order; the synthetic ones were appended after them.
\* To choose a source at each call is to choose one walk for all nodes: two
\* sources are compared once, as the one that is chosen is visited on return.
NextDependencies(wf, n) ==
  IF Sources(wf, n) \subseteq Visited THEN DoneWaitsFor(wf, n) \ Visited
                                      ELSE Sources(wf, n) \ Visited

SortInit == path = <<>> /\ sorted = <<>>

\* The loop of GetExecutionOrder, from left to right on the canvas; nodes at
\* one place come in any order.
VisitNext(wf, n) ==
  /\ path = <<>>
  /\ n \notin Visited
  /\ \A m \in Nodes \ Visited : wf.x[n] <= wf.x[m]
  /\ path' = <<n>>
  /\ UNCHANGED sorted

VisitDependency(wf, n) ==
  /\ path # <<>>
  /\ n \in NextDependencies(wf, Last(path)) \ ToSet(path)
  /\ path' = Append(path, n)
  /\ UNCHANGED sorted

ReturnVisited(wf) ==
  /\ path # <<>>
  /\ NextDependencies(wf, Last(path)) = {}
  /\ sorted' = Append(sorted, Last(path))
  /\ path' = Front(path)

Visit(wf) ==
  \/ \E n \in Nodes : VisitNext(wf, n) \/ VisitDependency(wf, n)
  \/ ReturnVisited(wf)

\* visitNode meets a temporary mark.
CycleFound(wf) ==
  path # <<>> /\ NextDependencies(wf, Last(path)) \cap ToSet(path) # {}

Sorted == path = <<>> /\ Visited = Nodes

----------------------------------------------------------------------------
(* RouteData.  An output is a sequence of records: an item, and the branch *)
(* its tag names, 0 if it has none.                                        *)

Tagged(out, b) == Among(out, {e \in ToSet(out) : e.tag = b})
Untag(out) == [i \in DOMAIN out |-> out[i].item]

\* partitionByRoutingMetadata: only where every item is tagged.
Branchable(out) == out # <<>> /\ \A i \in DOMAIN out : out[i].tag # 0

\* Faulty form: the tags are not read.
Broadcast(wf, n, out, b) == out

\* The items of branch b.  A switch's items without a branch go to the last
\* one, unless that has items of its own.
BranchItems(wf, n, out, b) ==
  LET last == Len(wf.main[n])
      own == Tagged(out, b)
  IN  IF ~Branchable(out) THEN out
      ELSE IF wf.kind[n] = "switch" /\ b = last /\ own = <<>>
      THEN Among(out, {e \in ToSet(out) : e.tag > last})
      ELSE own

\* Every connection of a branch carries the branch's items.
RouteData(wf, n, out) ==
  [t \in Nodes |->
     FlattenSeq([b \in Branches(wf, n) |->
       FlattenSeq([c \in DOMAIN wf.main[n][b] |->
         IF wf.main[n][b][c] = t THEN Untag(BranchItems(wf, n, out, b))
                                 ELSE <<>>])])]

\* The outputs whose tag RouteData does not delete, in the maps the caller
\* shares with it: those no connection carries.
StillTagged(wf, n, out) ==
  {e \in ToSet(out) :
     /\ e.tag # 0
     /\ \A b \in Branches(wf, n) :
          Targets(wf, n, b) # {} =>
            e \notin ToSet(BranchItems(wf, n, out, b))}
=============================================================================
