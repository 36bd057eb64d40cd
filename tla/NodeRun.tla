------------------------------- MODULE NodeRun -------------------------------
(***************************************************************************)
(* NodeRun (internal/engine): one call of ExecuteWorkflowWithContext, node *)
(* by node: the main loop over the execution order, and the two drivers    *)
(* that take over at a splitInBatches node and at the guard of an If-retry *)
(* loop.  SharedEngine models the same calls against each other, one node  *)
(* a step; here one call runs alone and its data flow is kept.             *)
(*                                                                         *)
(* nodeResults[n] is the input of n until n has run and its output after.  *)
(* Every node is seeded before the loop, so that no entry is nil: the      *)
(* fallbacks for nil are dead code.  An item is an element of Items, and a *)
(* node passes its items on unchanged.  Left out: credentials, expressions,*)
(* the records of runData, spans and the workflow's validation.            *)
(***************************************************************************)
EXTENDS ConnectionRouter

CONSTANTS
  Workflows,      \* the workflows that may be run
  Inputs,         \* the inputs they may be given, sequences of items
  BatchSize,      \* parameter of the loop nodes
  MaxIterations,  \* IfRetryLoop.MaxIterations
  Failures        \* may a node fail, or the context be cancelled?

Items == UNION {ToSet(s) : s \in Inputs}

\* The rules of a Switch are numbered below MaxRule, which tags the items its
\* fallback takes.
MaxRule == 3

\* A Switch writes its tag into the map of the item it was given, which every
\* node that got the item has, and RouteData deletes the tag of an item only if
\* a connection carries it (switch.go:236-244, router.go:62-66, 119-138).  So a
\* tag may stay for others to be routed by, unless every tag has a connection,
\* or no other node has the items: nodes upstream of the Switch have run.
Starts(w) == {n \in Nodes : \A m \in Nodes : n \notin Successors(w, m)}
CarriesAll(w, n) == \A b \in 1..MaxRule : Targets(w, n, b) # {}
Secluded(w, n) ==
  LET upstream == ReachableFrom(Backward(w), {n}) IN
  /\ Loops(w) = {}
  /\ Starts(w) \subseteq upstream
  /\ \A m \in upstream \ {n} : Successors(w, m) \subseteq upstream
NoStrayTags(w) ==
  \A n \in Nodes : w.kind[n] = "switch" =>
    RetryGuards(w) = {} /\ (CarriesAll(w, n) \/ Secluded(w, n))

\* Bounds: a workflow has at most one loop node, and its switches leave no tag
\* in an item that another node has.
ASSUME NodeRunAssumption ==
  /\ Workflows \subseteq Graphs
  /\ \A w \in Workflows : \A k, l \in Loops(w) : k = l
  /\ \A w \in Workflows : NoStrayTags(w)
  /\ Inputs \subseteq Seq(Items)
  /\ BatchSize \in Nat \ {0} /\ MaxIterations \in Nat \ {0}
  /\ Failures \in BOOLEAN

VARIABLES
  wf, input,
  order,        \* executionOrder
  body, done,   \* loopBodyOrder and loopDoneOrder of the loop node
  results,      \* nodeResults
  taken,        \* edgesTaken
  pc,           \* what is at work: a sort, the main loop or a driver
  at,           \* the index in order, and in the chain of a driver
  inner,
  batches,      \* the batches to do, the one at work first
  aggregated,
  iteration,
  result,       \* finalResult
  \* history
  ran,          \* ran[n]: the inputs n was executed on
  outs          \* outs[n]: its last output, tags and all

setup == <<wf, input, order, body, done>>
driver == <<inner, batches, aggregated, iteration>>
history == <<ran, outs>>
sort == <<path, sorted>>
vars == <<sort, setup, results, taken, pc, at, driver, result, history>>

Sorts == {"order", "bodyOrder", "doneOrder"}
Places == Sorts \cup {"main", "body", "done", "retry", "ended", "failed"}

LoopNode(w) == CHOOSE l \in Loops(w) : TRUE

\* nodesHandledByLoopDriver.
Handled ==
  ToSet(body) \cup ToSet(done)
    \cup UNION {RetryBodySet(wf, g) : g \in RetryGuards(wf)}

Init ==
  /\ wf \in Workflows /\ input \in Inputs
  /\ SortInit
  /\ order = <<>> /\ body = <<>> /\ done = <<>>
  /\ results = [n \in Nodes |-> IF n \in Starts(wf) THEN input ELSE <<>>]
  /\ taken = {}
  /\ pc = "order"
  /\ at = 1 /\ inner = 1 /\ iteration = 1
  /\ batches = <<>> /\ aggregated = <<>> /\ result = <<>>
  /\ ran = [n \in Nodes |-> <<>>]
  /\ outs = [n \in Nodes |-> <<>>]

----------------------------------------------------------------------------
(* The order is computed, and anew for the body and for the done chain of  *)
(* a loop.  The names those two fall back to at a cycle are dead code, as  *)
(* the first sort has then failed.                                         *)

Sort ==
  /\ pc \in Sorts
  /\ Visit(wf)
  /\ UNCHANGED <<setup, results, taken, pc, at, driver, result, history>>

Refuse ==
  /\ pc = "order"
  /\ CycleFound(wf)
  /\ pc' = "failed"
  /\ UNCHANGED <<sort, setup, results, taken, at, driver, result, history>>

TakeOrder ==
  /\ pc = "order"
  /\ Sorted
  /\ order' = sorted
  /\ pc' = IF Loops(wf) = {} THEN "main" ELSE "bodyOrder"
  /\ UNCHANGED <<body, done>>

GetLoopIterationOrder ==
  /\ pc = "bodyOrder"
  /\ Sorted
  /\ body' = Among(sorted, Descendants(wf, LoopNode(wf), ProcessBranch))
  /\ pc' = "doneOrder"
  /\ UNCHANGED <<order, done>>

GetLoopDoneOrder ==
  /\ pc = "doneOrder"
  /\ Sorted
  /\ done' = Among(sorted, Descendants(wf, LoopNode(wf), DoneBranch))
  /\ pc' = "main"
  /\ UNCHANGED <<order, body>>

Ordered ==
  /\ TakeOrder \/ GetLoopIterationOrder \/ GetLoopDoneOrder
  /\ sorted' = <<>>
  /\ UNCHANGED <<path, wf, input, results, taken, at, driver, result, history>>

----------------------------------------------------------------------------
(* A node is executed.                                                     *)

Plain(s) == [i \in DOMAIN s |-> [item |-> s[i], tag |-> 0]]

\* An item of the output, once for each of its tags.
Copied(i, tags) == [k \in DOMAIN tags |-> [item |-> i, tag |-> tags[k]]]

\* A Switch node goes through its rules and puts an item out for each that
\* matches, or for the first only, or for none: then it drops the item or gives
\* it MaxRule, one more than the rules.  The copies share a map, so that the
\* number of the last rule is in all of them.  NoStrayTags lets the tag be of
\* the output alone: no other node has the map.
Matches ==
  {<<>>, <<MaxRule>>} \cup
    UNION {{[j \in 1..c |-> k] : c \in 1..k} : k \in 1..(MaxRule - 1)}

\* The If node gives the true items first.
Outputs(n, s) ==
  CASE wf.kind[n] \in {"if", "guard"} ->
         {Tagged(out, 1) \o Tagged(out, 2) :
            out \in {[i \in DOMAIN s |-> [item |-> s[i], tag |-> side[i]]] :
                       side \in [DOMAIN s -> {1, 2}]}}
    [] wf.kind[n] = "switch" ->
         {FlattenSeq([i \in DOMAIN s |-> Copied(s[i], match[i])]) :
            match \in [DOMAIN s -> Matches]}
    [] OTHER -> {Plain(s)}

\* nodeResults[n] is the output, and what is routed is appended to the
\* targets' entries, but for those in except.
Store(n, out, except) ==
  results' =
    LET routed == RouteData(wf, n, out)
        stored == [results EXCEPT ![n] = Untag(out)]
    IN  [t \in Nodes |->
           stored[t] \o (IF t \in except THEN <<>> ELSE routed[t])]

Ran(n, out) ==
  /\ ran' = [ran EXCEPT ![n] = Append(@, results[n])]
  /\ outs' = [outs EXCEPT ![n] = out]

\* recordEdgesTaken reads the tags after RouteData has deleted them from the
\* items that a connection carries.
BranchesTaken(n, out) ==
  LET tags == {e.tag : e \in StillTagged(wf, n, out)}
      last == Len(wf.main[n])
  IN  IF tags = {} THEN Branches(wf, n)
      ELSE IF wf.kind[n] = "switch"
      THEN {IF k > last THEN last ELSE k : k \in tags}
      ELSE tags
RecordEdges(n, out) ==
  taken' = taken \cup
    UNION {{<<n, b, t>> : t \in Targets(wf, n, b)} : b \in BranchesTaken(n, out)}

----------------------------------------------------------------------------
(* The main loop.                                                          *)

Here == order[at]
Main(n) == pc = "main" /\ at <= Len(order) /\ n = Here
NextNode == at' = at + 1

Skipped(n) == n \in Handled \/ (wf.kind[n] # "inert" /\ results[n] = <<>>)

Skip(n) ==
  /\ Main(n)
  /\ Skipped(n)
  /\ NextNode
  /\ UNCHANGED <<sort, setup, results, taken, pc, driver, result, history>>

\* A sticky note or a manual trigger puts out nothing.
SkipInert(n) ==
  /\ Main(n)
  /\ ~Skipped(n)
  /\ wf.kind[n] = "inert"
  /\ results' = [results EXCEPT ![n] = <<>>]
  /\ NextNode
  /\ UNCHANGED <<sort, setup, taken, pc, driver, result, history>>

RunNode(n, out) ==
  /\ Main(n)
  /\ ~Skipped(n)
  /\ wf.kind[n] \notin {"inert", "loop"}
  /\ n \notin RetryGuards(wf)
  /\ Store(n, out, {})
  /\ Ran(n, out)
  /\ RecordEdges(n, out)
  /\ NextNode
  /\ UNCHANGED <<sort, setup, pc, driver, result>>

\* The last node of the order that has data gives the result.
Finish ==
  /\ pc = "main"
  /\ at > Len(order)
  /\ pc' = "ended"
  /\ LET full == {i \in DOMAIN order : results[order[i]] # <<>>}
     IN  result' = IF full = {} THEN <<>>
                   ELSE results[order[CHOOSE i \in full :
                                        \A j \in full : j <= i]]
  /\ UNCHANGED <<sort, setup, results, taken, at, driver, history>>

\* A node's error, or a cancelled context, at any node of any loop.
Fail ==
  /\ Failures
  /\ pc \notin Sorts \cup {"ended", "failed"}
  /\ pc' = "failed"
  /\ UNCHANGED <<sort, setup, results, taken, at, driver, result, history>>

----------------------------------------------------------------------------
(* executeSplitInBatchesLoop.                                              *)

\* Faulty form: a batch ends one item short of the end.
ShortBatches(s) ==
  [k \in 1..((Len(s) + BatchSize - 1) \div BatchSize) |->
     SubSeq(s, (k - 1) * BatchSize + 1,
            IF k * BatchSize < Len(s) THEN k * BatchSize ELSE Len(s) - 1)]

SplitIntoBatches(s) ==
  [k \in 1..((Len(s) + BatchSize - 1) \div BatchSize) |->
     SubSeq(s, (k - 1) * BatchSize + 1,
            IF k * BatchSize < Len(s) THEN k * BatchSize ELSE Len(s))]

\* The first node of a chain is given its input.
Seed(f, chain, s) == IF chain = <<>> THEN f ELSE [f EXCEPT ![chain[1]] = s]

StartLoop(n) ==
  /\ Main(n)
  /\ ~Skipped(n)
  /\ wf.kind[n] = "loop"
  /\ pc' = "body"
  /\ inner' = 1
  /\ batches' = SplitIntoBatches(results[n])
  /\ aggregated' = <<>>
  /\ results' = Seed(results, body, batches'[1])
  /\ ran' = [ran EXCEPT ![n] = Append(@, results[n])]
  /\ UNCHANGED <<sort, setup, taken, at, iteration, result, outs>>

\* One node of a chain of a driver.  What it routes into the loop node is
\* dropped, and no edge is recorded.
ChainNode(place, chain, n) == pc = place /\ inner <= Len(chain) /\ n = chain[inner]

SkipChainNode(place, chain, n) ==
  /\ ChainNode(place, chain, n)
  /\ results[n] = <<>> \/ wf.kind[n] = "inert"
  /\ results' = [results EXCEPT ![n] = <<>>]
  /\ inner' = inner + 1
  /\ UNCHANGED <<sort, setup, taken, pc, at, batches, aggregated, iteration, result,
                 history>>

RunChainNode(place, chain, n, out) ==
  /\ ChainNode(place, chain, n)
  /\ results[n] # <<>> /\ wf.kind[n] # "inert"
  /\ Store(n, out, Loops(wf))
  /\ Ran(n, out)
  /\ inner' = inner + 1
  /\ UNCHANGED <<sort, setup, taken, pc, at, batches, aggregated, iteration, result>>

MoreBatches == Len(batches) > 1

\* The output of the chain's last node is aggregated, and the next batch or
\* the done chain begins.
EndBatch ==
  /\ pc = "body"
  /\ inner > Len(body)
  /\ aggregated' = aggregated \o (IF body = <<>> THEN batches[1]
                                     ELSE results[Last(body)])
  /\ batches' = Tail(batches)
  /\ inner' = 1
  /\ IF MoreBatches
     THEN pc' = pc /\ results' = Seed(results, body, batches[2])
     ELSE /\ pc' = "done"
          /\ results' = Seed([results EXCEPT ![Here] = aggregated'], done,
                             aggregated')
  /\ UNCHANGED <<sort, setup, taken, at, iteration, result, history>>

EndDone ==
  /\ pc = "done"
  /\ inner > Len(done)
  /\ pc' = "main"
  /\ NextNode
  /\ UNCHANGED <<sort, setup, results, taken, driver, result, history>>

----------------------------------------------------------------------------
(* executeIfRetryLoop.                                                     *)

Retried == RetryBody(wf, Here)
Entry == RetryEntry(wf, Here)

\* The input of the guard is not used: the entry has been seeded.
StartRetry(n) ==
  /\ Main(n)
  /\ ~Skipped(n)
  /\ n \in RetryGuards(wf)
  /\ pc' = "retry"
  /\ inner' = 1 /\ iteration' = 1
  /\ UNCHANGED <<sort, setup, results, taken, at, batches, aggregated, result,
                 history>>

\* The tags are stripped before the output is routed.
RunRetryNode(n, out) ==
  /\ ChainNode("retry", Retried, n)
  /\ results[n] # <<>> /\ wf.kind[n] # "inert"
  /\ Store(n, Plain(Untag(out)), {Entry})
  /\ Ran(n, Plain(Untag(out)))
  /\ inner' = inner + 1
  /\ UNCHANGED <<sort, setup, taken, pc, at, batches, aggregated, iteration, result>>

\* Faulty form: the iterations are not counted.
Uncounted == TRUE

MayRetry == iteration < MaxIterations

\* evaluateIfRetryGuard says whether to go on, and says no where the body
\* put out nothing.
EndIteration(more) ==
  LET output == results[Last(Retried)] IN
  /\ pc = "retry"
  /\ inner > Len(Retried)
  /\ more => output # <<>>
  /\ IF more /\ MayRetry
     THEN /\ results' = [results EXCEPT ![Entry] = output]
          /\ iteration' = iteration + 1
          /\ inner' = 1
          /\ UNCHANGED <<pc, at>>
     ELSE /\ results' = [results EXCEPT ![Here] =
                           IF more THEN results[Entry] ELSE output]
          /\ pc' = "main"
          /\ NextNode
          /\ UNCHANGED <<inner, iteration>>
  /\ UNCHANGED <<sort, setup, taken, batches, aggregated, result, history>>

----------------------------------------------------------------------------
Returned == pc \in {"ended", "failed"} /\ UNCHANGED vars

Drivers(n) ==
  \/ StartLoop(n) \/ StartRetry(n)
  \/ SkipChainNode("body", body, n) \/ SkipChainNode("done", done, n)
  \/ pc = "retry" /\ SkipChainNode("retry", Retried, n)
  \/ \E out \in Outputs(n, results[n]) :
       \/ RunChainNode("body", body, n, out)
       \/ RunChainNode("done", done, n, out)
       \/ RunRetryNode(n, out)

Next ==
  \/ Sort \/ Refuse \/ Ordered
  \/ \E n \in Nodes :
       \/ Skip(n) \/ SkipInert(n) \/ Drivers(n)
       \/ \E out \in Outputs(n, results[n]) : RunNode(n, out)
  \/ EndBatch \/ EndDone \/ \E more \in BOOLEAN : EndIteration(more)
  \/ Finish \/ Fail \/ Returned

Spec == Init /\ [][Next]_vars

----------------------------------------------------------------------------
TypeOK ==
  /\ wf \in Workflows /\ input \in Inputs
  /\ path \in Seq(Nodes) /\ sorted \in Seq(Nodes)
  /\ order \in Seq(Nodes)
  /\ DOMAIN results = Nodes /\ DOMAIN ran = Nodes /\ DOMAIN outs = Nodes
  /\ taken \subseteq Nodes \X Nat \X Nodes
  /\ pc \in Places
  /\ at \in 1..Len(order) + 1
  /\ inner \in Nat \ {0}
  /\ iteration \in 1..MaxIterations

\* What the router's documentation says a connection carries: every item, or
\* those with the tag of its branch, the last branch of a switch those
\* without a branch too.
Sends(s, b) ==
  Among(outs[s], {e \in ToSet(outs[s]) :
    \/ e.tag \in {0, b}
    \/ wf.kind[s] = "switch" /\ b = Len(wf.main[s]) /\ e.tag > b})
\* The copies of items sent to t by nodes of S: the sender, the branch, the
\* connection, and the place in what the branch carries.
Deliveries(t, S) ==
  UNION {UNION {{<<s, b, c, k>> :
                   c \in {c \in DOMAIN wf.main[s][b] : wf.main[s][b][c] = t},
                   k \in DOMAIN Sends(s, b)} : b \in Branches(wf, s)} : s \in S}
Arriving(i, t, S) ==
  Cardinality({d \in Deliveries(t, S) : Sends(d[1], d[2])[d[4]].item = i})
Copies(i, s) == Cardinality({k \in DOMAIN s : s[k] = i})

NoLoops == Loops(wf) = {} /\ RetryGuards(wf) = {}

\* An order lists every node once, and after every node it waits for: those
\* connected to it, but into a loop node or by the back edge of a retry, and,
\* for a done branch, the end of the body.  So do the parts of it that a loop
\* driver uses.  A workflow is refused exactly if some nodes wait for each
\* other, however the map of connections is walked and wherever nodes lie on
\* the canvas (router.go:313-422).
WaitsFor(t) ==
  DoneWaitsFor(wf, t) \cup
    {s \in Nodes : /\ wf.kind[t] # "loop"
                   /\ \E b \in Branches(wf, s) : t \in ToSet(wf.main[s][b])
                   /\ ~(s \in RetryGuards(wf) /\ t = RetryEntry(wf, s))}
Keeps(s) ==
  /\ IsInjective(s)
  /\ \A i, j \in DOMAIN s : s[j] \in WaitsFor(s[i]) => j < i
Cyclic == \E S \in (SUBSET Nodes) \ {{}} :
            \A t \in S : \E s \in S : s \in WaitsFor(t)
OrderIsTopological ==
  pc # "order" =>
    /\ IF Cyclic THEN order = <<>> ELSE ToSet(order) = Nodes
    /\ Keeps(order) /\ Keeps(body) /\ Keeps(done)

\* In a workflow without loops a node runs once, on every item its upstream
\* nodes sent along a connection to it, as many times as it was sent, and
\* not at all if they sent none: a branch that was not chosen never runs,
\* and a merge has waited for all (engine.go:372-404, 532, 712-722).
DeliveredIsRun ==
  pc = "ended" /\ NoLoops =>
    \A n \in Nodes \ Starts(wf) :
      /\ Len(ran[n]) <= 1
      /\ wf.kind[n] # "inert" =>
           \A i \in ToSet(input) :
             Copies(i, FlattenSeq(ran[n])) = Arriving(i, n, Nodes)

\* A loop with a body of one node puts every item it was given through the
\* body once, in order and in batches no larger than BatchSize, and then runs
\* its done branch once, on all of them; and it was given every item sent to
\* it (engine.go:841-866).
ServesAll(l, P) ==
  LET served == FlattenSeq(ran[P]) IN
  /\ served = FlattenSeq(ran[l])
  /\ \A k \in DOMAIN ran[P] : Len(ran[P][k]) <= BatchSize
  /\ done # <<>> /\ served # <<>> /\ wf.kind[done[1]] # "inert" =>
       ran[done[1]] = <<served>>
LoopServesEveryItem ==
  pc = "ended" /\ Loops(wf) # {} /\ Len(body) = 1 =>
    LET P == body[1] IN
    wf.kind[P] = "plain" =>
      /\ ServesAll(LoopNode(wf), P)
      /\ \A i \in ToSet(input) :
           Copies(i, FlattenSeq(ran[P])) = Arriving(i, LoopNode(wf), Nodes \ {P})

\* A node is run once by the main loop if no driver has it, once a batch in a
\* loop's body, once in its done chain, and no more than MaxIterations times in
\* the body of a retry, whatever the guard says (engine.go:427-459, 1235-1286).
GuardsOver(n) == {g \in RetryGuards(wf) : n \in RetryBodySet(wf, g)}
Split(l) == IF ran[l] = <<>> THEN <<>> ELSE SplitIntoBatches(ran[l][1])
RunsAreBounded ==
  \A n \in Nodes :
    Len(ran[n]) <=
      (IF n \in Handled THEN 0 ELSE 1)
        + (IF n \in ToSet(body) THEN Len(Split(LoopNode(wf))) ELSE 0)
        + (IF n \in ToSet(done) THEN 1 ELSE 0)
        + Cardinality(GuardsOver(n)) * MaxIterations
=============================================================================
