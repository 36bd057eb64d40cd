----------------------------- MODULE MCNodeRun -----------------------------
(***************************************************************************)
(* Bounds for TLC: workflows of five nodes, named 1 to 5, that between     *)
(* them have every kind of node and each of the shapes the router treats   *)
(* in a way of its own; three items, which make a full batch and a rest.   *)
(***************************************************************************)
EXTENDS NodeRun

MCNodes == 1..5
MCInputs == {<<"a", "b", "c">>, <<>>}

W(kind, main, x) == [kind |-> kind, main |-> main, x |-> x, nodes |-> <<1, 2, 3, 4, 5>>]
P == "plain"

\* An If, its branches and their merge, which lies left of the branches.
Diamond == W(<<P, "if", P, P, P>>,
             << << <<2>> >>, << <<3>>, <<4>> >>, << <<5>> >>, << <<5>> >>, <<>> >>,
             <<0, 1, 3, 3, 2>>)

\* Two starts, one of them inert, a node connected twice to the same target.
FanIn == W(<<P, "inert", P, "if", P>>,
           << << <<3, 4>> >>, << <<3>> >>, << <<5, 5>> >>, << <<5>> >>, <<>> >>,
           <<0, 0, 0, 0, 0>>)

\* A switch of two rules with a branch for the fallback.
Switch3 == W(<<P, "switch", P, P, P>>,
             << << <<2>> >>, << <<3>>, <<4>>, <<5>> >>, <<>>, << <<5>> >>, <<>> >>,
             <<0, 1, 2, 2, 3>>)

\* A loop with a body of one node, and a done chain of two.
BatchLoop == W(<<P, "loop", P, P, P>>,
               << << <<2>> >>, << <<4>>, <<3>> >>, << <<2>> >>, << <<5>> >>, <<>> >>,
               <<0, 1, 2, 2, 3>>)

\* A loop that an If feeds on one branch, without a done branch.
FedLoop == W(<<"if", "loop", P, P, "inert">>,
             << << <<2>>, <<4>> >>, << <<>>, <<3>> >>, << <<2>> >>, <<>>, <<>> >>,
             <<0, 1, 2, 2, 3>>)

\* A loop whose body is two nodes.
LongLoop == W(<<P, "loop", P, P, P>>,
              << << <<2>> >>, << <<5>>, <<3>> >>, << <<4>> >>, << <<2>> >>, <<>> >>,
              <<0, 1, 2, 3, 2>>)

\* The body of a loop branches, and one of its leaves is a note.
BranchLoop == W(<<P, "loop", "if", P, "inert">>,
                << << <<2>> >>, << <<>>, <<3>> >>, << <<4>>, <<2, 5>> >>, << <<2>> >>, <<>> >>,
                <<0, 1, 2, 3, 4>>)

\* A retry loop: the body's nodes are the guard's only upstream nodes.
RetryLoop == W(<<P, P, P, "guard", P>>,
               << << <<2>> >>, << <<3>> >>, << <<4>> >>, << <<2>>, <<5>> >>, <<>> >>,
               <<0, 1, 2, 3, 4>>)

\* The same with a connection from outside to the guard, which makes the
\* engine drive the loop.
DrivenRetry == W(<<P, P, P, "guard", P>>,
                 << << <<2, 4>> >>, << <<3>> >>, << <<4>> >>, << <<2>>, <<5>> >>, <<>> >>,
                 <<0, 1, 2, 3, 4>>)

\* Notes in the done chain of a loop and in the body of a retry loop.
NotedLoop == [BatchLoop EXCEPT !.kind[5] = "inert"]
NotedRetry == [DrivenRetry EXCEPT !.kind[3] = "inert"]

\* A guard that closes no loop is an If, and two cycles that are refused.
PlainGuard == W(<<P, "guard", P, P, P>>,
                << << <<2>> >>, << <<3>>, <<4>> >>, <<>>, << <<5>> >>, <<>> >>,
                <<0, 1, 2, 2, 3>>)
Cycle == W(<<P, P, P, P, P>>,
           << << <<2>> >>, << <<3>> >>, << <<4>> >>, << <<2>> >>, <<>> >>,
           <<0, 1, 2, 3, 4>>)
LoopAndCycle == W(<<P, "loop", P, P, P>>,
                  << << <<2>> >>, << <<>>, <<3>> >>, << <<2, 4>> >>, << <<5>> >>, << <<4>> >> >>,
                  <<0, 1, 2, 3, 4>>)

\* A cycle that only the order of done branch after body closes.
DoneFeedsBody == W(<<P, "loop", P, P, P>>,
                   << << <<2>> >>, << <<4>>, <<3>> >>, << <<2>> >>, << <<3>> >>, <<>> >>,
                   <<0, 1, 2, 3, 4>>)

\* The loop of BatchLoop with every node at the same place.
Unplaced == [BatchLoop EXCEPT !.x = <<0, 0, 0, 0, 0>>]

\* A switch of two rules whose fallback has no branch of its own.
Switch2 == [Switch3 EXCEPT !.main[2] = << <<3>>, <<4>> >>]

MCWorkflows ==
  {Diamond, FanIn, Switch3, BatchLoop, FedLoop, LongLoop, BranchLoop, RetryLoop,
   DrivenRetry, NotedLoop, NotedRetry, PlainGuard, Cycle, LoopAndCycle,
   DoneFeedsBody}

RoutingWorkflows == {Diamond, Switch3}
GapWorkflows == {BatchLoop, LongLoop, Unplaced, RetryLoop, Switch2}

----------------------------------------------------------------------------
(* What the repository says of a run and the code does not do.             *)

Carried(s, b, t) == t \in Targets(wf, s, b) /\ Sends(s, b) # <<>>
CarriedEdges ==
  {<<s, b, t>> \in Nodes \X (1..3) \X Nodes : Carried(s, b, t)}

\* engine.go:49-50, model/workflow.go:226-227: EdgesTaken records the
\* connections that carried at least one item.
TakenIsCarried == pc = "ended" => taken = CarriedEdges

\* The same, of the connections inside a loop only.
LoopEdgesAreTaken ==
  pc = "ended" => \A e \in CarriedEdges :
                    e[1] \in ToSet(body) \cup ToSet(done) => e \in taken

\* engine.go:846-849: for each batch the body chain executes with the batch
\* as its input: a node of the body does not see an item of an earlier batch.
BatchesAreSeparate ==
  \A n \in ToSet(body) : \A i, j \in DOMAIN ran[n] :
    i # j => ToSet(ran[n][i]) \cap ToSet(ran[n][j]) = {}

\* engine.go:843-845: the items that are routed into a loop node are split
\* into batches, and the body executes.
LoopInputIsServed ==
  pc = "ended" /\ body # <<>> /\ results[LoopNode(wf)] # <<>>
    => ran[body[1]] # <<>>

\* engine.go:1184-1196: the body of a retry loop runs once its entry has an
\* input.
RetryBodyRuns ==
  pc = "ended" => \A g \in RetryGuards(wf) :
    results[RetryEntry(wf, g)] # <<>> => ran[RetryEntry(wf, g)] # <<>>

\* router.go:43, 50: a switch's unmatched items go to its last branch.
FallbackArrives == DeliveredIsRun
=============================================================================
