---------------------------- MODULE EngineProofs ----------------------------
(***************************************************************************)
(* Proofs about the engine and about the breaker that guards its nodes.    *)
(*                                                                         *)
(* SharedEngine: for any number of calls and nodes, where one top-level    *)
(* run at a time uses the engine and no called workflow is empty: the two  *)
(* conditions without which MCSharedEngine's configurations show the       *)
(* properties violated.                                                    *)
(*                                                                         *)
(* CircuitBreaker: for any number of callers, any thresholds and any       *)
(* bound.  BreakerInv is inductive: the limit on the running probes needs  *)
(* the counter that covers them, and the counter needs the state to be the *)
(* one that admitted them.                                                 *)
(***************************************************************************)
EXTENDS SharedEngine, CircuitBreaker, FiniteSetTheorems, TLAPS

Sequential == Concurrency = 1 /\ ~EmptyCallees

\* The contexts a node of r may be handed: r's own or, once r has called a
\* workflow, none.
Contexts(r) == {r} \cup (IF \E q \in Runs : caller[q] = r THEN {Nobody} ELSE {})

\* The engine's fields are those of run r.
Owns(r) ==
  /\ pc[r] # "failing" => edgesTaken = r
  /\ workflow \in Contexts(r) /\ runExecutionData \in Contexts(r)

\* The runs under way are a stack: each was called by the one below it, whose
\* accumulator it keeps, and only the topmost is not waiting.
Stack(n, s) ==
  /\ \A r \in Runs : Active(r) <=> \E i \in 1..n : s[i] = r
  /\ \A i, j \in 1..n : s[i] = s[j] => i = j
  /\ \A i \in 1..n : pc[s[i]] = "calling" <=> i < n
  /\ \A i \in 1..n : caller[s[i]] = IF i = 1 THEN Nobody ELSE s[i-1]
  /\ \A i \in 2..n : parentEdges[s[i]] = s[i-1]
  /\ n > 0 => Owns(s[n])

IsStack == \E n \in Nat : \E s \in [1..n -> Runs] : Stack(n, s)

\* A run that is in a node has that node before it; one that has not begun
\* was called by none.
InNode == \A r \in Runs :
            pc[r] \in {"ran", "calling", "failing"} => NodesLeft(r)
NewIsUncalled == \A r \in Runs : pc[r] = "new" => caller[r] = Nobody

Inv == /\ TypeOK /\ InNode /\ NewIsUncalled /\ IsStack
       /\ ContextIsNotAnothers /\ DataIsOneRuns

----------------------------------------------------------------------------
\* Initially no run is under way.
LEMMA InitInv == Init => Inv
<1>. SUFFICES ASSUME Init PROVE Inv
  OBVIOUS
<1>. USE EngineAssumption DEF Init
<1>1. TypeOK
  BY DEF TypeOK, MaybeRun, Places
<1>2. InNode /\ NewIsUncalled /\ ContextIsNotAnothers /\ DataIsOneRuns
  BY DEF InNode, NewIsUncalled, ContextIsNotAnothers, DataIsOneRuns
<1>3. IsStack
  <2>1. \A r \in Runs : ~Active(r)
    BY DEF Active
  <2>2. \A s \in [1..0 -> Runs] : Stack(0, s)
    BY <2>1 DEF Stack
  <2>3. \E s \in [1..0 -> Runs] : TRUE
    <3>1. [i \in 1..0 |-> CHOOSE r \in Runs : TRUE] \in [1..0 -> Runs]
      OBVIOUS
    <3>. QED  BY <3>1
  <2>. QED  BY <2>2, <2>3 DEF IsStack
<1>. QED  BY <1>1, <1>2, <1>3 DEF Inv

\* The run that acts is the top of the stack.
LEMMA ActorIsTop ==
  ASSUME NEW n \in Nat, NEW s \in [1..n -> Runs], Stack(n, s),
         NEW r \in Runs, pc[r] \in {"begun", "node", "ran", "failing"}
  PROVE  n > 0 /\ s[n] = r
<1>1. Active(r) /\ pc[r] # "calling"
  BY DEF Active, Returned
<1>2. PICK i \in 1..n : s[i] = r
  BY <1>1 DEF Stack
<1>. QED  BY <1>1, <1>2 DEF Stack

\* The top run goes on: the stack stays.
LEMMA StackStays ==
  ASSUME TypeOK, NEW n \in Nat, NEW s \in [1..n -> Runs], Stack(n, s),
         NEW r \in Runs, pc[r] \in {"begun", "node", "ran", "failing"},
         NEW x \in {"begun", "node", "ran", "failing"},
         pc' = [pc EXCEPT ![r] = x], pc[r] = "failing" => x = "failing",
         UNCHANGED <<fields, caller, parentEdges>>
  PROVE  Stack(n, s)'
<1>1. n > 0 /\ s[n] = r
  BY ActorIsTop
<1>2. \A q \in Runs : pc'[q] = IF q = r THEN x ELSE pc[q]
  BY DEF TypeOK
<1>3. \A q \in Runs : Active(q)' <=> Active(q)
  BY <1>2 DEF Active, Returned
<1>4. \A q \in Runs : pc'[q] = "calling" <=> pc[q] = "calling"
  BY <1>2
<1>5. Owns(r)'
  <2>1. Owns(r)
    BY <1>1 DEF Stack
  <2>. QED  BY <2>1, <1>2 DEF Owns, Contexts, fields
<1>6. (\A q \in Runs : Active(q) <=> \E i \in 1..n : s[i] = q)'
  BY <1>3 DEF Stack
<1>7. (\A i \in 1..n : pc[s[i]] = "calling" <=> i < n)'
  BY <1>4 DEF Stack
<1>. QED  BY <1>1, <1>5, <1>6, <1>7 DEF Stack

\* A call pushes the new run onto the stack of the runs under way.
LEMMA StackPushed ==
  ASSUME TypeOK, NEW n \in Nat, NEW s \in [1..n -> Runs], Stack(n, s),
         NEW r \in Runs, pc[r] = "new", SetFields(r),
         \A q \in Runs : pc'[q] = IF q = r THEN "begun"
                                  ELSE IF n > 0 /\ q = s[n] THEN "calling"
                                  ELSE pc[q],
         \A q \in Runs : caller'[q] =
           IF q = r THEN (IF n = 0 THEN Nobody ELSE s[n]) ELSE caller[q],
         n > 0 => edgesTaken = s[n]
  PROVE  IsStack'
<1>. DEFINE t == [i \in 1..(n+1) |-> IF i = n+1 THEN r ELSE s[i]]
<1>1. t \in [1..(n+1) -> Runs]
  OBVIOUS
<1>2. \A i \in 1..n : s[i] # r
  BY DEF Stack, Active
<1>4. \A q \in Runs : Active(q)' <=> Active(q) \/ q = r
  <2>1. n > 0 => Active(s[n])
    BY DEF Stack
  <2>. QED  BY <2>1 DEF Active, Returned
<1>t. t[n+1] = r /\ \A i \in 1..n : t[i] = s[i]
  OBVIOUS
<1>5. (\A q \in Runs : Active(q) <=> \E i \in 1..(n+1) : t[i] = q)'
  <2>. SUFFICES ASSUME NEW q \in Runs
                PROVE Active(q)' <=> \E i \in 1..(n+1) : t[i] = q
    OBVIOUS
  <2>. HIDE DEF t
  <2>1. Active(q) <=> \E i \in 1..n : s[i] = q
    BY DEF Stack
  <2>2. (\E i \in 1..(n+1) : t[i] = q) <=> q = r \/ \E i \in 1..n : s[i] = q
    BY <1>t
  <2>. QED  BY <2>1, <2>2, <1>4
<1>6. \A i, j \in 1..(n+1) : t[i] = t[j] => i = j
  BY <1>2 DEF Stack
<1>7. (\A i \in 1..(n+1) : pc[t[i]] = "calling" <=> i < n+1)'
  <2>1. \A i \in 1..n : pc'[s[i]] = "calling"
    BY <1>2 DEF Stack
  <2>2. pc'[r] = "begun"
    OBVIOUS
  <2>3. ASSUME NEW i \in 1..(n+1)
        PROVE  pc'[t[i]] = "calling" <=> i < n+1
    <3>1. CASE i = n+1
      BY <3>1, <2>2, <1>t
    <3>2. CASE i \in 1..n
      BY <3>2, <2>1, <1>t
    <3>. QED  BY <3>1, <3>2
  <2>. QED  BY <2>3
<1>8. (\A i \in 1..(n+1) : caller[t[i]] = IF i = 1 THEN Nobody ELSE t[i-1])'
  BY <1>2 DEF Stack
<1>9. (\A i \in 2..(n+1) : parentEdges[t[i]] = t[i-1])'
  <2>1. \A q \in Runs : parentEdges'[q] =
          IF q = r THEN edgesTaken ELSE parentEdges[q]
    BY DEF TypeOK, SetFields
  <2>2. ASSUME NEW i \in 2..(n+1)
        PROVE  parentEdges'[t[i]] = t[i-1]
    <3>1. CASE i = n+1
      <4>1. n \in 1..n /\ i - 1 = n /\ t[i-1] = s[n] /\ t[i] = r
        BY <3>1, <1>t
      <4>. QED  BY <4>1, <2>1
    <3>2. CASE i \in 2..n
      <4>1. i \in 1..n /\ i - 1 \in 1..n
        BY <3>2
      <4>2. t[i] = s[i] /\ t[i-1] = s[i-1] /\ s[i] # r /\ s[i] \in Runs
        BY <4>1, <1>t, <1>2
      <4>3. parentEdges[s[i]] = s[i-1]
        BY <3>2 DEF Stack
      <4>. QED  BY <4>2, <4>3, <2>1
    <3>. QED  BY <3>1, <3>2
  <2>. QED  BY <2>2
<1>10. Owns(r)' /\ t[n+1] = r
  BY DEF SetFields, Owns, Contexts
<1>11. Stack(n+1, t)'
  BY <1>5, <1>6, <1>7, <1>8, <1>9, <1>10 DEF Stack
<1>. QED  BY <1>1, <1>11 DEF IsStack

\* A return pops the run; its caller, if any, owns the fields again, or fails.
LEMMA StackPopped ==
  ASSUME TypeOK, NEW n \in Nat, NEW s \in [1..n -> Runs], Stack(n, s), n > 0,
         NEW how \in {"ok", "failed"}, Return(s[n], how), Cleared,
         UNCHANGED <<caller, parentEdges>>,
         how = "ok" /\ n > 1 => edgesTaken' = s[n-1]
  PROVE  IsStack'
<1>. DEFINE u == [i \in 1..(n-1) |-> s[i]]
<1>. USE EngineAssumption
<1>1. n - 1 \in Nat /\ u \in [1..(n-1) -> Runs]
  OBVIOUS
<1>2. caller[s[n]] = IF n = 1 THEN Nobody ELSE s[n-1]
  BY DEF Stack
<1>c. caller[s[n]] # s[n]
  BY <1>2 DEF Stack
<1>3. \A q \in Runs : pc'[q] = IF q = s[n] THEN how
                               ELSE IF n > 1 /\ q = s[n-1]
                               THEN (IF how = "ok" THEN "ran" ELSE "failing")
                               ELSE pc[q]
  <2>. SUFFICES ASSUME NEW q \in Runs
                PROVE pc'[q] = IF q = s[n] THEN how
                               ELSE IF n > 1 /\ q = s[n-1]
                               THEN (IF how = "ok" THEN "ran" ELSE "failing")
                               ELSE pc[q]
    OBVIOUS
  <2>1. CASE q = s[n]
    BY <2>1, <1>c DEF Return
  <2>2. CASE q # s[n] /\ q = caller[s[n]]
    BY <2>2, <1>2 DEF Return
  <2>3. CASE q # s[n] /\ q # caller[s[n]]
    BY <2>3, <1>2 DEF Return
  <2>. QED  BY <2>1, <2>2, <2>3
<1>4. \A q \in Runs : Active(q)' <=> Active(q) /\ q # s[n]
  <2>1. n > 1 => Active(s[n-1]) /\ s[n-1] # s[n]
    BY DEF Stack
  <2>. QED  BY <1>3, <2>1 DEF Active, Returned
<1>5. (\A q \in Runs : Active(q) <=> \E i \in 1..(n-1) : u[i] = q)'
  BY <1>4 DEF Stack
<1>6. \A i, j \in 1..(n-1) : u[i] = u[j] => i = j
  BY DEF Stack
<1>7. (\A i \in 1..(n-1) : pc[u[i]] = "calling" <=> i < n-1)'
  BY <1>3 DEF Stack
<1>8. (\A i \in 1..(n-1) : caller[u[i]] = IF i = 1 THEN Nobody ELSE u[i-1])'
  BY DEF Stack
<1>9. (\A i \in 2..(n-1) : parentEdges[u[i]] = u[i-1])'
  BY DEF Stack
<1>10. n - 1 > 0 => Owns(u[n-1])'
  <2>. SUFFICES ASSUME n > 1 PROVE Owns(s[n-1])'
    OBVIOUS
  <2>1. pc'[s[n-1]] # "failing" => edgesTaken' = s[n-1]
    BY <1>3 DEF Stack
  <2>2. Nobody \in Contexts(s[n-1])'
    BY <1>2 DEF Contexts
  <2>. QED  BY <2>1, <2>2 DEF Owns, Cleared
<1>11. Stack(n-1, u)'
  BY <1>5, <1>6, <1>7, <1>8, <1>9, <1>10 DEF Stack
<1>. QED  BY <1>1, <1>11 DEF IsStack

\* The contexts of a run stay those of the run while nobody is called, and
\* what a new run's caller may be handed only grows.
LEMMA ContextsGrow ==
  ASSUME NewIsUncalled, TypeOK, NEW p \in Runs, NEW r \in Runs, pc[r] = "new",
         caller' = caller \/ caller' = [caller EXCEPT ![r] = p]
  PROVE  \A q \in Runs : Contexts(q) \subseteq Contexts(q)'
<1>1. caller[r] = Nobody
  BY DEF NewIsUncalled
<1>2. \A x \in Runs : caller'[x] = caller[x] \/ x = r
  BY DEF TypeOK
<1>3. ASSUME NEW q \in Runs, NEW x \in Runs, caller[x] = q
      PROVE  caller'[x] = q
  BY <1>1, <1>2, <1>3, EngineAssumption
<1>. QED  BY <1>3 DEF Contexts

\* StartTop: no other top-level run is under way, so the stack is empty.
LEMMA StartTopInv ==
  ASSUME Sequential, Inv, NEW r \in Runs, StartTop(r)
  PROVE  Inv'
<1>. USE EngineAssumption
<1>n. PICK n \in Nat : \E s \in [1..n -> Runs] : Stack(n, s)
  BY DEF Inv, IsStack
<1>1. PICK s \in [1..n -> Runs] : Stack(n, s)
  BY <1>n
<1>2. n = 0
  <2>. DEFINE T == {q \in Runs : Active(q) /\ TopLevel(q)}
  <2>1. T = {}
    <3>1. IsFiniteSet(T)
      BY FS_Subset
    <3>2. Cardinality(T) < 1 /\ Cardinality(T) \in Nat
      BY <3>1, FS_CardinalityType DEF StartTop, Sequential
    <3>. QED  BY <3>1, <3>2, FS_EmptySet
  <2>2. n > 0 => s[1] \in T
    BY <1>1 DEF Stack, TopLevel
  <2>. QED  BY <2>1, <2>2
<1>3. pc[r] = "new" /\ caller[r] = Nobody
  BY DEF StartTop, Goto, Inv, NewIsUncalled
<1>4. IsStack'
  <2>1. \A q \in Runs : pc'[q] = IF q = r THEN "begun"
                                 ELSE IF n > 0 /\ q = s[n] THEN "calling"
                                 ELSE pc[q]
    BY <1>2 DEF StartTop, Goto, Inv, TypeOK
  <2>2. \A q \in Runs : caller'[q] =
          IF q = r THEN (IF n = 0 THEN Nobody ELSE s[n]) ELSE caller[q]
    BY <1>2, <1>3 DEF StartTop, Inv, TypeOK
  <2>3. TypeOK /\ pc[r] = "new" /\ SetFields(r) /\ (n > 0 => edgesTaken = s[n])
    BY <1>2, <1>3 DEF StartTop, Inv
  <2>. QED  BY <1>1, <2>1, <2>2, <2>3, StackPushed
<1>5. TypeOK'
  BY DEF StartTop, SetFields, Goto, Inv, TypeOK, MaybeRun, Places
<1>6. InNode' /\ NewIsUncalled' /\ ContextIsNotAnothers' /\ DataIsOneRuns'
  BY DEF StartTop, Goto, Inv, TypeOK, InNode, NodesLeft, NewIsUncalled,
         ContextIsNotAnothers, DataIsOneRuns
<1>. QED  BY <1>4, <1>5, <1>6 DEF Inv

\* CallWorkflow: the caller is the top of the stack.
LEMMA CallWorkflowInv ==
  ASSUME Inv, NEW p \in Runs, NEW r \in Runs \ {p}, CallWorkflow(p, r)
  PROVE  Inv'
<1>. USE EngineAssumption
<1>n. PICK n \in Nat : \E s \in [1..n -> Runs] : Stack(n, s)
  BY DEF Inv, IsStack
<1>1. PICK s \in [1..n -> Runs] : Stack(n, s)
  BY <1>n
<1>2. n > 0 /\ s[n] = p
  BY <1>1, ActorIsTop DEF CallWorkflow
<1>3. edgesTaken = s[n]
  BY <1>1, <1>2 DEF Stack, Owns, CallWorkflow
<1>4. IsStack'
  <2>1. \A q \in Runs : pc'[q] = IF q = r THEN "begun"
                                 ELSE IF n > 0 /\ q = s[n] THEN "calling"
                                 ELSE pc[q]
    BY <1>2 DEF CallWorkflow, Inv, TypeOK
  <2>2. \A q \in Runs : caller'[q] =
          IF q = r THEN (IF n = 0 THEN Nobody ELSE s[n]) ELSE caller[q]
    BY <1>2 DEF CallWorkflow, Inv, TypeOK
  <2>3. pc[r] = "new" /\ SetFields(r)
    BY DEF CallWorkflow
  <2>. QED  BY <1>1, <1>3, <2>1, <2>2, <2>3, StackPushed DEF Inv
<1>5. TypeOK'
  BY DEF CallWorkflow, SetFields, Inv, TypeOK, MaybeRun, Places
<1>6. \A q \in Runs : Contexts(q) \subseteq Contexts(q)'
  BY ContextsGrow DEF CallWorkflow, Inv
<1>7. ContextIsNotAnothers'
  BY <1>6 DEF CallWorkflow, Inv, ContextIsNotAnothers, Contexts
<1>8. InNode' /\ NewIsUncalled' /\ DataIsOneRuns'
  BY DEF CallWorkflow, Inv, TypeOK, InNode, NodesLeft, NewIsUncalled,
         DataIsOneRuns
<1>. QED  BY <1>4, <1>5, <1>7, <1>8 DEF Inv
----------------------------------------------------------------------------
\* The steps of the top run that call nobody and do not return.

LEMMA ValidatedInv ==
  ASSUME Inv, NEW r \in Runs, Validated(r)
  PROVE  Inv'
<1>1. IsStack'
  <2>1. pc[r] = "begun" /\ pc' = [pc EXCEPT ![r] = "node"]
        /\ UNCHANGED <<fields, caller, parentEdges>>
    BY DEF Validated, Goto
  <2>2. ASSUME NEW n \in Nat, NEW s \in [1..n -> Runs], Stack(n, s)
        PROVE  Stack(n, s)'
    BY <2>1, <2>2, StackStays DEF Inv
  <2>. QED  BY <2>2 DEF Inv, IsStack
<1>2. TypeOK'
  BY DEF Validated, Goto, fields, Inv, TypeOK, Places
<1>3. InNode' /\ NewIsUncalled' /\ ContextIsNotAnothers' /\ DataIsOneRuns'
  BY DEF Validated, Goto, Inv, TypeOK, InNode, NodesLeft, NewIsUncalled,
         ContextIsNotAnothers, DataIsOneRuns
<1>. QED  BY <1>1, <1>2, <1>3 DEF Inv

LEMMA DepthExceededInv ==
  ASSUME Inv, NEW r \in Runs, DepthExceeded(r)
  PROVE  Inv'
<1>1. IsStack'
  <2>1. pc[r] = "node" /\ pc' = [pc EXCEPT ![r] = "failing"]
        /\ UNCHANGED <<fields, caller, parentEdges>>
    BY DEF DepthExceeded, Goto
  <2>2. ASSUME NEW n \in Nat, NEW s \in [1..n -> Runs], Stack(n, s)
        PROVE  Stack(n, s)'
    BY <2>1, <2>2, StackStays DEF Inv
  <2>. QED  BY <2>2 DEF Inv, IsStack
<1>2. TypeOK'
  BY DEF DepthExceeded, Goto, fields, Inv, TypeOK, Places
<1>3. InNode' /\ NewIsUncalled' /\ ContextIsNotAnothers' /\ DataIsOneRuns'
  BY DEF DepthExceeded, Goto, Inv, TypeOK, InNode, NodesLeft, NewIsUncalled,
         ContextIsNotAnothers, DataIsOneRuns
<1>. QED  BY <1>1, <1>2, <1>3 DEF Inv

\* The fields a running node reads are those of its own run, or nil.
LEMMA FieldsAreOwn ==
  ASSUME Inv, NEW r \in Runs, pc[r] \in {"begun", "node", "ran", "failing"}
  PROVE  Owns(r)
<1>n. PICK n \in Nat : \E s \in [1..n -> Runs] : Stack(n, s)
  BY DEF Inv, IsStack
<1>1. PICK s \in [1..n -> Runs] : Stack(n, s)
  BY <1>n
<1>2. n > 0 /\ s[n] = r
  BY <1>1, ActorIsTop
<1>. QED  BY <1>1, <1>2 DEF Stack

LEMMA RunNodeInv ==
  ASSUME Inv, NEW r \in Runs, RunNode(r)
  PROVE  Inv'
<1>0. pc[r] = "node" /\ pc' = [pc EXCEPT ![r] = "ran"]
      /\ UNCHANGED <<fields, caller, parentEdges>>
  BY DEF RunNode, Goto
<1>1. IsStack'
  <2>1. ASSUME NEW n \in Nat, NEW s \in [1..n -> Runs], Stack(n, s)
        PROVE  Stack(n, s)'
    BY <1>0, <2>1, StackStays DEF Inv
  <2>. QED  BY <2>1 DEF Inv, IsStack
<1>2. TypeOK'
  BY DEF RunNode, Goto, fields, Inv, TypeOK, Places
<1>3. ContextIsNotAnothers'
  <2>1. {workflow, runExecutionData} \subseteq Contexts(r)
    BY <1>0, FieldsAreOwn DEF Owns
  <2>2. \A q \in Runs : seen[q] \subseteq Contexts(q)
    BY DEF Inv, ContextIsNotAnothers, Contexts
  <2>3. \A q \in Runs : seen'[q] \subseteq Contexts(q)
    BY <2>1, <2>2 DEF RunNode, Inv, TypeOK
  <2>. QED  BY <2>3, <1>0 DEF ContextIsNotAnothers, Contexts
<1>4. InNode' /\ NewIsUncalled' /\ DataIsOneRuns'
  BY DEF RunNode, Goto, Inv, TypeOK, InNode, NodesLeft, NewIsUncalled,
         DataIsOneRuns
<1>. QED  BY <1>1, <1>2, <1>3, <1>4 DEF Inv

LEMMA SkipNodeInv ==
  ASSUME Inv, NEW r \in Runs, SkipNode(r)
  PROVE  Inv'
<1>. USE EngineAssumption
<1>1. IsStack'
  BY DEF SkipNode, Inv, IsStack, Stack, Active, Returned, Owns, Contexts, fields
<1>2. TypeOK'
  BY DEF SkipNode, Counted, NodesLeft, fields, Inv, TypeOK
<1>3. InNode' /\ NewIsUncalled' /\ ContextIsNotAnothers' /\ DataIsOneRuns'
  BY DEF SkipNode, Counted, Inv, TypeOK, InNode, NodesLeft, NewIsUncalled,
         ContextIsNotAnothers, DataIsOneRuns
<1>. QED  BY <1>1, <1>2, <1>3 DEF Inv

LEMMA RecordNodeInv ==
  ASSUME Inv, NEW r \in Runs, RecordNode(r)
  PROVE  Inv'
<1>. USE EngineAssumption
<1>0. pc[r] = "ran" /\ pc' = [pc EXCEPT ![r] = "node"]
      /\ UNCHANGED <<fields, caller, parentEdges, result, seen>>
  BY DEF RecordNode, Goto
<1>1. IsStack'
  <2>1. ASSUME NEW n \in Nat, NEW s \in [1..n -> Runs], Stack(n, s)
        PROVE  Stack(n, s)'
    BY <1>0, <2>1, StackStays DEF Inv
  <2>. QED  BY <2>1 DEF Inv, IsStack
<1>2. executed[r] \in 0..NodesPerRun /\ executed[r] < NodesPerRun
  BY <1>0 DEF Inv, TypeOK, InNode, NodesLeft
<1>3. TypeOK'
  <2>1. <<r, executed[r] + 1>> \in Edges
    BY <1>2 DEF Edges
  <2>2. executed' \in [Runs -> 0..NodesPerRun]
    BY <1>2 DEF RecordNode, Counted, Inv, TypeOK
  <2>3. stored' \in [Runs -> SUBSET Edges] /\ taken' \in [Runs -> SUBSET Edges]
    BY <2>1 DEF RecordNode, Inv, TypeOK
  <2>. QED  BY <1>0, <2>2, <2>3 DEF fields, Inv, TypeOK, Places
<1>4. DataIsOneRuns'
  <2>1. runExecutionData \in {r, Nobody}
    BY <1>0, FieldsAreOwn DEF Owns, Contexts
  <2>2. \A d \in Runs : stored'[d] =
          stored[d] \cup (IF d = runExecutionData THEN {<<r, executed[r] + 1>>}
                          ELSE {})
    BY DEF RecordNode
  <2>. QED  BY <2>1, <2>2 DEF Inv, DataIsOneRuns
<1>5. InNode' /\ NewIsUncalled' /\ ContextIsNotAnothers'
  BY <1>0 DEF RecordNode, Counted, Inv, TypeOK, InNode, NodesLeft,
              NewIsUncalled, ContextIsNotAnothers
<1>. QED  BY <1>1, <1>3, <1>4, <1>5 DEF Inv

----------------------------------------------------------------------------
\* The returns, which pop the stack.

\* Whatever the return, the caller goes on inside the node it was in.
LEMMA ReturnKeeps ==
  ASSUME Inv, NEW r \in Runs, pc[r] \in {"begun", "node", "ran", "failing"},
         NEW how \in {"ok", "failed"}, Return(r, how),
         UNCHANGED <<executed, caller, stored, seen>>
  PROVE  /\ pc' \in [Runs -> Places]
         /\ InNode' /\ NewIsUncalled' /\ ContextIsNotAnothers' /\ DataIsOneRuns'
<1>. USE EngineAssumption
<1>n. PICK n \in Nat : \E s \in [1..n -> Runs] : Stack(n, s)
  BY DEF Inv, IsStack
<1>1. PICK s \in [1..n -> Runs] : Stack(n, s)
  BY <1>n
<1>2. n > 0 /\ s[n] = r
  BY <1>1, ActorIsTop
<1>3. caller[r] # Nobody => pc[caller[r]] = "calling"
  BY <1>1, <1>2 DEF Stack
<1>4. \A q \in Runs : \/ pc'[q] = how
                      \/ pc'[q] \in {"ran", "failing"} /\ pc[q] = "calling"
                      \/ pc'[q] = pc[q]
  <2>. SUFFICES ASSUME NEW q \in Runs
                PROVE  \/ pc'[q] = how
                       \/ pc'[q] \in {"ran", "failing"} /\ pc[q] = "calling"
                       \/ pc'[q] = pc[q]
    OBVIOUS
  <2>1. CASE q = r
    BY <2>1, <1>3 DEF Return
  <2>2. CASE q # r /\ q = caller[r]
    BY <2>2, <1>3 DEF Return
  <2>3. CASE q # r /\ q # caller[r]
    BY <2>3 DEF Return
  <2>. QED  BY <2>1, <2>2, <2>3
<1>5. pc' \in [Runs -> Places]
  <2>1. \A q \in Runs : pc'[q] \in Places
    BY <1>4 DEF Inv, TypeOK, Places
  <2>. QED  BY <2>1 DEF Return
<1>6. InNode'
  BY <1>4 DEF Inv, InNode, NodesLeft
<1>7. NewIsUncalled'
  BY <1>4 DEF Inv, NewIsUncalled
<1>8. ContextIsNotAnothers' /\ DataIsOneRuns'
  BY DEF Inv, ContextIsNotAnothers, DataIsOneRuns
<1>. QED  BY <1>5, <1>6, <1>7, <1>8

LEMMA EmptyWorkflowInv ==
  ASSUME Sequential, Inv, NEW r \in Runs, EmptyWorkflow(r)
  PROVE  Inv'
<1>. USE EngineAssumption
<1>0. pc[r] = "begun" /\ Return(r, "ok") /\ Cleared /\ caller[r] = Nobody
      /\ UNCHANGED <<edgesTaken, executed, caller, parentEdges, taken, stored,
                     result, seen>>
  BY DEF EmptyWorkflow, Sequential, TopLevel
<1>n. PICK n \in Nat : \E s \in [1..n -> Runs] : Stack(n, s)
  BY DEF Inv, IsStack
<1>1. PICK s \in [1..n -> Runs] : Stack(n, s)
  BY <1>n
<1>2. n > 0 /\ s[n] = r
  BY <1>0, <1>1, ActorIsTop
<1>3. n = 1
  BY <1>0, <1>1, <1>2 DEF Stack
<1>4. IsStack'
  <2>1. /\ TypeOK /\ Return(s[n], "ok") /\ UNCHANGED <<caller, parentEdges>>
        /\ ~(n > 1)
    BY <1>0, <1>2, <1>3 DEF Inv
  <2>. QED  BY <1>0, <1>1, <1>2, <2>1, StackPopped
<1>5. /\ pc' \in [Runs -> Places]
      /\ InNode' /\ NewIsUncalled' /\ ContextIsNotAnothers' /\ DataIsOneRuns'
  BY <1>0, ReturnKeeps
<1>6. TypeOK'
  BY <1>0, <1>5 DEF Cleared, Inv, TypeOK, MaybeRun
<1>. QED  BY <1>4, <1>5, <1>6 DEF Inv

\* The merge and the restore: the caller's accumulator is e.edgesTaken again.
LEMMA ReturnOkInv ==
  ASSUME Inv, NEW r \in Runs, ReturnOk(r)
  PROVE  Inv'
<1>. USE EngineAssumption
<1>0. pc[r] = "node" /\ Return(r, "ok") /\ Cleared
      /\ UNCHANGED <<executed, caller, parentEdges, stored, seen>>
  BY DEF ReturnOk
<1>n. PICK n \in Nat : \E s \in [1..n -> Runs] : Stack(n, s)
  BY DEF Inv, IsStack
<1>1. PICK s \in [1..n -> Runs] : Stack(n, s)
  BY <1>n
<1>2. n > 0 /\ s[n] = r
  BY <1>0, <1>1, ActorIsTop
<1>3. n > 1 => edgesTaken' = s[n-1]
  <2>. SUFFICES ASSUME n > 1 PROVE edgesTaken' = s[n-1]
    OBVIOUS
  <2>1. parentEdges[r] = s[n-1] /\ s[n-1] \in Runs
    BY <1>1, <1>2 DEF Stack
  <2>. QED  BY <2>1 DEF ReturnOk, Restored
<1>4. IsStack'
  BY <1>0, <1>1, <1>2, <1>3, StackPopped DEF Inv
<1>5. /\ pc' \in [Runs -> Places]
      /\ InNode' /\ NewIsUncalled' /\ ContextIsNotAnothers' /\ DataIsOneRuns'
  BY <1>0, ReturnKeeps
<1>6. TypeOK'
  <2>1. edgesTaken = r
    BY <1>0, FieldsAreOwn DEF Owns
  <2>2. taken' \in [Runs -> SUBSET Edges]
    BY <2>1 DEF ReturnOk, Merged, Inv, TypeOK, MaybeRun
  <2>3. edgesTaken' \in MaybeRun
    BY DEF ReturnOk, Restored, Inv, TypeOK
  <2>4. result' \in [Runs -> MaybeRun]
    BY <2>3 DEF ReturnOk, Inv, TypeOK
  <2>. QED  BY <1>0, <1>5, <2>2, <2>3, <2>4 DEF Cleared, Inv, TypeOK, MaybeRun
<1>. QED  BY <1>4, <1>5, <1>6 DEF Inv

\* An error is passed on: the caller fails too, so nothing is recorded in the
\* accumulator left behind.
LEMMA ReturnErrorInv ==
  ASSUME Inv, NEW r \in Runs, ReturnError(r)
  PROVE  Inv'
<1>. USE EngineAssumption
<1>0. pc[r] \in {"begun", "node", "ran", "failing"} /\ Return(r, "failed")
      /\ Cleared
      /\ UNCHANGED <<edgesTaken, executed, caller, parentEdges, taken, stored,
                     result, seen>>
  BY DEF ReturnError
<1>n. PICK n \in Nat : \E s \in [1..n -> Runs] : Stack(n, s)
  BY DEF Inv, IsStack
<1>1. PICK s \in [1..n -> Runs] : Stack(n, s)
  BY <1>n
<1>2. n > 0 /\ s[n] = r
  BY <1>0, <1>1, ActorIsTop
<1>4. IsStack'
  BY <1>0, <1>1, <1>2, StackPopped DEF Inv
<1>5. /\ pc' \in [Runs -> Places]
      /\ InNode' /\ NewIsUncalled' /\ ContextIsNotAnothers' /\ DataIsOneRuns'
  BY <1>0, ReturnKeeps
<1>6. TypeOK'
  BY <1>0, <1>5 DEF Cleared, Inv, TypeOK, MaybeRun
<1>. QED  BY <1>4, <1>5, <1>6 DEF Inv

----------------------------------------------------------------------------
(* What a published map covers.  Inv says where the edges of a run go; that *)
(* none is missing where a run and its callees are merged needs to know of  *)
(* every callee: that it has returned before its caller does, that the      *)
(* caller holds its edges if it succeeded, and fails if it did not.         *)

EdgesAtHome == \A m \in Runs : \A e \in taken[m] : e \in taken[e[1]]

CalleesReturned ==
  \A s \in Runs : caller[s] \in Runs /\ Returned(caller[s]) => Returned(s)

FailureIsPassedOn ==
  \A s \in Runs : caller[s] \in Runs /\ pc[s] = "failed"
                    => pc[caller[s]] \in {"failing", "failed"}

CalleesCovered ==
  \A s \in Runs : caller[s] \in Runs /\ pc[s] = "ok"
                    => EdgesOf(Tree(s)) \subseteq taken[caller[s]]

ResultIsLast == \A r \in Runs : result[r] # Nobody => Returned(r)

Covered == /\ EdgesAtHome /\ CalleesReturned /\ FailureIsPassedOn
           /\ CalleesCovered /\ ResultIsLast /\ ResultCoversTree

\* A tree is closed under calls, and the least such set with its root.
LEMMA TreeIsClosed ==
  ASSUME NEW r \in Runs
  PROVE  r \in Tree(r) /\ Tree(r) \subseteq Runs /\ ClosedUnderCalls(Tree(r))
  BY DEF Tree, ClosedUnderCalls

LEMMA TreeIsLeast ==
  ASSUME NEW S \in SUBSET Runs, NEW r \in S, ClosedUnderCalls(S)
  PROVE  Tree(r) \subseteq S
  BY DEF Tree

\* A tree is its root and the trees of the runs the root called.
LEMMA TreeOfCallees ==
  ASSUME NEW r \in Runs
  PROVE  \A s \in Tree(r) : s = r \/ \E q \in Runs : caller[q] = r /\ s \in Tree(q)
<1>. DEFINE S == {r} \cup {s \in Runs : \E q \in Runs : caller[q] = r /\ s \in Tree(q)}
<1>1. ClosedUnderCalls(S)
  <2>. SUFFICES ASSUME NEW s \in Runs, caller[s] \in S PROVE s \in S
    BY DEF ClosedUnderCalls
  <2>1. CASE caller[s] = r
    BY <2>1, TreeIsClosed
  <2>2. ASSUME NEW q \in Runs, caller[q] = r, caller[s] \in Tree(q) PROVE s \in S
    <3>1. s \in Tree(q)
      BY <2>2, TreeIsClosed DEF ClosedUnderCalls
    <3>. QED  BY <2>2, <3>1
  <2>. QED  BY <2>1, <2>2
<1>2. S \in SUBSET Runs /\ r \in S
  OBVIOUS
<1>. HIDE DEF S
<1>3. Tree(r) \subseteq S
  BY <1>1, <1>2, TreeIsLeast
<1>. QED  BY <1>3 DEF S

\* Whoever has returned can get no new callee, and so no new edges.
LEMMA SettledTree ==
  ASSUME CalleesReturned, NEW q \in Runs, Returned(q),
         \A x \in Runs : caller'[x] = caller[x]
                         \/ (caller'[x] \in Runs /\ ~Returned(caller'[x])),
         \A m \in Runs : taken[m] \subseteq taken'[m],
         \A m \in Runs : \A e \in taken'[m] :
            (\E l \in Runs : e \in taken[l]) \/ ~Returned(e[1]),
         NEW m \in Runs, EdgesOf(Tree(q)) \subseteq taken[m]
  PROVE  EdgesOf(Tree(q))' \subseteq taken'[m]
<1>1. \A s \in Tree(q) : Returned(s)
  <2>. DEFINE S == {s \in Runs : Returned(s)}
  <2>1. ClosedUnderCalls(S)
    BY DEF ClosedUnderCalls, CalleesReturned
  <2>2. S \in SUBSET Runs /\ q \in S
    OBVIOUS
  <2>. HIDE DEF S
  <2>3. Tree(q) \subseteq S
    BY <2>1, <2>2, TreeIsLeast
  <2>. QED  BY <2>3 DEF S
<1>2. Tree(q)' \subseteq Tree(q)
  <2>1. ClosedUnderCalls(Tree(q))
    BY TreeIsClosed
  <2>2. \A s \in Runs : caller'[s] \in Tree(q) => s \in Tree(q)
    BY <1>1, <2>1 DEF ClosedUnderCalls
  <2>3. q \in Tree(q) /\ Tree(q) \in SUBSET Runs
    BY TreeIsClosed
  <2>4. ASSUME NEW T, T = Tree(q) PROVE Tree(q)' \subseteq T
    <3>1. T \in SUBSET Runs /\ q \in T /\ \A s \in Runs : caller'[s] \in T => s \in T
      BY <2>2, <2>3, <2>4
    <3>. QED  BY <3>1 DEF Tree, ClosedUnderCalls
  <2>. QED  BY <2>4
<1>3. ASSUME NEW e \in EdgesOf(Tree(q))' PROVE e \in taken[m]
  <2>1. e[1] \in Tree(q) /\ \E k \in Runs : e \in taken'[k]
    BY <1>2, <1>3 DEF EdgesOf
  <2>2. \E l \in Runs : e \in taken[l]
    BY <1>1, <2>1
  <2>. QED  BY <2>1, <2>2 DEF EdgesOf
<1>. QED  BY <1>3

\* A step that returns no run with a result keeps what is covered.
LEMMA CoveredKept ==
  ASSUME Inv, Covered, result' = result,
         \A x \in Runs : caller'[x] = caller[x]
                         \/ /\ pc[x] = "new"
                            /\ caller'[x] \in Runs /\ ~Returned(caller'[x]),
         \A m \in Runs : taken[m] \subseteq taken'[m],
         \A m \in Runs : \A e \in taken'[m] :
            (\E l \in Runs : e \in taken[l]) \/ ~Returned(e[1]),
         \A x \in Runs : Returned(x) => pc'[x] = pc[x],
         \A x \in Runs : pc'[x] = "ok" => pc[x] = "ok" \/ caller'[x] = Nobody,
         EdgesAtHome', CalleesReturned', FailureIsPassedOn'
  PROVE  Covered'
<1>1. ResultIsLast'
  BY DEF Covered, ResultIsLast, Returned
<1>2. ResultCoversTree'
  <2>. SUFFICES ASSUME NEW r \in Runs, result[r] # Nobody
                PROVE  EdgesOf(Tree(r))' \subseteq taken'[result[r]]
    BY DEF ResultCoversTree
  <2>1. Returned(r) /\ result[r] \in Runs /\ CalleesReturned
    BY DEF Covered, ResultIsLast, Inv, TypeOK, MaybeRun
  <2>2. EdgesOf(Tree(r)) \subseteq taken[result[r]]
    BY DEF Covered, ResultCoversTree
  <2>. QED  BY <2>1, <2>2, SettledTree
<1>3. CalleesCovered'
  <2>. SUFFICES ASSUME NEW s \in Runs, caller'[s] \in Runs, pc'[s] = "ok"
                PROVE  EdgesOf(Tree(s))' \subseteq taken'[caller'[s]]
    BY DEF CalleesCovered
  <2>1. pc[s] = "ok" /\ Returned(s)
    BY EngineAssumption DEF Returned
  <2>2. caller'[s] = caller[s]
    BY <2>1
  <2>3. EdgesOf(Tree(s)) \subseteq taken[caller[s]] /\ CalleesReturned
    BY <2>1, <2>2 DEF Covered, CalleesCovered
  <2>. QED  BY <2>1, <2>2, <2>3, SettledTree
<1>. QED  BY <1>1, <1>2, <1>3 DEF Covered

\* The run that acts waits for no callee; its own caller waits for it.
LEMMA ActorCallees ==
  ASSUME Inv, NEW r \in Runs, pc[r] \in {"begun", "node", "ran", "failing"}
  PROVE  /\ \A s \in Runs : caller[s] = r => Returned(s)
         /\ caller[r] \in Runs => /\ pc[caller[r]] = "calling"
                                  /\ parentEdges[r] = caller[r]
<1>n. PICK n \in Nat : \E s \in [1..n -> Runs] : Stack(n, s)
  BY DEF Inv, IsStack
<1>1. PICK s \in [1..n -> Runs] : Stack(n, s)
  BY <1>n
<1>2. n > 0 /\ s[n] = r
  BY <1>1, ActorIsTop
<1>3. ASSUME NEW q \in Runs, caller[q] = r, ~Returned(q) PROVE FALSE
  <2>1. Active(q)
    BY <1>3, EngineAssumption DEF Inv, NewIsUncalled, Active
  <2>2. PICK i \in 1..n : s[i] = q
    BY <1>1, <2>1 DEF Stack
  <2>3. caller[q] = IF i = 1 THEN Nobody ELSE s[i-1]
    BY <1>1, <2>2 DEF Stack
  <2>4. i # 1 /\ s[i-1] = s[n] /\ i - 1 \in 1..n
    BY <1>2, <1>3, <2>3, EngineAssumption
  <2>5. i - 1 = n
    BY <1>1, <1>2, <2>4 DEF Stack
  <2>. QED  BY <2>5
<1>4. ASSUME caller[r] \in Runs
      PROVE  pc[caller[r]] = "calling" /\ parentEdges[r] = caller[r]
  <2>1. caller[r] = IF n = 1 THEN Nobody ELSE s[n-1]
    BY <1>1, <1>2 DEF Stack
  <2>2. n \in 2..n /\ caller[r] = s[n-1] /\ n - 1 \in 1..n
    BY <1>2, <1>4, <2>1, EngineAssumption
  <2>. QED  BY <1>1, <1>2, <2>2 DEF Stack
<1>. QED  BY <1>3, <1>4

\* A run that begins or goes on: it alone moves, and only its own edges are
\* added.
LEMMA GoesOnCovered ==
  ASSUME Inv, Covered, NEW r \in Runs, pc[r] \in {"begun", "node", "ran"},
         NEW x \in {"node", "ran", "failing"}, pc' = [pc EXCEPT ![r] = x],
         UNCHANGED <<caller, result>>,
         \A m \in Runs : taken[m] \subseteq taken'[m],
         \A m \in Runs : \A e \in taken'[m] :
            (\E l \in Runs : e \in taken[l]) \/ e[1] = r,
         EdgesAtHome'
  PROVE  Covered'
<1>1. \A q \in Runs : pc'[q] = IF q = r THEN x ELSE pc[q]
  BY DEF Inv, TypeOK
<1>2. ~Returned(r) /\ \A q \in Runs : Returned(q)' <=> Returned(q)
  BY <1>1 DEF Returned
<1>3. CalleesReturned'
  BY <1>2 DEF Covered, CalleesReturned
<1>4. FailureIsPassedOn'
  BY <1>1 DEF Covered, FailureIsPassedOn
<1>5. \A q \in Runs : /\ Returned(q) => pc'[q] = pc[q]
                      /\ pc'[q] = "ok" => pc[q] = "ok"
  BY <1>1, <1>2
<1>6. \A m \in Runs : \A e \in taken'[m] :
         (\E l \in Runs : e \in taken[l]) \/ ~Returned(e[1])
  BY <1>2
<1>. QED  BY <1>3, <1>4, <1>5, <1>6, CoveredKept

LEMMA InitCovered == Init => Covered
<1>. SUFFICES ASSUME Init PROVE Covered
  OBVIOUS
<1>. USE EngineAssumption DEF Init
<1>1. EdgesAtHome /\ ResultIsLast
  BY DEF EdgesAtHome, ResultIsLast
<1>2. CalleesReturned /\ FailureIsPassedOn
  BY DEF CalleesReturned, FailureIsPassedOn
<1>3. CalleesCovered /\ ResultCoversTree
  BY DEF CalleesCovered, ResultCoversTree
<1>. QED  BY <1>1, <1>2, <1>3 DEF Covered

\* A start or a call: the new run has no edges and its caller has not returned.
LEMMA BeginCovered ==
  ASSUME Inv, Covered, NEW r \in Runs,
         StartTop(r) \/ \E p \in Runs \ {r} : CallWorkflow(p, r)
  PROVE  Covered'
<1>1. pc[r] = "new" /\ caller[r] = Nobody /\ UNCHANGED <<taken, result>>
  BY DEF StartTop, CallWorkflow, Goto, Inv, NewIsUncalled
<1>2. \A q \in Runs : /\ pc[q] \in {"ok", "failed"} => pc'[q] = pc[q]
                      /\ pc'[q] \in {"ok", "failed"} => pc[q] = pc'[q]
                      /\ pc[q] = "failing" => pc'[q] = "failing"
  BY DEF StartTop, CallWorkflow, Goto, Inv, TypeOK
<1>3. \A q \in Runs : \/ caller'[q] = caller[q]
                      \/ q = r /\ caller'[q] \in Runs /\ pc[caller'[q]] = "node"
  BY DEF StartTop, CallWorkflow, Inv, TypeOK
<1>4. pc'[r] = "begun"
  BY DEF StartTop, CallWorkflow, Goto, Inv, TypeOK
<1>5. \A q \in Runs : Returned(q)' <=> Returned(q)
  BY <1>2 DEF Returned
<1>6. \A q \in Runs : \/ caller'[q] = caller[q]
                      \/ /\ pc[q] = "new"
                         /\ caller'[q] \in Runs /\ ~Returned(caller'[q])
  BY <1>1, <1>3 DEF Returned
<1>7. CalleesReturned'
  BY <1>5, <1>6 DEF Covered, CalleesReturned
<1>8. FailureIsPassedOn'
  BY <1>2, <1>3, <1>4 DEF Covered, FailureIsPassedOn
<1>9. EdgesAtHome'
  BY <1>1 DEF Covered, EdgesAtHome
<1>10. \A q \in Runs : Returned(q) => pc'[q] = pc[q]
  BY <1>2 DEF Returned
<1>11. \A q \in Runs : pc'[q] = "ok" => pc[q] = "ok"
  BY <1>2
<1>12. \A m \in Runs : /\ taken[m] \subseteq taken'[m]
                       /\ \A e \in taken'[m] : \E l \in Runs : e \in taken[l]
  BY <1>1
<1>. QED  BY <1>1, <1>6, <1>7, <1>8, <1>9, <1>10, <1>11, <1>12, CoveredKept

\* Nodes that record nothing.
LEMMA QuietCovered ==
  ASSUME Inv, Covered, NEW r \in Runs,
         DepthExceeded(r) \/ Validated(r) \/ RunNode(r)
  PROVE  Covered'
<1>1. UNCHANGED <<caller, result, taken>>
  BY DEF DepthExceeded, Validated, RunNode
<1>2. EdgesAtHome'
  BY <1>1 DEF Covered, EdgesAtHome
<1>3. \A m \in Runs : /\ taken[m] \subseteq taken'[m]
                      /\ \A e \in taken'[m] : \E l \in Runs : e \in taken[l]
  BY <1>1
<1>4. pc[r] \in {"begun", "node", "ran"}
      /\ \E x \in {"node", "ran", "failing"} : pc' = [pc EXCEPT ![r] = x]
  BY DEF DepthExceeded, Validated, RunNode, Goto
<1>. QED  BY <1>1, <1>2, <1>3, <1>4, GoesOnCovered

LEMMA SkipNodeCovered ==
  ASSUME Inv, Covered, NEW r \in Runs, SkipNode(r)
  PROVE  Covered'
<1>1. UNCHANGED <<pc, caller, result, taken>>
  BY DEF SkipNode
<1>2. EdgesAtHome' /\ CalleesReturned' /\ FailureIsPassedOn'
  BY <1>1 DEF Covered, EdgesAtHome, CalleesReturned, FailureIsPassedOn, Returned
<1>3. \A m \in Runs : /\ taken[m] \subseteq taken'[m]
                      /\ \A e \in taken'[m] : \E l \in Runs : e \in taken[l]
  BY <1>1
<1>. QED  BY <1>1, <1>2, <1>3, CoveredKept

\* The edge goes to the map of the run that took it.
LEMMA RecordNodeCovered ==
  ASSUME Inv, Covered, NEW r \in Runs, RecordNode(r)
  PROVE  Covered'
<1>1. pc[r] = "ran" /\ pc' = [pc EXCEPT ![r] = "node"]
      /\ UNCHANGED <<caller, result>>
  BY DEF RecordNode, Goto
<1>2. edgesTaken = r
  BY <1>1, FieldsAreOwn DEF Owns
<1>3. PICK edge : edge[1] = r /\ taken' = [taken EXCEPT ![r] = @ \cup {edge}]
  BY <1>2 DEF RecordNode
<1>4. \A m \in Runs : taken'[m] = IF m = r THEN taken[m] \cup {edge} ELSE taken[m]
  BY <1>3 DEF Inv, TypeOK
<1>5. EdgesAtHome'
  BY <1>3, <1>4 DEF Covered, EdgesAtHome
<1>6. \A m \in Runs : /\ taken[m] \subseteq taken'[m]
                      /\ \A e \in taken'[m] :
                           (\E l \in Runs : e \in taken[l]) \/ e[1] = r
  BY <1>3, <1>4
<1>. QED  BY <1>1, <1>5, <1>6, GoesOnCovered

\* A return: the run has returned after it, its caller goes on or fails.
LEMMA ReturnFacts ==
  ASSUME Inv, Covered, NEW r \in Runs, pc[r] \in {"begun", "node", "ran", "failing"},
         NEW how \in {"ok", "failed"}, Return(r, how), caller' = caller
  PROVE  /\ \A q \in Runs : pc'[q] = IF q = r THEN how
                                     ELSE IF q = caller[r]
                                     THEN (IF how = "ok" THEN "ran" ELSE "failing")
                                     ELSE pc[q]
         /\ \A q \in Runs : Returned(q)' <=> Returned(q) \/ q = r
         /\ \A q \in Runs : Returned(q) => pc'[q] = pc[q]
         /\ CalleesReturned'
<1>1. caller[r] \in Runs => pc[caller[r]] = "calling"
  BY ActorCallees
<1>2. caller[r] # r
  BY <1>1
<1>3. \A q \in Runs : pc'[q] = IF q = r THEN how
                               ELSE IF q = caller[r]
                               THEN (IF how = "ok" THEN "ran" ELSE "failing")
                               ELSE pc[q]
  <2>. SUFFICES ASSUME NEW q \in Runs
                PROVE pc'[q] = IF q = r THEN how
                               ELSE IF q = caller[r]
                               THEN (IF how = "ok" THEN "ran" ELSE "failing")
                               ELSE pc[q]
    OBVIOUS
  <2>1. CASE q = r
    BY <2>1, <1>2 DEF Return
  <2>2. CASE q # r /\ q = caller[r]
    BY <2>2 DEF Return
  <2>3. CASE q # r /\ q # caller[r]
    BY <2>3 DEF Return
  <2>. QED  BY <2>1, <2>2, <2>3
<1>4. \A q \in Runs : Returned(q)' <=> Returned(q) \/ q = r
  BY <1>1, <1>3 DEF Returned
<1>5. \A q \in Runs : Returned(q) => pc'[q] = pc[q]
  BY <1>1, <1>3 DEF Returned
<1>6. CalleesReturned'
  <2>1. \A s \in Runs : caller[s] = r => Returned(s)
    BY ActorCallees
  <2>. QED  BY <2>1, <1>4 DEF Covered, CalleesReturned
<1>. QED  BY <1>3, <1>4, <1>5, <1>6

\* A return without a merge: an outermost run of an empty workflow, or an
\* error, which the caller passes on.
LEMMA ReturnWithoutMapCovered ==
  ASSUME Sequential, Inv, Covered, NEW r \in Runs,
         EmptyWorkflow(r) \/ ReturnError(r)
  PROVE  Covered'
<1>1. /\ UNCHANGED <<caller, result, taken>>
      /\ pc[r] \in {"begun", "node", "ran", "failing"}
      /\ \/ Return(r, "ok") /\ caller[r] = Nobody /\ pc[r] = "begun"
         \/ Return(r, "failed")
  BY DEF EmptyWorkflow, ReturnError, Sequential, TopLevel
<1>2. EdgesAtHome'
  BY <1>1 DEF Covered, EdgesAtHome
<1>3. \A m \in Runs : /\ taken[m] \subseteq taken'[m]
                      /\ \A e \in taken'[m] : \E l \in Runs : e \in taken[l]
  BY <1>1
<1>4. CASE Return(r, "ok") /\ caller[r] = Nobody /\ pc[r] = "begun"
  <2>1. /\ \A q \in Runs : pc'[q] = IF q = r THEN "ok"
                                    ELSE IF q = caller[r] THEN "ran" ELSE pc[q]
        /\ \A q \in Runs : Returned(q) => pc'[q] = pc[q]
        /\ CalleesReturned'
    BY <1>1, <1>4, ReturnFacts
  <2>2. \A q \in Runs : pc'[q] = IF q = r THEN "ok" ELSE pc[q]
    BY <1>4, <2>1, EngineAssumption
  <2>3. FailureIsPassedOn'
    <3>1. ASSUME NEW s \in Runs, caller[s] = r, pc[s] = "failed" PROVE FALSE
      BY <1>4, <3>1 DEF Covered, FailureIsPassedOn
    <3>. QED  BY <1>1, <2>2, <3>1 DEF Covered, FailureIsPassedOn
  <2>4. \A q \in Runs : pc'[q] = "ok" => pc[q] = "ok" \/ caller'[q] = Nobody
    BY <1>1, <1>4, <2>2
  <2>. QED  BY <1>1, <1>2, <1>3, <2>1, <2>3, <2>4, CoveredKept
<1>5. CASE Return(r, "failed")
  <2>1. /\ \A q \in Runs : pc'[q] = IF q = r THEN "failed"
                                    ELSE IF q = caller[r] THEN "failing" ELSE pc[q]
        /\ \A q \in Runs : Returned(q) => pc'[q] = pc[q]
        /\ CalleesReturned'
    BY <1>1, <1>5, ReturnFacts
  <2>2. FailureIsPassedOn'
    <3>. SUFFICES ASSUME NEW s \in Runs, caller[s] \in Runs, pc'[s] = "failed"
                  PROVE  pc'[caller[s]] \in {"failing", "failed"}
      BY <1>1 DEF FailureIsPassedOn
    <3>1. s = r \/ pc[s] = "failed"
      BY <2>1
    <3>. QED  BY <2>1, <3>1 DEF Covered, FailureIsPassedOn
  <2>3. \A q \in Runs : pc'[q] = "ok" => pc[q] = "ok"
    BY <2>1
  <2>. QED  BY <1>1, <1>2, <1>3, <2>1, <2>2, <2>3, CoveredKept
<1>. QED  BY <1>1, <1>4, <1>5

\* What a run has at the end of its order: its own edges, and those of its
\* callees, all of which succeeded.
LEMMA TreeInOwnMap ==
  ASSUME Inv, Covered, NEW r \in Runs, pc[r] = "node"
  PROVE  EdgesOf(Tree(r)) \subseteq taken[r]
<1>. SUFFICES ASSUME NEW e \in EdgesOf(Tree(r)) PROVE e \in taken[r]
  OBVIOUS
<1>1. e[1] \in Tree(r) /\ \E m \in Runs : e \in taken[m]
  BY DEF EdgesOf
<1>2. CASE e[1] = r
  BY <1>1, <1>2 DEF Covered, EdgesAtHome
<1>3. ASSUME NEW q \in Runs, caller[q] = r, e[1] \in Tree(q) PROVE e \in taken[r]
  <2>1. Returned(q) /\ pc[q] # "failed"
    BY <1>3, ActorCallees DEF Covered, FailureIsPassedOn
  <2>2. EdgesOf(Tree(q)) \subseteq taken[r]
    BY <1>3, <2>1 DEF Covered, CalleesCovered, Returned
  <2>3. e \in EdgesOf(Tree(q))
    BY <1>1, <1>3 DEF EdgesOf
  <2>. QED  BY <2>2, <2>3
<1>. QED  BY <1>1, <1>2, <1>3, TreeOfCallees

\* The merge: the map that is published, the caller's if there is one, covers
\* the tree.
LEMMA ReturnOkCovered ==
  ASSUME Inv, Covered, NEW r \in Runs, ReturnOk(r)
  PROVE  Covered'
<1>. USE EngineAssumption
<1>1. pc[r] = "node" /\ Return(r, "ok") /\ caller' = caller
  BY DEF ReturnOk
<1>2. edgesTaken = r
  BY <1>1, FieldsAreOwn DEF Owns
<1>3. /\ \A q \in Runs : pc'[q] = IF q = r THEN "ok"
                                  ELSE IF q = caller[r] THEN "ran" ELSE pc[q]
      /\ \A q \in Runs : Returned(q)' <=> Returned(q) \/ q = r
      /\ CalleesReturned'
  BY <1>1, ReturnFacts
<1>4. caller[r] \in Runs => pc[caller[r]] = "calling" /\ parentEdges[r] = caller[r]
  BY <1>1, ActorCallees
<1>5. PICK d \in Runs : /\ d = edgesTaken'
                        /\ result' = [result EXCEPT ![r] = d]
                        /\ taken[r] \subseteq taken'[d]
                        /\ caller[r] \in Runs => d = caller[r]
  <2>1. parentEdges[r] \in Runs \cup {Nobody}
    BY DEF Inv, TypeOK, MaybeRun
  <2>2. CASE parentEdges[r] = Nobody
    BY <1>2, <1>4, <2>2 DEF ReturnOk, Merged, Restored
  <2>3. CASE parentEdges[r] \in Runs
    <3>1. edgesTaken' = parentEdges[r]
      BY <2>3 DEF ReturnOk, Restored
    <3>2. taken' = [taken EXCEPT ![parentEdges[r]] = @ \cup taken[r]]
      BY <1>2, <2>3 DEF ReturnOk, Merged
    <3>3. taken[r] \subseteq taken'[parentEdges[r]]
      BY <2>3, <3>2 DEF Inv, TypeOK
    <3>. QED  BY <1>4, <2>3, <3>1, <3>3 DEF ReturnOk
  <2>. QED  BY <2>1, <2>2, <2>3
<1>6. \A m \in Runs : /\ taken[m] \subseteq taken'[m]
                      /\ \A e \in taken'[m] : \E l \in Runs : e \in taken[l]
  <2>1. taken' = taken \/ \E m \in Runs : taken' = [taken EXCEPT ![m] = @ \cup taken[r]]
    <3>1. parentEdges[r] \in Runs \cup {Nobody}
      BY DEF Inv, TypeOK, MaybeRun
    <3>. QED  BY <1>2, <3>1 DEF ReturnOk, Merged
  <2>. QED  BY <2>1 DEF Inv, TypeOK
<1>7. EdgesAtHome'
  <2>. SUFFICES ASSUME NEW m \in Runs, NEW e \in taken'[m] PROVE e \in taken'[e[1]]
    BY DEF EdgesAtHome
  <2>1. PICK l \in Runs : e \in taken[l]
    BY <1>6
  <2>2. e \in taken[e[1]] /\ e[1] \in Runs
    BY <2>1 DEF Covered, EdgesAtHome, Inv, TypeOK, Edges
  <2>. QED  BY <1>6, <2>2
<1>8. FailureIsPassedOn'
  <2>. SUFFICES ASSUME NEW s \in Runs, caller[s] \in Runs, pc'[s] = "failed"
                PROVE  pc'[caller[s]] \in {"failing", "failed"}
    BY <1>1 DEF FailureIsPassedOn
  <2>1. pc[s] = "failed"
    BY <1>3
  <2>2. pc[caller[s]] \in {"failing", "failed"}
    BY <2>1 DEF Covered, FailureIsPassedOn
  <2>. QED  BY <1>1, <1>3, <1>4, <2>2
<1>9. ResultIsLast'
  BY <1>3, <1>5 DEF Covered, ResultIsLast, Inv, TypeOK
<1>10. \A q \in Runs : Returned(q) =>
         \A m \in Runs : EdgesOf(Tree(q)) \subseteq taken[m]
                           => EdgesOf(Tree(q))' \subseteq taken'[m]
  BY <1>1, <1>6, SettledTree DEF Covered
<1>11. EdgesOf(Tree(r))' \subseteq taken'[edgesTaken']
  <2>1. EdgesOf(Tree(r)) \subseteq taken[r]
    BY <1>1, TreeInOwnMap
  <2>2. EdgesOf(Tree(r))' \subseteq EdgesOf(Tree(r))
    <3>1. Tree(r)' = Tree(r)
      BY <1>1 DEF Tree, ClosedUnderCalls
    <3>. QED  BY <1>6, <3>1 DEF EdgesOf
  <2>. QED  BY <1>5, <2>1, <2>2
<1>12. ResultCoversTree'
  <2>. SUFFICES ASSUME NEW q \in Runs, result'[q] # Nobody
                PROVE  EdgesOf(Tree(q))' \subseteq taken'[result'[q]]
    BY DEF ResultCoversTree
  <2>1. CASE q = r
    <3>1. result'[r] = edgesTaken'
      BY <1>5 DEF Inv, TypeOK
    <3>. QED  BY <1>11, <2>1, <3>1
  <2>2. CASE q # r
    <3>1. result'[q] = result[q] /\ result[q] \in Runs
      BY <1>5, <2>2 DEF Inv, TypeOK, MaybeRun
    <3>2. Returned(q) /\ EdgesOf(Tree(q)) \subseteq taken[result[q]]
      BY <3>1 DEF Covered, ResultIsLast, ResultCoversTree
    <3>. QED  BY <1>10, <3>1, <3>2
  <2>. QED  BY <2>1, <2>2
<1>13. CalleesCovered'
  <2>. SUFFICES ASSUME NEW q \in Runs, caller[q] \in Runs, pc'[q] = "ok"
                PROVE  EdgesOf(Tree(q))' \subseteq taken'[caller[q]]
    BY <1>1 DEF CalleesCovered
  <2>1. CASE q = r
    BY <1>5, <1>11, <2>1
  <2>2. CASE q # r
    <3>1. pc[q] = "ok" /\ Returned(q)
      BY <1>3, <2>2 DEF Returned
    <3>2. EdgesOf(Tree(q)) \subseteq taken[caller[q]]
      BY <3>1 DEF Covered, CalleesCovered
    <3>. QED  BY <1>10, <3>1, <3>2
  <2>. QED  BY <2>1, <2>2
<1>. QED  BY <1>3, <1>7, <1>8, <1>9, <1>12, <1>13 DEF Covered

LEMMA NextCovered == Sequential /\ Inv /\ Covered /\ [Next]_vars => Covered'
<1>. SUFFICES ASSUME Sequential, Inv, Covered, [Next]_vars PROVE Covered'
  OBVIOUS
<1>1. ASSUME NEW r \in Runs,
             StartTop(r) \/ \E p \in Runs \ {r} : CallWorkflow(p, r)
      PROVE  Covered'
  BY <1>1, BeginCovered
<1>2. ASSUME NEW r \in Runs, DepthExceeded(r) \/ Validated(r) \/ RunNode(r)
      PROVE  Covered'
  BY <1>2, QuietCovered
<1>3. ASSUME NEW r \in Runs, SkipNode(r) PROVE Covered'
  BY <1>3, SkipNodeCovered
<1>4. ASSUME NEW r \in Runs, RecordNode(r) PROVE Covered'
  BY <1>4, RecordNodeCovered
<1>5. ASSUME NEW r \in Runs, EmptyWorkflow(r) \/ ReturnError(r) PROVE Covered'
  BY <1>5, ReturnWithoutMapCovered
<1>6. ASSUME NEW r \in Runs, ReturnOk(r) PROVE Covered'
  BY <1>6, ReturnOkCovered
<1>7. CASE UNCHANGED vars
  <2>1. UNCHANGED <<pc, caller, taken, result>>
    BY <1>7 DEF vars
  <2>2. UNCHANGED <<EdgesAtHome, CalleesReturned, FailureIsPassedOn, ResultIsLast>>
    BY <2>1 DEF EdgesAtHome, CalleesReturned, FailureIsPassedOn, ResultIsLast,
                Returned
  <2>3. UNCHANGED <<CalleesCovered, ResultCoversTree>>
    BY <2>1 DEF CalleesCovered, ResultCoversTree, EdgesOf, Tree, ClosedUnderCalls
  <2>. QED  BY <2>2, <2>3 DEF Covered
<1>. QED  BY <1>1, <1>2, <1>3, <1>4, <1>5, <1>6, <1>7 DEF Next

----------------------------------------------------------------------------
\* The invariant is inductive.
LEMMA NextInv == Sequential /\ Inv /\ [Next]_vars => Inv'
<1>. SUFFICES ASSUME Sequential, Inv, [Next]_vars PROVE Inv'
  OBVIOUS
<1>1. ASSUME NEW r \in Runs, StartTop(r) PROVE Inv'
  BY <1>1, StartTopInv
<1>2. ASSUME NEW r \in Runs, DepthExceeded(r) PROVE Inv'
  BY <1>2, DepthExceededInv
<1>3. ASSUME NEW r \in Runs, NEW p \in Runs \ {r}, CallWorkflow(p, r) PROVE Inv'
  BY <1>3, CallWorkflowInv
<1>4. ASSUME NEW r \in Runs, EmptyWorkflow(r) PROVE Inv'
  BY <1>4, EmptyWorkflowInv
<1>5. ASSUME NEW r \in Runs, Validated(r) PROVE Inv'
  BY <1>5, ValidatedInv
<1>6. ASSUME NEW r \in Runs, RunNode(r) PROVE Inv'
  BY <1>6, RunNodeInv
<1>7. ASSUME NEW r \in Runs, SkipNode(r) PROVE Inv'
  BY <1>7, SkipNodeInv
<1>8. ASSUME NEW r \in Runs, RecordNode(r) PROVE Inv'
  BY <1>8, RecordNodeInv
<1>9. ASSUME NEW r \in Runs, ReturnOk(r) PROVE Inv'
  BY <1>9, ReturnOkInv
<1>10. ASSUME NEW r \in Runs, ReturnError(r) PROVE Inv'
  BY <1>10, ReturnErrorInv
<1>11. CASE UNCHANGED vars
  <2>1. TypeOK' /\ InNode' /\ NewIsUncalled'
    BY <1>11 DEF vars, fields, Inv, TypeOK, InNode, NodesLeft, NewIsUncalled
  <2>2. IsStack'
    BY <1>11 DEF vars, fields, Inv, IsStack, Stack, Active, Returned, Owns,
                 Contexts
  <2>3. ContextIsNotAnothers' /\ DataIsOneRuns'
    BY <1>11 DEF vars, Inv, ContextIsNotAnothers, DataIsOneRuns
  <2>. QED  BY <2>1, <2>2, <2>3 DEF Inv
<1>. QED  BY <1>1, <1>2, <1>3, <1>4, <1>5, <1>6, <1>7, <1>8, <1>9, <1>10,
             <1>11 DEF Next

\* The runs under way are a stack in every reachable state.
THEOREM EngineInv == Sequential => (Spec => []Inv)
<1>. SUFFICES ASSUME Sequential PROVE Spec => []Inv
  OBVIOUS
<1>1. Init => Inv
  BY InitInv
<1>2. Inv /\ [Next]_vars => Inv'
  BY NextInv
<1>. QED  BY <1>1, <1>2, PTL DEF Spec

\* Every field and every local of a run keeps its type (engine.go:276-310).
THEOREM EngineTypeCorrect == Sequential => (Spec => []TypeOK)
<1>1. Inv => TypeOK
  BY DEF Inv
<1>. QED  BY <1>1, EngineInv, PTL

\* However deep the calls nest, a run records the edges it takes into the map
\* it made itself, because every successful return puts the caller's map back
\* and every failed one fails the caller (engine.go:295, 739, 766-771).
THEOREM AccumulatorNotMixed == Sequential => (Spec => []AccumulatorIsOwn)
<1>1. Inv => AccumulatorIsOwn
  BY FieldsAreOwn DEF Owns, AccumulatorIsOwn
<1>. QED  BY <1>1, EngineInv, PTL

\* A node is handed the workflow and the data of its own run, or nil once its
\* run has called another: never another run's (engine.go:287-306, 815).
THEOREM ContextNotMixed == Sequential => (Spec => []ContextIsNotAnothers)
<1>1. Inv => ContextIsNotAnothers
  BY DEF Inv
<1>. QED  BY <1>1, EngineInv, PTL

\* The results of two runs are never stored in the same run data
\* (engine.go:695-704).
THEOREM DataNotMixed == Sequential => (Spec => []DataIsOneRuns)
<1>1. Inv => DataIsOneRuns
  BY DEF Inv
<1>. QED  BY <1>1, EngineInv, PTL

\* A published map lacks no edge of the run's execution tree: by the time a
\* run merges, every callee has returned, none has failed, and each has merged
\* its own tree into the run's map (engine.go:766-771).
THEOREM TreeIsCovered == Sequential => (Spec => []ResultCoversTree)
<1>. SUFFICES ASSUME Sequential PROVE Spec => []ResultCoversTree
  OBVIOUS
<1>1. Init => Inv /\ Covered
  BY InitInv, InitCovered
<1>2. Inv /\ Covered /\ [Next]_vars => (Inv /\ Covered)'
  BY NextInv, NextCovered
<1>3. Covered => ResultCoversTree
  BY DEF Covered
<1>. QED  BY <1>1, <1>2, <1>3, PTL DEF Spec

----------------------------------------------------------------------------
(* The circuit breaker.                                                    *)

\* A set of callers is finite, and its size moves by at most one when a
\* caller joins it or leaves it.
LEMMA ProbesCardinality ==
  ASSUME NEW S \in SUBSET Calls, NEW c \in Calls
  PROVE  /\ Cardinality(S) \in Nat
         /\ Cardinality({c}) = 1
         /\ Cardinality(S \cup {c}) <= Cardinality(S) + 1
         /\ Cardinality(S \ {c}) <= Cardinality(S)
<1>1. IsFiniteSet(S)
  BY BreakerAssumption, FS_Subset
<1>2. Cardinality(S) \in Nat
  BY <1>1, FS_CardinalityType
<1>3. Cardinality(S \cup {c}) <= Cardinality(S) + 1
  <2>1. Cardinality(S \cup {c}) =
          IF c \in S THEN Cardinality(S) ELSE Cardinality(S) + 1
    BY <1>1, FS_AddElement
  <2> QED BY <1>2, <2>1
<1>4. Cardinality(S \ {c}) <= Cardinality(S)
  <2>1. Cardinality(S \ {c}) =
          IF c \in S THEN Cardinality(S) - 1 ELSE Cardinality(S)
    BY <1>1, FS_RemoveElement
  <2> QED BY <1>2, <2>1
<1>5. Cardinality({c}) = 1
  BY FS_Singleton
<1> QED BY <1>2, <1>3, <1>4, <1>5

LEMMA BreakerInitInv == BreakerInit => BreakerInv
<1> SUFFICES ASSUME BreakerInit PROVE BreakerInv
  OBVIOUS
<1> USE DEF BreakerInit
<1>1. BreakerTypeOK
  BY DEF BreakerTypeOK
<1>2. ClosedIsBelowThreshold
  BY BreakerAssumption DEF ClosedIsBelowThreshold
<1>3. ProbesAreCounted /\ HalfOpenStartsClean
  BY DEF ProbesAreCounted, HalfOpenStartsClean
<1> QED BY <1>1, <1>2, <1>3 DEF BreakerInv

LEMMA BreakerStepInv == BreakerInv /\ [BreakerNext]_breakerVars => BreakerInv'
<1> SUFFICES ASSUME BreakerInv, [BreakerNext]_breakerVars PROVE BreakerInv'
  OBVIOUS
<1> USE BreakerAssumption
        DEF BreakerInv, BreakerTypeOK, ClosedIsBelowThreshold, ProbesAreCounted,
            HalfOpenStartsClean
<1>1. CASE TimeoutPasses
  BY <1>1 DEF TimeoutPasses
<1>2. CASE Reset
  BY <1>2 DEF Reset
<1>3. ASSUME NEW c \in Calls, AllowClosed(c) PROVE BreakerInv'
  BY <1>3 DEF AllowClosed, Moves
<1>4. ASSUME NEW c \in Calls, AllowFirst(c) PROVE BreakerInv'
  <2>1. Cardinality(probes') = 1
    BY <1>4, ProbesCardinality DEF AllowFirst
  <2> QED BY <1>4, <2>1 DEF AllowFirst, FirstProbe, Moves
<1>5. ASSUME NEW c \in Calls, AllowHalfOpen(c) PROVE BreakerInv'
  <2>1. /\ Cardinality(probes) \in Nat
        /\ Cardinality(probes') <= Cardinality(probes) + 1
    BY <1>5, ProbesCardinality DEF AllowHalfOpen
  <2>2. Cardinality(probes') \in Nat
    BY <1>5, ProbesCardinality DEF AllowHalfOpen
  <2> QED BY <1>5, <2>1, <2>2 DEF AllowHalfOpen, RoomForProbe, Moves
<1>6. ASSUME NEW c \in Calls, RecordFailure(c) PROVE BreakerInv'
  <2>1. BreakerTypeOK'
    <3>1. state' \in {"closed", "open", "halfOpen"}
      BY <1>6 DEF RecordFailure
    <3>2. /\ failureCount' \in Nat
          /\ successCount' \in Nat
          /\ halfOpenCalls' \in Nat
          /\ probes' \in SUBSET Calls
      BY <1>6 DEF RecordFailure, SuccessesReset
    <3>3. stage' \in [Calls -> {"idle", "running"}]
      BY <1>6 DEF RecordFailure, Moves
    <3>4. expired' \in BOOLEAN
      BY <1>6 DEF RecordFailure
    <3> QED BY <3>1, <3>2, <3>3, <3>4
  <2>2. ClosedIsBelowThreshold'
    BY <1>6 DEF RecordFailure, Trips
  <2>3. state' # "halfOpen"    \* a half-open breaker opens
    BY <1>6 DEF RecordFailure
  <2>4. HalfOpenStartsClean'
    BY <1>6 DEF RecordFailure, SuccessesReset
  <2> QED BY <2>1, <2>2, <2>3, <2>4
<1>7. ASSUME NEW c \in Calls, RecordSuccess(c) PROVE BreakerInv'
  <2>1. /\ Cardinality(probes) \in Nat
        /\ Cardinality(probes') \in Nat
        /\ Cardinality(probes') <= Cardinality(probes)
    BY <1>7, ProbesCardinality DEF RecordSuccess
  <2>2. BreakerTypeOK'
    BY <1>7 DEF RecordSuccess, Moves
  <2>3. ClosedIsBelowThreshold' /\ HalfOpenStartsClean'
    BY <1>7 DEF RecordSuccess
  <2>4. ProbesAreCounted'
    BY <1>7, <2>1 DEF RecordSuccess
  <2> QED BY <2>2, <2>3, <2>4
<1>8. CASE UNCHANGED breakerVars
  BY <1>8 DEF breakerVars
<1> QED BY <1>1, <1>2, <1>3, <1>4, <1>5, <1>6, <1>7, <1>8 DEF BreakerNext, Report

\* The breaker keeps its inductive invariant, whatever the callers do.
THEOREM BreakerInvariance == BreakerSpec => []BreakerInv
BY BreakerInitInv, BreakerStepInv, PTL DEF BreakerSpec

\* Every field has its type: no counter goes below zero (retry.go:213-221).
THEOREM BreakerTypeCorrect == BreakerSpec => []BreakerTypeOK
BY BreakerInvariance, PTL DEF BreakerInv

\* A closed breaker is below its failure threshold, in whatever order the
\* calls it admitted, now or before, report (retry.go:308-334).
THEOREM NeverOverdue == BreakerSpec => []ClosedIsBelowThreshold
BY BreakerInvariance, PTL DEF BreakerInv

\* A half-open breaker has at most MaxConcurrentCalls probes running
\* (retry.go:279-292).
THEOREM LimitedProbes == BreakerSpec => []ProbesAreLimited
<1>1. BreakerInv => ProbesAreLimited
  <2> SUFFICES ASSUME BreakerInv, state = "halfOpen"
               PROVE  Cardinality(probes) <= MaxConcurrentCalls
    BY DEF ProbesAreLimited
  <2>1. Cardinality(probes) \in Nat
    BY BreakerAssumption, FS_Subset, FS_CardinalityType DEF BreakerInv, BreakerTypeOK
  <2> QED
    BY <2>1, BreakerAssumption DEF BreakerInv, BreakerTypeOK, ProbesAreCounted
<1> QED BY <1>1, BreakerInvariance, PTL

\* A half-open state starts without successes of an earlier one
\* (retry.go:279-282, 308-311).
THEOREM CleanStart == BreakerSpec => []HalfOpenStartsClean
BY BreakerInvariance, PTL DEF BreakerInv
=============================================================================
