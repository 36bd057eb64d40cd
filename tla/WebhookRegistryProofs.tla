----------------------- MODULE WebhookRegistryProofs -----------------------
(***************************************************************************)
(* Proofs about WebhookRegistry, for any workflows, paths, ids, handlers,  *)
(* faults and restarts.  What is served is stored as long as no client     *)
(* posts a webhook under an id in use.  Where workflows have paths of      *)
(* their own besides, what a clean change leaves agrees with the table:    *)
(* the invariant says of each handler whose call is sound how far it has   *)
(* brought the rows and the map of its workflow (Progress).                *)
(***************************************************************************)
EXTENDS WebhookRegistry, TLAPS

OwnPathsOnly ==
  \A v, w \in Workflows : v # w => PathsOf[v] \cap PathsOf[w] = {}

----------------------------------------------------------------------------
(* The inductive invariant.                                                *)

\* The paths that are in use are those the users give.
PathsGiven ==
  /\ \A w \in Workflows : path[w] \in PathsOf[w]
  /\ \A i \in IDs : rows[i] # None => rows[i].path \in PathsOf[rows[i].workflow]
  /\ \A h \in Handlers :
       call[h] # None => call[h].path \in PathsOf[call[h].workflow]

\* An id that a handler has yet to unregister is not taken by another.
TodoIsOwn ==
  \A h \in Handlers : call[h] # None =>
    \A i \in call[h].todo :
      rows[i] # None => rows[i].workflow = call[h].workflow

DownIsIdle ==
  ~up => restarts < MaxRestarts /\ \A h \in Handlers : call[h] = None

\* What is stored of w is as the table has it, and served.
Agrees(w, i) ==
  /\ rows[i].active /\ rows[i].path = path[w]
  /\ up => /\ activeHooks[path[w]] # None
           /\ activeHooks[path[w]].workflow = w
Steady(w) == \A i \in Stored(w) : Agrees(w, i)
Right(w) == Steady(w) /\ (Stored(w) # {} <=> status[w] = "active")

\* How far a sound call has come.
Progress(w, c) ==
  /\ c.at = "get" => status[w] = "active" /\ (clean[w] => Steady(w)) /\ ~c.clears
  /\ c.at \in {"list", "unregister"} =>
       /\ status[w] = StatusOf(c.active)
       /\ c.active => path[w] = c.path
  /\ c.at = "unregister" => c.clears /\ Stored(w) = c.todo /\ c.todo # {}
  /\ c.at = "register" =>
       /\ c.active /\ status[w] = "active" /\ path[w] = c.path
       /\ c.clears => Stored(w) = {}
       /\ clean[w] => Steady(w)
  /\ c.at = "respond" /\ (c.clears \/ clean[w]) => Right(w)

Alone(w, h) ==
  \A g \in Handlers : call[g] # None /\ call[g].workflow = w => g = h

InLine(w) ==
  /\ clean[w] /\ ~Busy(w) => Right(w)
  /\ \A h \in Handlers :
       call[h] # None /\ call[h].workflow = w /\ call[h].sound
         => Alone(w, h) /\ Progress(w, call[h])

AllInLine == \A w \in Workflows : InLine(w)

BInv == TypeOK /\ PathsGiven /\ TodoIsOwn /\ DownIsIdle /\ ServedIsStored
IInv == BInv /\ AllInLine

----------------------------------------------------------------------------
(* The first half of the invariant.                                        *)

LEMMA AnyPathIsGiven ==
  ASSUME NEW w \in Workflows
  PROVE  AnyPath(w) \in PathsOf[w] /\ PathsOf[w] \subseteq Paths
BY RegistryAssumption DEF AnyPath

LEMMA InitIInv == Init => IInv
BY RegistryAssumption, NoneAssumption, AnyPathIsGiven
   DEF Init, IInv, BInv, TypeOK, PathsGiven, TodoIsOwn, DownIsIdle,
       ServedIsStored, AllInLine, InLine, Busy, Stored, Right, Steady

\* What a change of a workflow does to the calls of others: nothing but to
\* make them unsound.
LEMMA DisturbedCalls ==
  ASSUME TypeOK, NEW W, NEW h \in Handlers
  PROVE  /\ Disturbed(W)[h] \in Call \cup {None}
         /\ Disturbed(W)[h] = None <=> call[h] = None
         /\ call[h] # None =>
              /\ Disturbed(W)[h].at = call[h].at
              /\ Disturbed(W)[h].workflow = call[h].workflow
              /\ Disturbed(W)[h].path = call[h].path
              /\ Disturbed(W)[h].todo = call[h].todo
              /\ call[h].workflow \in W => ~Disturbed(W)[h].sound
              /\ call[h].workflow \notin W => Disturbed(W)[h] = call[h]
<1>1. Disturbed(W)[h] = Unsound(call[h], W)
  BY DEF Disturbed
<1>2. CASE call[h] = None
  BY <1>1, <1>2 DEF Unsound
<1>3. CASE call[h] # None /\ call[h].workflow \in W
  <2>1. Disturbed(W)[h] = [call[h] EXCEPT !.sound = FALSE]
    BY <1>1, <1>3 DEF Unsound
  <2>2. call[h] \in Call
    BY <1>3 DEF TypeOK
  <2>3. Disturbed(W)[h] \in Call
    BY <2>1, <2>2 DEF Call
  <2>4. Disturbed(W)[h] # None
    BY <2>3, NoneAssumption
  <2> QED BY <1>3, <2>1, <2>2, <2>3, <2>4 DEF Call
<1>4. CASE call[h] # None /\ call[h].workflow \notin W
  BY <1>1, <1>4 DEF Unsound, TypeOK
<1> QED BY <1>2, <1>3, <1>4

\* The new call of a handler that begins.
NewCall(w, at, p, active, sound) ==
  [at |-> at, workflow |-> w, path |-> p, active |-> active, todo |-> {},
   clears |-> FALSE, sound |-> sound /\ ~Busy(w)]

LEMMA BeginCalls ==
  ASSUME TypeOK, NEW h \in Handlers, NEW w \in Workflows, NEW at, NEW p,
         NEW active, NEW sound, Begin(h, w, at, p, active, sound)
  PROVE  /\ call'[h] = NewCall(w, at, p, active, sound)
         /\ \A g \in Handlers : g # h => call'[g] = Disturbed({w})[g]
         /\ call' = [g \in Handlers |-> call'[g]]
BY DEF Begin, NewCall, Disturbed

LEMMA BeginBInv ==
  ASSUME BInv, NEW h \in Handlers, NEW w \in Workflows,
         NEW at \in {"get", "list", "register", "respond"},
         NEW p \in PathsOf[w], NEW active \in BOOLEAN, NEW sound \in BOOLEAN,
         NEW s \in {"absent", "inactive", "active"},
         Begin(h, w, at, p, active, sound), SetTable(w, s, p),
         UNCHANGED <<rows, activeHooks, process, clean>>
  PROVE  BInv'
<1> USE DEF BInv
<1> DEFINE D(g) == Disturbed({w})[g]
<1>a. TypeOK
  OBVIOUS
<1>b. /\ call'[h] = NewCall(w, at, p, active, sound)
      /\ \A g \in Handlers : g # h => call'[g] = D(g)
      /\ call' = [g \in Handlers |-> call'[g]]
  BY <1>a, BeginCalls
<1>c. \A g \in Handlers :
        /\ D(g) \in Call \cup {None}
        /\ D(g) = None <=> call[g] = None
        /\ call[g] # None => /\ D(g).workflow = call[g].workflow
                             /\ D(g).path = call[g].path
                             /\ D(g).todo = call[g].todo
  BY <1>a, DisturbedCalls
<1> HIDE DEF D
<1>1. p \in Paths
  BY AnyPathIsGiven
<1>2. NewCall(w, at, p, active, sound) \in Call
  BY <1>1 DEF NewCall, Call, Busy
<1>3. TypeOK'
  <2>1. \A g \in Handlers : call'[g] \in Call \cup {None}
    BY <1>2, <1>b, <1>c
  <2>2. call' \in [Handlers -> Call \cup {None}]
    BY <2>1, <1>b
  <2> QED BY <1>1, <2>2 DEF TypeOK, SetTable, process
<1>4. PathsGiven'
  <2>1. \A v \in Workflows : path'[v] \in PathsOf[v]
    BY DEF PathsGiven, SetTable, TypeOK
  <2>2. ASSUME NEW g \in Handlers, call'[g] # None
        PROVE  call'[g].path \in PathsOf[call'[g].workflow]
    BY <2>2, <1>b, <1>c DEF PathsGiven, NewCall
  <2> QED BY <2>1, <2>2 DEF PathsGiven
<1>5. TodoIsOwn'
  <2> SUFFICES ASSUME NEW g \in Handlers, call'[g] # None,
                      NEW i \in call'[g].todo, rows'[i] # None
               PROVE  rows'[i].workflow = call'[g].workflow
    BY DEF TodoIsOwn
  <2> QED BY <1>b, <1>c DEF TodoIsOwn, NewCall
<1>6. DownIsIdle' /\ ServedIsStored'
  BY DEF DownIsIdle, Begin, process, ServedIsStored
<1> QED BY <1>3, <1>4, <1>5, <1>6

\* What a section under m.mu does to the rows and the map.
LEMMA Added ==
  ASSUME BInv, NEW i \in IDs, Fresh(i), NEW r \in Row,
         AddRow(i, r), Serve(i, r)
  PROVE  /\ rows' \in [IDs -> Row \cup {None}]
         /\ activeHooks' \in [Paths -> Hook \cup {None}]
         /\ rows'[i] = r /\ r # None
         /\ \A j \in IDs : j # i => rows'[j] = rows[j]
         /\ \A p \in Paths : (~r.active \/ p # r.path) =>
              activeHooks'[p] = activeHooks[p]
         /\ r.active => activeHooks'[r.path] = [id |-> i, workflow |-> r.workflow]
         /\ ServedIsStored'
<1> USE DEF BInv
<1>1. /\ rows' \in [IDs -> Row \cup {None}]
      /\ rows'[i] = r /\ r # None
      /\ \A j \in IDs : j # i => rows'[j] = rows[j]
  BY NoneAssumption DEF AddRow, TypeOK
<1>2. /\ r.workflow \in Workflows /\ r.path \in Paths /\ r.active \in BOOLEAN
      /\ r = [workflow |-> r.workflow, path |-> r.path, active |-> r.active]
  BY DEF Row
<1>3. [id |-> i, workflow |-> r.workflow] \in Hook
  BY <1>2 DEF Hook
<1>4. /\ activeHooks' \in [Paths -> Hook \cup {None}]
      /\ \A p \in Paths : (~r.active \/ p # r.path) =>
           activeHooks'[p] = activeHooks[p]
      /\ r.active => activeHooks'[r.path] = [id |-> i, workflow |-> r.workflow]
  BY <1>2, <1>3 DEF Serve, TypeOK
<1>5. ASSUME NEW p \in Paths, activeHooks'[p] # None
      PROVE  rows'[activeHooks'[p].id] =
               [workflow |-> activeHooks'[p].workflow, path |-> p,
                active |-> TRUE]
  <2>1. CASE r.active /\ p = r.path
    <3>1. activeHooks'[p] = [id |-> i, workflow |-> r.workflow]
      BY <1>4, <2>1
    <3>2. activeHooks'[p].id = i /\ activeHooks'[p].workflow = r.workflow
      BY <3>1
    <3>3. r = [workflow |-> r.workflow, path |-> p, active |-> TRUE]
      BY <1>2, <2>1
    <3> QED BY <1>1, <3>2, <3>3
  <2>2. CASE ~r.active \/ p # r.path
    <3>1. activeHooks'[p] = activeHooks[p] /\ activeHooks[p] # None
      BY <1>4, <1>5, <2>2
    <3>2. activeHooks[p].id \in IDs /\ activeHooks[p].id # i
      BY <3>1 DEF Fresh, TypeOK, Hook
    <3> QED BY <1>1, <3>1, <3>2 DEF ServedIsStored
  <2> QED BY <2>1, <2>2
<1>6. ServedIsStored'
  BY <1>5 DEF ServedIsStored
<1> QED BY <1>1, <1>4, <1>6

LEMMA Removed ==
  ASSUME BInv, NEW i \in IDs, rows[i] # None,
         activeHooks' = [activeHooks EXCEPT ![rows[i].path] = None],
         \/ rows' = [rows EXCEPT ![i] = None]
         \/ UNCHANGED rows
  PROVE  /\ rows' \in [IDs -> Row \cup {None}]
         /\ activeHooks' \in [Paths -> Hook \cup {None}]
         /\ \A j \in IDs : j # i => rows'[j] = rows[j]
         /\ rows'[i] \in {rows[i], None}
         /\ \A p \in Paths : p # rows[i].path => activeHooks'[p] = activeHooks[p]
         /\ ServedIsStored'
<1> USE DEF BInv
<1>1. /\ rows' \in [IDs -> Row \cup {None}]
      /\ rows'[i] \in {rows[i], None}
      /\ \A j \in IDs : j # i => rows'[j] = rows[j]
  BY DEF TypeOK
<1>2. /\ activeHooks' \in [Paths -> Hook \cup {None}]
      /\ \A p \in Paths :
           /\ p # rows[i].path => activeHooks'[p] = activeHooks[p]
           /\ p = rows[i].path => activeHooks'[p] = None
  BY DEF TypeOK
<1>3. ASSUME NEW p \in Paths, activeHooks'[p] # None
      PROVE  rows'[activeHooks'[p].id] =
               [workflow |-> activeHooks'[p].workflow, path |-> p,
                active |-> TRUE]
  <2>1. p # rows[i].path /\ activeHooks'[p] = activeHooks[p]
    BY <1>2, <1>3
  <2>2. rows[activeHooks[p].id] =
          [workflow |-> activeHooks[p].workflow, path |-> p, active |-> TRUE]
    BY <1>3, <2>1 DEF ServedIsStored
  <2>3. activeHooks[p].id \in IDs /\ activeHooks[p].id # i
    BY <1>3, <2>1, <2>2 DEF TypeOK, Hook
  <2> QED BY <1>1, <2>1, <2>2, <2>3
<1>4. ServedIsStored'
  BY <1>3 DEF ServedIsStored
<1> QED BY <1>1, <1>2, <1>4

\* A handler goes on with its call and leaves the table alone.
LEMMA HandlerBInv ==
  ASSUME BInv, NEW h \in Handlers, call[h] # None,
         call' \in [Handlers -> Call \cup {None}],
         \A g \in Handlers : g # h => call'[g] = call[g],
         call'[h] # None =>
           /\ call'[h].workflow = call[h].workflow
           /\ call'[h].path \in PathsOf[call[h].workflow],
         rows' \in [IDs -> Row \cup {None}],
         \A i \in IDs : rows'[i] # None =>
           /\ rows'[i].path \in PathsOf[rows'[i].workflow]
           /\ \A g \in Handlers : call'[g] # None /\ i \in call'[g].todo =>
                rows'[i].workflow = call'[g].workflow,
         activeHooks' \in [Paths -> Hook \cup {None}], ServedIsStored',
         UNCHANGED <<table, process>>, clean' \in [Workflows -> BOOLEAN]
  PROVE  BInv'
<1> USE DEF BInv, table, process
<1>1. TypeOK'
  BY DEF TypeOK
<1>2. PathsGiven'
  BY DEF PathsGiven
<1>3. TodoIsOwn'
  <2> SUFFICES ASSUME NEW g \in Handlers, call'[g] # None,
                      NEW i \in call'[g].todo, rows'[i] # None
               PROVE  rows'[i].workflow = call'[g].workflow
    BY DEF TodoIsOwn
  <2>1. i \in IDs
    BY DEF Call
  <2> QED BY <2>1
<1>4. DownIsIdle'
  BY DEF DownIsIdle
<1> QED BY <1>1, <1>2, <1>3, <1>4

LEMMA RespondBInv ==
  ASSUME BInv, NEW h \in Handlers, Respond(h)
  PROVE  BInv'
<1>1. call[h] # None
  BY DEF Respond, At
<1>2. call' = [call EXCEPT ![h] = None] /\ clean' \in [Workflows -> BOOLEAN]
  BY <1>1 DEF Respond, BInv, TypeOK, Call
<1>3. /\ rows' = rows /\ activeHooks' = activeHooks
      /\ UNCHANGED <<table, process>>
  BY DEF Respond
<1> QED
  BY <1>1, <1>2, <1>3, HandlerBInv
     DEF BInv, TypeOK, PathsGiven, TodoIsOwn, ServedIsStored

LEMMA GetBInv ==
  ASSUME BInv, NEW h \in Handlers, GetWorkflow(h) \/ GetWorkflowFails(h)
  PROVE  BInv'
<1> DEFINE w == call[h].workflow
<1>1. /\ call[h] # None /\ call[h] \in Call
      /\ w \in Workflows
  BY DEF GetWorkflow, GetWorkflowFails, At, BInv, TypeOK, Call
<1>2. path[w] \in PathsOf[w] /\ path[w] \in Paths
  BY <1>1 DEF BInv, PathsGiven, TypeOK
<1>3. /\ call'[h] \in Call
      /\ call'[h].workflow = w
      /\ call'[h].path \in PathsOf[w]
      /\ call'[h].todo = call[h].todo
      /\ call' = [call EXCEPT ![h] = call'[h]]
  <2>1. CASE GetWorkflow(h)
    BY <1>1, <1>2, <2>1 DEF GetWorkflow, Goto, BInv, TypeOK, PathsGiven, Call
  <2>2. CASE GetWorkflowFails(h)
    BY <1>1, <2>2 DEF GetWorkflowFails, Faulted, BInv, TypeOK, PathsGiven, Call
  <2> QED BY <2>1, <2>2
<1>4. UNCHANGED <<table, rows, activeHooks, process, clean>>
  BY DEF GetWorkflow, GetWorkflowFails
<1> HIDE DEF w
<1> QED
  BY <1>1, <1>3, <1>4, HandlerBInv
     DEF BInv, TypeOK, PathsGiven, TodoIsOwn, ServedIsStored, w

LEMMA RegisterBInv ==
  ASSUME BInv, NEW h \in Handlers, NEW i \in IDs, Register(h, i)
  PROVE  BInv'
<1> DEFINE r == WebhookOf(call[h])
<1>1. /\ call[h] # None /\ call[h] \in Call
      /\ Fresh(i) /\ AddRow(i, r) /\ Serve(i, r)
      /\ call' = [call EXCEPT ![h].at = "respond"]
      /\ UNCHANGED <<table, process, clean>>
  BY DEF Register, At, Goto, BInv, TypeOK
<1>2. r \in Row /\ r.workflow = call[h].workflow /\ r.path = call[h].path
  BY <1>1 DEF WebhookOf, Row, Call
<1> HIDE DEF r
<1>3. /\ rows' \in [IDs -> Row \cup {None}]
      /\ activeHooks' \in [Paths -> Hook \cup {None}]
      /\ rows'[i] = r
      /\ \A j \in IDs : j # i => rows'[j] = rows[j]
      /\ ServedIsStored'
  BY <1>1, <1>2, Added
<1>4. /\ call'[h] \in Call
      /\ call'[h].workflow = call[h].workflow
      /\ call'[h].path = call[h].path
      /\ call'[h].todo = call[h].todo
      /\ call' \in [Handlers -> Call \cup {None}]
      /\ \A g \in Handlers : g # h => call'[g] = call[g]
  BY <1>1 DEF BInv, TypeOK, Call
<1>5. \A g \in Handlers : call'[g] # None => i \notin call'[g].todo
  BY <1>1, <1>4 DEF Fresh
<1>6. \A j \in IDs : rows'[j] # None =>
        /\ rows'[j].path \in PathsOf[rows'[j].workflow]
        /\ \A g \in Handlers : call'[g] # None /\ j \in call'[g].todo =>
             rows'[j].workflow = call'[g].workflow
  BY <1>1, <1>2, <1>3, <1>4, <1>5 DEF BInv, PathsGiven, TodoIsOwn
<1> QED
  BY <1>1, <1>3, <1>4, <1>6, HandlerBInv DEF BInv, TypeOK, PathsGiven

LEMMA RegisterFailsBInv ==
  ASSUME BInv, NEW h \in Handlers, RegisterFails(h)
  PROVE  BInv'
<1>1. /\ call[h] # None /\ call[h] \in Call
      /\ call' = [call EXCEPT ![h].at = "respond", ![h].sound = FALSE]
      /\ UNCHANGED <<table, rows, activeHooks, process, clean>>
  BY DEF RegisterFails, Faulted, At, BInv, TypeOK
<1>2. /\ call'[h] \in Call
      /\ call'[h].workflow = call[h].workflow
      /\ call'[h].path = call[h].path
      /\ call'[h].todo = call[h].todo
      /\ call' \in [Handlers -> Call \cup {None}]
      /\ \A g \in Handlers : g # h => call'[g] = call[g]
  BY <1>1 DEF BInv, TypeOK, Call
<1>3. \A i \in IDs : rows'[i] # None =>
        /\ rows'[i].path \in PathsOf[rows'[i].workflow]
        /\ \A g \in Handlers : call'[g] # None /\ i \in call'[g].todo =>
             rows'[i].workflow = call'[g].workflow
  BY <1>1, <1>2 DEF BInv, PathsGiven, TodoIsOwn
<1>4. ServedIsStored'
  BY <1>1 DEF BInv, ServedIsStored
<1> QED
  BY <1>1, <1>2, <1>3, <1>4, HandlerBInv DEF BInv, TypeOK, PathsGiven

LEMMA ThenTyped ==
  ASSUME NEW c, NEW ids
  PROVE  Then(c, ids) \in {"unregister", "register", "respond"}
BY DEF Then

LEMMA ListBInv ==
  ASSUME BInv, NEW h \in Handlers, List(h)
  PROVE  BInv'
<1> DEFINE w == call[h].workflow
<1>1. call[h] # None /\ call[h] \in Call
  BY DEF List, At, BInv, TypeOK
<1>2. PICK seen \in SUBSET Stored(w) :
        call' = [call EXCEPT ![h].at = Then(call[h], seen), ![h].todo = seen,
                             ![h].clears = seen = Stored(w),
                             ![h].sound = @ /\ seen = Stored(w)]
  BY DEF List
<1>3. /\ UNCHANGED <<table, rows, activeHooks, process, clean>>
      /\ seen \subseteq IDs
      /\ \A i \in seen : rows[i] # None /\ rows[i].workflow = w
  BY DEF List, Stored
<1> DEFINE cs == seen = Stored(w)
<1>c. cs \in BOOLEAN /\ (cs <=> seen = Stored(w))
  OBVIOUS
<1>4. /\ call'[h] \in Call
      /\ call'[h].workflow = w
      /\ call'[h].path = call[h].path
      /\ call'[h].todo = seen
      /\ call' \in [Handlers -> Call \cup {None}]
      /\ \A g \in Handlers : g # h => call'[g] = call[g]
  <2>1. /\ call' = [call EXCEPT ![h] = call'[h]]
        /\ call'[h] = [call[h] EXCEPT !.at = Then(call[h], seen), !.todo = seen,
                       !.clears = seen = Stored(w),
                       !.sound = call[h].sound /\ seen = Stored(w)]
    BY <1>2 DEF BInv, TypeOK
  <2>2. call'[h] \in Call /\ call'[h].workflow = w
        /\ call'[h].path = call[h].path
        /\ call'[h].todo = seen
    <3>1. call'[h] = [at |-> Then(call[h], seen), workflow |-> w,
                      path |-> call[h].path, active |-> call[h].active,
                      todo |-> seen, clears |-> cs,
                      sound |-> call[h].sound /\ cs]
      BY <1>1, <2>1 DEF Call
    <3> HIDE DEF cs
    <3> QED BY <1>1, <1>3, <1>c, <3>1, ThenTyped DEF Call
  <2> QED BY <2>1, <2>2 DEF BInv, TypeOK
<1> HIDE DEF w
<1> QED
  BY <1>1, <1>3, <1>4, HandlerBInv
     DEF BInv, TypeOK, PathsGiven, TodoIsOwn, ServedIsStored, w

LEMMA UnregisterBInv ==
  ASSUME BInv, NEW h \in Handlers, NEW i \in IDs,
         Unregister(h, i) \/ UnregisterFails(h, i)
  PROVE  BInv'
<1>1. /\ call[h] # None /\ call[h] \in Call
      /\ UNCHANGED <<table, process, clean>>
  BY DEF Unregister, UnregisterFails, At, BInv, TypeOK
<1>2. /\ call'[h] \in Call
      /\ call'[h].workflow = call[h].workflow
      /\ call'[h].path = call[h].path
      /\ call'[h].todo = call[h].todo \ {i}
      /\ call' \in [Handlers -> Call \cup {None}]
      /\ \A g \in Handlers : g # h => call'[g] = call[g]
  <2>1. /\ call[h].todo \ {i} \subseteq IDs
        /\ Then(call[h], call[h].todo \ {i})
             \in {"unregister", "register", "respond"}
    BY <1>1, ThenTyped DEF Call
  <2>2. CASE Unregister(h, i)
    BY <1>1, <2>1, <2>2 DEF Unregister, Done, BInv, TypeOK, Call
  <2>3. CASE UnregisterFails(h, i)
    BY <1>1, <2>1, <2>3 DEF UnregisterFails, Done, BInv, TypeOK, Call
  <2> QED BY <2>2, <2>3
<1>3. /\ rows' \in [IDs -> Row \cup {None}]
      /\ activeHooks' \in [Paths -> Hook \cup {None}]
      /\ \A j \in IDs : rows'[j] \in {rows[j], None}
      /\ ServedIsStored'
  <2>1. CASE UNCHANGED <<rows, activeHooks>>
    BY <2>1 DEF BInv, TypeOK, ServedIsStored
  <2>2. CASE /\ rows[i] # None
             /\ activeHooks' = [activeHooks EXCEPT ![rows[i].path] = None]
             /\ rows' = [rows EXCEPT ![i] = None] \/ UNCHANGED rows
    BY <2>2, Removed
  <2> QED BY <2>1, <2>2 DEF Unregister, UnregisterFails, Remove, RowKept
<1>4. \A j \in IDs : rows'[j] # None =>
        /\ rows'[j].path \in PathsOf[rows'[j].workflow]
        /\ \A g \in Handlers : call'[g] # None /\ j \in call'[g].todo =>
             rows'[j].workflow = call'[g].workflow
  BY <1>1, <1>2, <1>3 DEF BInv, PathsGiven, TodoIsOwn
<1> QED
  BY <1>1, <1>2, <1>3, <1>4, HandlerBInv DEF BInv, TypeOK, PathsGiven

\* A change that is no handler's: it makes the calls of its workflows unsound.
LEMMA TouchBInv ==
  ASSUME BInv, NEW W, call' = Disturbed(W),
         status' \in [Workflows -> {"absent", "inactive", "active"}],
         path' \in [Workflows -> Paths],
         \A w \in Workflows : path'[w] \in PathsOf[w],
         rows' \in [IDs -> Row \cup {None}],
         \A i \in IDs : rows'[i] # None =>
           /\ rows'[i].path \in PathsOf[rows'[i].workflow]
           /\ \A g \in Handlers : call[g] # None /\ i \in call[g].todo =>
                rows'[i].workflow = call[g].workflow,
         activeHooks' \in [Paths -> Hook \cup {None}], ServedIsStored',
         UNCHANGED process, clean' \in [Workflows -> BOOLEAN]
  PROVE  BInv'
<1>1. \A g \in Handlers :
        /\ call'[g] \in Call \cup {None}
        /\ call'[g] = None <=> call[g] = None
        /\ call[g] # None => /\ call'[g].workflow = call[g].workflow
                             /\ call'[g].path = call[g].path
                             /\ call'[g].todo = call[g].todo
  BY DisturbedCalls DEF BInv
<1>2. call' \in [Handlers -> Call \cup {None}]
  BY <1>1 DEF Disturbed
<1>3. TypeOK'
  BY <1>2 DEF BInv, TypeOK, process
<1>4. PathsGiven'
  BY <1>1 DEF BInv, PathsGiven
<1>5. TodoIsOwn'
  <2> SUFFICES ASSUME NEW g \in Handlers, call'[g] # None,
                      NEW i \in call'[g].todo, rows'[i] # None
               PROVE  rows'[i].workflow = call'[g].workflow
    BY DEF TodoIsOwn
  <2>1. i \in IDs
    BY <1>1 DEF Call
  <2> QED BY <1>1, <2>1
<1>6. DownIsIdle'
  BY <1>1 DEF BInv, DownIsIdle, process
<1> QED BY <1>3, <1>4, <1>5, <1>6 DEF BInv

LEMMA DeleteWorkflowBInv ==
  ASSUME BInv, NEW w \in Workflows, DeleteWorkflow(w)
  PROVE  BInv'
<1>1. /\ call' = Disturbed({w})
      /\ UNCHANGED <<rows, activeHooks, process>>
      /\ clean' \in [Workflows -> BOOLEAN]
  BY DEF DeleteWorkflow, BInv, TypeOK
<1>2. /\ status' \in [Workflows -> {"absent", "inactive", "active"}]
      /\ path' \in [Workflows -> Paths]
      /\ \A v \in Workflows : path'[v] \in PathsOf[v]
  BY AnyPathIsGiven DEF DeleteWorkflow, SetTable, BInv, TypeOK, PathsGiven
<1>3. ServedIsStored'
  BY <1>1 DEF BInv, ServedIsStored
<1>4. \A i \in IDs : rows'[i] # None =>
        /\ rows'[i].path \in PathsOf[rows'[i].workflow]
        /\ \A g \in Handlers : call[g] # None /\ i \in call[g].todo =>
             rows'[i].workflow = call[g].workflow
  BY <1>1 DEF BInv, PathsGiven, TodoIsOwn
<1> QED BY <1>1, <1>2, <1>3, <1>4, TouchBInv DEF BInv, TypeOK

LEMMA CreateWebhookBInv ==
  ASSUME BInv, Reposts = FALSE, NEW i \in IDs, NEW r \in Row,
         CreateWebhook(i, r)
  PROVE  BInv'
<1>1. /\ Fresh(i) /\ AddRow(i, r) /\ Serve(i, r)
      /\ r.path \in PathsOf[r.workflow]
      /\ call' = Disturbed({r.workflow} \cup Owner(i))
      /\ UNCHANGED <<table, process>>
      /\ clean' \in [Workflows -> BOOLEAN]
  BY DEF CreateWebhook, Touch, BInv, TypeOK
<1>2. /\ rows' \in [IDs -> Row \cup {None}]
      /\ activeHooks' \in [Paths -> Hook \cup {None}]
      /\ rows'[i] = r
      /\ \A j \in IDs : j # i => rows'[j] = rows[j]
      /\ ServedIsStored'
  BY <1>1, Added
<1>3. \A j \in IDs : rows'[j] # None =>
        /\ rows'[j].path \in PathsOf[rows'[j].workflow]
        /\ \A g \in Handlers : call[g] # None /\ j \in call[g].todo =>
             rows'[j].workflow = call[g].workflow
  BY <1>1, <1>2 DEF Fresh, BInv, PathsGiven, TodoIsOwn
<1> QED
  BY <1>1, <1>2, <1>3, TouchBInv DEF BInv, TypeOK, PathsGiven, table

LEMMA DeleteWebhookBInv ==
  ASSUME BInv, NEW i \in IDs, DeleteWebhook(i)
  PROVE  BInv'
<1>1. /\ rows[i] # None
      /\ rows' = [rows EXCEPT ![i] = None] \/ UNCHANGED rows
      /\ activeHooks' = [activeHooks EXCEPT ![rows[i].path] = None]
      /\ call' = Disturbed(Owner(i))
      /\ UNCHANGED <<table, process>>
      /\ clean' \in [Workflows -> BOOLEAN]
  BY DEF DeleteWebhook, Remove, RowKept, Touch, BInv, TypeOK
<1>2. /\ rows' \in [IDs -> Row \cup {None}]
      /\ activeHooks' \in [Paths -> Hook \cup {None}]
      /\ \A j \in IDs : rows'[j] \in {rows[j], None}
      /\ ServedIsStored'
  BY <1>1, Removed
<1>3. \A j \in IDs : rows'[j] # None =>
        /\ rows'[j].path \in PathsOf[rows'[j].workflow]
        /\ \A g \in Handlers : call[g] # None /\ j \in call[g].todo =>
             rows'[j].workflow = call[g].workflow
  BY <1>2 DEF BInv, PathsGiven, TodoIsOwn
<1> QED
  BY <1>1, <1>2, <1>3, TouchBInv DEF BInv, TypeOK, PathsGiven, table

LEMMA CrashBInv ==
  ASSUME BInv, Crash
  PROVE  BInv'
<1>1. TypeOK'
  BY DEF Crash, BInv, TypeOK, table
<1>2. PathsGiven' /\ TodoIsOwn' /\ DownIsIdle' /\ ServedIsStored'
  BY DEF Crash, BInv, TypeOK, PathsGiven, TodoIsOwn, DownIsIdle,
         ServedIsStored, table
<1> QED BY <1>1, <1>2 DEF BInv

\* What the next start loads.
LEMMA Loaded ==
  ASSUME BInv, Restart
  PROVE  \E loaded \in SUBSET {i \in IDs : Loadable(i)} :
           /\ \A p \in Paths :
                \/ /\ activeHooks'[p] = None
                   /\ \A i \in loaded : rows[i].path # p
                \/ \E i \in loaded :
                     /\ rows[i].path = p
                     /\ activeHooks'[p] =
                          [id |-> i, workflow |-> rows[i].workflow]
           /\ activeHooks' \in [Paths -> Hook \cup {None}]
           /\ clean' = [w \in Workflows |-> clean[w] /\
                          Stored(w) \cap {i \in IDs : Loadable(i)} \subseteq loaded]
<1> DEFINE all == {i \in IDs : Loadable(i)}
           on(loaded, p) == {i \in loaded : rows[i].path = p}
<1>1. PICK loaded \in SUBSET all :
        /\ \E last \in [Paths -> IDs] :
             /\ \A p \in Paths : on(loaded, p) # {} => last[p] \in on(loaded, p)
             /\ activeHooks' =
                  [p \in Paths |->
                     IF on(loaded, p) = {} THEN None
                     ELSE [id |-> last[p], workflow |-> rows[last[p]].workflow]]
        /\ clean' = [w \in Workflows |->
                       clean[w] /\ Stored(w) \cap all \subseteq loaded]
  BY DEF Restart
<1>2. PICK last \in [Paths -> IDs] :
        /\ \A p \in Paths : on(loaded, p) # {} => last[p] \in on(loaded, p)
        /\ activeHooks' =
             [p \in Paths |->
                IF on(loaded, p) = {} THEN None
                ELSE [id |-> last[p], workflow |-> rows[last[p]].workflow]]
  BY <1>1
<1>3. ASSUME NEW p \in Paths
      PROVE  \/ /\ activeHooks'[p] = None
                /\ \A i \in loaded : rows[i].path # p
             \/ \E i \in loaded :
                  /\ rows[i].path = p
                  /\ activeHooks'[p] = [id |-> i, workflow |-> rows[i].workflow]
  <2>1. CASE on(loaded, p) = {}
    BY <1>2, <2>1
  <2>2. CASE on(loaded, p) # {}
    BY <1>2, <2>2
  <2> QED BY <2>1, <2>2
<1>4. ASSUME NEW i \in loaded
      PROVE  [id |-> i, workflow |-> rows[i].workflow] \in Hook
  <2>1. i \in IDs /\ rows[i] \in Row
    BY DEF Loadable, BInv, TypeOK
  <2>2. rows[i].workflow \in Workflows
    BY <2>1 DEF Row
  <2> QED BY <2>1, <2>2 DEF Hook
<1>5. activeHooks' \in [Paths -> Hook \cup {None}]
  <2>1. ASSUME NEW p \in Paths PROVE activeHooks'[p] \in Hook \cup {None}
    <3>1. CASE activeHooks'[p] = None
      BY <3>1
    <3>2. CASE activeHooks'[p] # None
      <4>1. PICK i \in loaded :
              activeHooks'[p] = [id |-> i, workflow |-> rows[i].workflow]
        BY <1>3, <3>2
      <4> QED BY <1>4, <4>1
    <3> QED BY <3>1, <3>2
  <2> QED BY <1>2, <2>1
<1> QED BY <1>1, <1>3, <1>5

LEMMA RestartBInv ==
  ASSUME BInv, Restart
  PROVE  BInv'
<1>1. PICK loaded \in SUBSET {i \in IDs : Loadable(i)} :
           /\ \A p \in Paths :
                \/ /\ activeHooks'[p] = None
                   /\ \A i \in loaded : rows[i].path # p
                \/ \E i \in loaded :
                     /\ rows[i].path = p
                     /\ activeHooks'[p] =
                          [id |-> i, workflow |-> rows[i].workflow]
           /\ activeHooks' \in [Paths -> Hook \cup {None}]
           /\ clean' = [w \in Workflows |-> clean[w] /\
                          Stored(w) \cap {i \in IDs : Loadable(i)} \subseteq loaded]
  BY Loaded
<1>2. UNCHANGED <<table, rows, call>> /\ up'
  BY DEF Restart
<1>3. TypeOK'
  <2>1. restarts' \in 0..MaxRestarts /\ up' \in BOOLEAN
    BY RegistryAssumption DEF Restart, BInv, TypeOK, DownIsIdle
  <2>2. clean' \in [Workflows -> BOOLEAN]
    BY <1>1
  <2> QED BY <1>1, <1>2, <2>1, <2>2 DEF BInv, TypeOK, table
<1>4. PathsGiven' /\ TodoIsOwn' /\ DownIsIdle'
  BY <1>2 DEF BInv, PathsGiven, TodoIsOwn, DownIsIdle, table
<1>5. ASSUME NEW p \in Paths, activeHooks'[p] # None
      PROVE  rows'[activeHooks'[p].id] =
               [workflow |-> activeHooks'[p].workflow, path |-> p,
                active |-> TRUE]
  <2>1. PICK i \in loaded :
          /\ rows[i].path = p
          /\ activeHooks'[p] = [id |-> i, workflow |-> rows[i].workflow]
    BY <1>1, <1>5
  <2>2. rows[i] \in Row /\ rows[i].active
    BY DEF Loadable, BInv, TypeOK
  <2>3. rows[i] = [workflow |-> rows[i].workflow, path |-> p, active |-> TRUE]
    BY <2>1, <2>2 DEF Row
  <2> QED BY <1>2, <2>1, <2>3
<1>6. ServedIsStored'
  BY <1>5 DEF ServedIsStored
<1> QED BY <1>3, <1>4, <1>6 DEF BInv

LEMMA NextBInv ==
  ASSUME BInv, Reposts = FALSE, [Next]_vars
  PROVE  BInv'
<1>1. ASSUME NEW h \in Handlers, NEW w \in Workflows,
             ActivateWorkflow(h, w) \/ DeactivateWorkflow(h, w)
      PROVE  BInv'
  <2>1. path[w] \in PathsOf[w]
    BY DEF BInv, PathsGiven
  <2>2. CASE ActivateWorkflow(h, w)
    BY <2>1, <2>2, BeginBInv DEF ActivateWorkflow
  <2>3. CASE DeactivateWorkflow(h, w)
    BY <2>1, <2>3, BeginBInv DEF DeactivateWorkflow
  <2> QED BY <1>1, <2>2, <2>3
<1>2. ASSUME NEW h \in Handlers, NEW w \in Workflows,
             NEW p \in PathsOf[w], NEW active \in BOOLEAN,
             CreateWorkflow(h, w, p, active) \/ UpdateWorkflow(h, w, p, active)
      PROVE  BInv'
  <2>1. StatusOf(active) \in {"absent", "inactive", "active"}
    BY DEF StatusOf
  <2>2. CASE CreateWorkflow(h, w, p, active)
    <3> DEFINE absent == status[w] = "absent"
    <3>1. absent \in BOOLEAN
      OBVIOUS
    <3>2. \E at \in {"get", "list", "register", "respond"} :
            Begin(h, w, at, p, active, absent)
      BY <2>2 DEF CreateWorkflow
    <3> HIDE DEF absent
    <3> QED BY <2>1, <2>2, <3>1, <3>2, BeginBInv DEF CreateWorkflow
  <2>3. CASE UpdateWorkflow(h, w, p, active)
    BY <2>1, <2>3, BeginBInv DEF UpdateWorkflow
  <2> QED BY <1>2, <2>2, <2>3
<1>3. CASE UNCHANGED vars
  BY <1>3 DEF BInv, vars, table, process, TypeOK, PathsGiven, TodoIsOwn,
              DownIsIdle, ServedIsStored
<1>4. CASE \E h \in Handlers : HandlerStep(h)
  <2> PICK h \in Handlers : HandlerStep(h)
    BY <1>4
  <2> QED
    BY <1>1, <1>2, GetBInv, RegisterBInv, RegisterFailsBInv, ListBInv,
       UnregisterBInv, RespondBInv DEF HandlerStep
<1>5. CASE \/ \E w \in Workflows : DeleteWorkflow(w)
           \/ \E i \in IDs : DeleteWebhook(i) \/ \E r \in Row : CreateWebhook(i, r)
           \/ Crash \/ Restart
  BY <1>5, DeleteWorkflowBInv, DeleteWebhookBInv, CreateWebhookBInv,
     CrashBInv, RestartBInv
<1> QED BY <1>3, <1>4, <1>5 DEF Next

\* Unless clients post a webhook under an id in use, every webhook that is
\* served is stored under its path and active (manager.go:75-83, 104-112), for
\* any number of handlers and whatever fails in between.
THEOREM ServedStaysStored ==
  ASSUME Reposts = FALSE
  PROVE  Spec => [](TypeOK /\ ServedIsStored)
<1>1. Init => BInv
  BY InitIInv DEF IInv
<1>2. BInv /\ [Next]_vars => BInv'
  BY NextBInv
<1>3. BInv => TypeOK /\ ServedIsStored
  BY DEF BInv
<1> QED BY <1>1, <1>2, <1>3, PTL DEF Spec

----------------------------------------------------------------------------
(* The second half: each workflow in line with the table.                  *)

\* A step that does not concern w.
LEMMA Frame ==
  ASSUME BInv, NEW w \in Workflows, InLine(w),
         status'[w] = status[w], path'[w] = path[w], clean'[w] = clean[w],
         up' = up,
         \A i \in IDs : \/ rows'[i] = rows[i]
                        \/ i \notin Stored(w) /\ i \notin Stored(w)',
         activeHooks'[path[w]] = activeHooks[path[w]],
         \A g \in Handlers :
           \/ call'[g] = call[g]
           \/ /\ call[g] = None \/ call[g].workflow # w
              /\ call'[g] = None \/ call'[g].workflow # w
  PROVE  InLine(w)'
<1>1. Stored(w)' = Stored(w)
  BY DEF Stored
<1>2. Busy(w)' <=> Busy(w)
  BY DEF Busy
<1>3. Steady(w)' <=> Steady(w)
  <2>1. \A i \in Stored(w) : rows'[i] = rows[i]
    BY DEF Stored
  <2>2. \A i \in Stored(w) : Agrees(w, i)' <=> Agrees(w, i)
    BY <2>1 DEF Agrees
  <2> QED BY <1>1, <2>2 DEF Steady
<1>4. Right(w)' <=> Right(w)
  BY <1>1, <1>3 DEF Right
<1>5. ASSUME NEW h \in Handlers,
             call'[h] # None /\ call'[h].workflow = w /\ call'[h].sound
      PROVE  Alone(w, h)' /\ Progress(w, call[h])'
  <2>1. call'[h] = call[h]
    BY <1>5
  <2>2. Alone(w, h) /\ Progress(w, call[h])
    BY <1>5, <2>1 DEF InLine
  <2>3. Alone(w, h)'
    BY <2>2 DEF Alone
  <2>4. Progress(w, call[h])'
    BY <1>1, <1>3, <1>4, <2>1, <2>2 DEF Progress
  <2> QED BY <2>3, <2>4
<1> QED BY <1>2, <1>4, <1>5 DEF InLine

\* A handler of w goes on: no sound call but its own, and its progress is all
\* there is to see to.
LEMMA HandlerInLine ==
  ASSUME NEW w \in Workflows, InLine(w), NEW h \in Handlers,
         call[h] # None, call[h].workflow = w,
         call'[h] # None, call'[h].workflow = w,
         \A g \in Handlers : g # h => call'[g] = call[g],
         call'[h].sound => call[h].sound,
         call'[h].sound /\ Progress(w, call[h]) => Progress(w, call[h])'
  PROVE  InLine(w)'
<1>1. Busy(w)'
  BY DEF Busy
<1>2. ASSUME NEW g \in Handlers,
             call'[g] # None /\ call'[g].workflow = w /\ call'[g].sound
      PROVE  Alone(w, g)' /\ Progress(w, call[g])'
  <2>1. call[g] # None /\ call[g].workflow = w /\ call[g].sound
    BY <1>2
  <2>2. Alone(w, g) /\ Progress(w, call[g])
    BY <2>1 DEF InLine
  <2>3. g = h
    BY <2>2 DEF Alone
  <2>4. Alone(w, g)'
    BY <2>2, <2>3 DEF Alone
  <2> QED BY <1>2, <2>2, <2>3, <2>4
<1> QED BY <1>1, <1>2 DEF InLine

\* A change of w that runs beside handlers of w leaves no call of w sound.
LEMMA DisturbedInLine ==
  ASSUME BInv, NEW W, NEW w \in W, w \in Workflows,
         call' = Disturbed(W), ~clean'[w]
  PROVE  InLine(w)'
<1>1. \A g \in Handlers :
        ~(call'[g] # None /\ call'[g].workflow = w /\ call'[g].sound)
  BY DisturbedCalls DEF BInv
<1> QED BY <1>1 DEF InLine

LEMMA BeginInLine ==
  ASSUME BInv, NEW h \in Handlers, NEW v \in Workflows, NEW w \in Workflows,
         InLine(w),
         NEW at \in {"get", "list", "register", "respond"},
         NEW p \in PathsOf[v], NEW active \in BOOLEAN, NEW sound \in BOOLEAN,
         NEW s, Begin(h, v, at, p, active, sound), SetTable(v, s, p),
         UNCHANGED <<rows, activeHooks, process, clean>>,
         w = v /\ sound /\ ~Busy(v) /\ (clean[v] => Right(v)) =>
           Progress(v, call[h])'
  PROVE  InLine(w)'
<1>1. /\ call'[h] = NewCall(v, at, p, active, sound)
      /\ \A g \in Handlers : g # h => call'[g] = Disturbed({v})[g]
  BY BeginCalls DEF BInv
<1>2. \A g \in Handlers :
        /\ Disturbed({v})[g] = None <=> call[g] = None
        /\ call[g] # None =>
             /\ Disturbed({v})[g].workflow = call[g].workflow
             /\ call[g].workflow = v => ~Disturbed({v})[g].sound
             /\ call[g].workflow # v => Disturbed({v})[g] = call[g]
  BY DisturbedCalls DEF BInv
<1>3. call[h] = None
  BY DEF Begin
<1>4. /\ call'[h] # None
      /\ call'[h].workflow = v
      /\ call'[h].sound => sound /\ ~Busy(v)
  <2>1. p \in Paths
    BY AnyPathIsGiven
  <2>2. NewCall(v, at, p, active, sound) \in Call
    BY <2>1 DEF NewCall, Call, Busy
  <2>3. NewCall(v, at, p, active, sound).workflow = v
    BY DEF NewCall
  <2>4. NewCall(v, at, p, active, sound).sound = (sound /\ ~Busy(v))
    BY DEF NewCall
  <2> QED BY <1>1, <2>2, <2>3, <2>4, NoneAssumption
<1>5. CASE w # v
  <2>1. status'[w] = status[w] /\ path'[w] = path[w]
    BY <1>5 DEF SetTable, BInv, TypeOK
  <2>2. \A g \in Handlers :
           \/ call'[g] = call[g]
           \/ /\ call[g] = None \/ call[g].workflow # w
              /\ call'[g] = None \/ call'[g].workflow # w
    BY <1>1, <1>2, <1>3, <1>4, <1>5
  <2> QED BY <2>1, <2>2, Frame DEF process
<1>6. CASE w = v
  <2>1. Busy(w)'
    BY <1>4, <1>6 DEF Busy
  <2>2. ASSUME NEW g \in Handlers,
               call'[g] # None /\ call'[g].workflow = w /\ call'[g].sound
        PROVE  Alone(w, g)' /\ Progress(w, call[g])'
    <3>1. g = h
      BY <1>1, <1>2, <1>6, <2>2
    <3>2. sound /\ ~Busy(v) /\ (clean[v] => Right(v))
      BY <1>4, <1>6, <2>2, <3>1 DEF InLine
    <3>3. \A f \in Handlers : f # h =>
            ~(call'[f] # None /\ call'[f].workflow = w)
      BY <1>1, <1>2, <1>6, <3>2 DEF Busy
    <3> QED BY <1>6, <3>1, <3>2, <3>3 DEF Alone
  <2> QED BY <2>1, <2>2 DEF InLine
<1> QED BY <1>5, <1>6

LEMMA ActivateInLine ==
  ASSUME BInv, AllInLine, NEW h \in Handlers, NEW v \in Workflows,
         ActivateWorkflow(h, v) \/ DeactivateWorkflow(h, v)
  PROVE  AllInLine'
<1> SUFFICES ASSUME NEW w \in Workflows PROVE InLine(w)'
  BY DEF AllInLine
<1>1. InLine(w) /\ path[v] \in PathsOf[v]
  BY DEF AllInLine, BInv, PathsGiven
<1>2. CASE ActivateWorkflow(h, v)
  <2>1. /\ Begin(h, v, "get", path[v], TRUE, TRUE)
        /\ SetTable(v, "active", path[v])
        /\ UNCHANGED <<rows, activeHooks, process, clean>>
    BY <1>2 DEF ActivateWorkflow
  <2>2. call'[h] = NewCall(v, "get", path[v], TRUE, TRUE)
    BY <2>1 DEF Begin, NewCall, Disturbed
  <2>3. status'[v] = "active" /\ path'[v] = path[v]
    BY <2>1 DEF SetTable, BInv, TypeOK
  <2>4. ASSUME clean[v] => Right(v)
        PROVE  Progress(v, call[h])'
    <3>1. clean'[v] => Steady(v)'
      BY <2>1, <2>3, <2>4 DEF Right, Steady, Agrees, Stored, process
    <3> QED BY <2>2, <2>3, <3>1 DEF Progress, NewCall
  <2> QED BY <1>1, <2>1, <2>4, BeginInLine
<1>3. CASE DeactivateWorkflow(h, v)
  <2>1. /\ Begin(h, v, "list", path[v], FALSE, TRUE)
        /\ SetTable(v, "inactive", path[v])
        /\ UNCHANGED <<rows, activeHooks, process, clean>>
    BY <1>3 DEF DeactivateWorkflow
  <2>2. call'[h] = NewCall(v, "list", path[v], FALSE, TRUE)
    BY <2>1 DEF Begin, NewCall, Disturbed
  <2>3. status'[v] = "inactive"
    BY <2>1 DEF SetTable, BInv, TypeOK
  <2>4. Progress(v, call[h])'
    BY <2>2, <2>3 DEF Progress, NewCall, StatusOf
  <2> QED BY <1>1, <2>1, <2>4, BeginInLine
<1> QED BY <1>2, <1>3

LEMMA WriteInLine ==
  ASSUME BInv, AllInLine, NEW h \in Handlers, NEW v \in Workflows,
         NEW p \in PathsOf[v], NEW active \in BOOLEAN,
         CreateWorkflow(h, v, p, active) \/ UpdateWorkflow(h, v, p, active)
  PROVE  AllInLine'
<1> SUFFICES ASSUME NEW w \in Workflows PROVE InLine(w)'
  BY DEF AllInLine
<1>1. InLine(w)
  BY DEF AllInLine
<1>2. CASE CreateWorkflow(h, v, p, active)
  <2> DEFINE at == IF active THEN "register" ELSE "respond"
             absent == status[v] = "absent"
  <2>1. /\ Begin(h, v, at, p, active, absent)
        /\ SetTable(v, StatusOf(active), p)
        /\ UNCHANGED <<rows, activeHooks, process, clean>>
    BY <1>2 DEF CreateWorkflow
  <2>2. /\ at \in {"get", "list", "register", "respond"}
        /\ at = "register" <=> active
        /\ at = "respond" <=> ~active
        /\ absent \in BOOLEAN
    OBVIOUS
  <2>3. absent => status[v] = "absent"
    OBVIOUS
  <2> HIDE DEF at, absent
  <2>4. call'[h] = NewCall(v, at, p, active, absent)
    BY <2>1 DEF Begin, NewCall, Disturbed
  <2>5. status'[v] = StatusOf(active) /\ path'[v] = p
    BY <2>1 DEF SetTable, BInv, TypeOK
  <2>6. ASSUME absent, clean[v] => Right(v)
        PROVE  Progress(v, call[h])'
    <3>1. clean'[v] => Stored(v)' = {}
      BY <2>1, <2>3, <2>6 DEF Right, Stored
    <3>2. clean'[v] => Steady(v)'
      BY <3>1 DEF Steady
    <3>3. clean'[v] /\ ~active => Right(v)'
      BY <2>5, <3>1, <3>2 DEF Right, StatusOf
    <3> QED BY <2>2, <2>4, <2>5, <3>2, <3>3 DEF Progress, NewCall, StatusOf
  <2> QED BY <1>1, <2>1, <2>2, <2>6, BeginInLine
<1>3. CASE UpdateWorkflow(h, v, p, active)
  <2>1. /\ Begin(h, v, "list", p, active, TRUE)
        /\ SetTable(v, StatusOf(active), p)
        /\ UNCHANGED <<rows, activeHooks, process, clean>>
    BY <1>3 DEF UpdateWorkflow
  <2>2. call'[h] = NewCall(v, "list", p, active, TRUE)
    BY <2>1 DEF Begin, NewCall, Disturbed
  <2>3. status'[v] = StatusOf(active) /\ path'[v] = p
    BY <2>1 DEF SetTable, BInv, TypeOK
  <2>4. Progress(v, call[h])'
    BY <2>2, <2>3 DEF Progress, NewCall
  <2> QED BY <1>1, <2>1, <2>4, BeginInLine
<1> QED BY <1>2, <1>3

LEMMA DeleteWorkflowInLine ==
  ASSUME BInv, AllInLine, NEW v \in Workflows, DeleteWorkflow(v)
  PROVE  AllInLine'
<1> SUFFICES ASSUME NEW w \in Workflows PROVE InLine(w)'
  BY DEF AllInLine
<1>1. InLine(w)
  BY DEF AllInLine
<1>2. CASE w = v
  BY <1>2, DisturbedInLine DEF DeleteWorkflow, BInv, TypeOK
<1>3. CASE w # v
  <2>1. \A g \in Handlers :
           \/ call'[g] = call[g]
           \/ /\ call[g] = None \/ call[g].workflow # w
              /\ call'[g] = None \/ call'[g].workflow # w
    BY <1>3, DisturbedCalls DEF DeleteWorkflow, BInv
  <2>2. status'[w] = status[w] /\ path'[w] = path[w] /\ clean'[w] = clean[w]
    BY <1>3 DEF DeleteWorkflow, SetTable, BInv, TypeOK
  <2>3. UNCHANGED <<rows, activeHooks, process>>
    BY DEF DeleteWorkflow
  <2> QED BY <1>1, <2>1, <2>2, <2>3, Frame DEF process
<1> QED BY <1>2, <1>3

LEMMA GetInLine ==
  ASSUME BInv, AllInLine, NEW h \in Handlers,
         GetWorkflow(h) \/ GetWorkflowFails(h)
  PROVE  AllInLine'
<1> SUFFICES ASSUME NEW w \in Workflows PROVE InLine(w)'
  BY DEF AllInLine
<1>1. /\ InLine(w)
      /\ call[h] # None /\ call[h] \in Call /\ call[h].at = "get"
      /\ UNCHANGED <<table, rows, activeHooks, process, clean>>
  BY DEF AllInLine, GetWorkflow, GetWorkflowFails, At, BInv, TypeOK
<1> PICK v \in Workflows : v = call[h].workflow
  BY <1>1 DEF Call
<1>2. /\ call'[h] \in Call
      /\ call'[h].workflow = v
      /\ \A g \in Handlers : g # h => call'[g] = call[g]
      /\ call'[h].sound => GetWorkflow(h) /\ call[h].sound
      /\ GetWorkflow(h) /\ status[v] = "active" =>
           /\ call'[h].at = "register"
           /\ call'[h].path = path[v]
           /\ call'[h].active
           /\ call'[h].clears = call[h].clears
  <2>1. CASE GetWorkflow(h)
    <3>1. CASE status[v] = "absent"
      BY <1>1, <2>1, <3>1 DEF GetWorkflow, Goto, BInv, TypeOK, Call
    <3>2. CASE status[v] # "absent"
      <4>1. path[v] \in Paths
        BY DEF BInv, TypeOK
      <4> QED BY <1>1, <2>1, <3>2, <4>1 DEF GetWorkflow, BInv, TypeOK, Call
    <3> QED BY <3>1, <3>2
  <2>2. CASE GetWorkflowFails(h) /\ ~GetWorkflow(h)
    BY <1>1, <2>2 DEF GetWorkflowFails, Faulted, BInv, TypeOK, Call
  <2> QED BY <2>1, <2>2
<1>3. call'[h] # None
  BY <1>2, NoneAssumption
<1>4. CASE w # v
  <2>1. \A g \in Handlers :
           \/ call'[g] = call[g]
           \/ /\ call[g] = None \/ call[g].workflow # w
              /\ call'[g] = None \/ call'[g].workflow # w
    BY <1>1, <1>2, <1>4
  <2> QED BY <1>1, <2>1, Frame DEF table, process
<1>5. CASE w = v
  <2>1. ASSUME call'[h].sound, Progress(v, call[h])
        PROVE  Progress(v, call[h])'
    <3>1. GetWorkflow(h) /\ status[v] = "active" /\ ~call[h].clears
          /\ (clean[v] => Steady(v))
      BY <1>1, <1>2, <2>1 DEF Progress
    <3>2. (clean[v] => Steady(v))'
      BY <1>1, <3>1 DEF Steady, Agrees, Stored, table, process
    <3> QED BY <1>1, <1>2, <3>1, <3>2 DEF Progress, table
  <2> QED BY <1>1, <1>2, <1>3, <1>5, <2>1, HandlerInLine
<1> QED BY <1>4, <1>5

LEMMA RegisterInLine ==
  ASSUME OwnPathsOnly, BInv, AllInLine, NEW h \in Handlers, NEW i \in IDs,
         Register(h, i)
  PROVE  AllInLine'
<1> SUFFICES ASSUME NEW w \in Workflows PROVE InLine(w)'
  BY DEF AllInLine
<1> DEFINE r == WebhookOf(call[h])
<1>1. /\ call[h] # None /\ call[h] \in Call /\ call[h].at = "register"
      /\ Fresh(i) /\ AddRow(i, r) /\ Serve(i, r)
      /\ call' = [call EXCEPT ![h].at = "respond"]
      /\ UNCHANGED <<table, process, clean>>
      /\ InLine(w)
      /\ call[h].path \in PathsOf[call[h].workflow]
  BY DEF Register, At, Goto, BInv, TypeOK, AllInLine, PathsGiven
<1>2. /\ r \in Row /\ r.workflow = call[h].workflow /\ r.path = call[h].path
      /\ r.active = call[h].active
  BY <1>1 DEF WebhookOf, Row, Call
<1> HIDE DEF r
<1>3. /\ rows'[i] = r /\ r # None /\ rows[i] = None
      /\ \A j \in IDs : j # i => rows'[j] = rows[j]
      /\ \A p \in Paths : (~r.active \/ p # r.path) =>
           activeHooks'[p] = activeHooks[p]
      /\ r.active => activeHooks'[r.path] = [id |-> i, workflow |-> r.workflow]
      /\ activeHooks' \in [Paths -> Hook \cup {None}]
  BY <1>1, <1>2, Added DEF Fresh
<1>4. /\ call'[h] \in Call
      /\ call'[h].workflow = call[h].workflow
      /\ call'[h].at = "respond"
      /\ call'[h].clears = call[h].clears
      /\ call'[h].sound = call[h].sound
      /\ \A g \in Handlers : g # h => call'[g] = call[g]
  BY <1>1 DEF BInv, TypeOK, Call
<1>5. call'[h] # None
  BY <1>4, NoneAssumption
<1>6. CASE w # call[h].workflow
  <2>1. \A g \in Handlers :
           \/ call'[g] = call[g]
           \/ /\ call[g] = None \/ call[g].workflow # w
              /\ call'[g] = None \/ call'[g].workflow # w
    BY <1>4, <1>6
  <2>2. activeHooks'[path[w]] = activeHooks[path[w]]
    <3>1. path[w] \in PathsOf[w] /\ path[w] \in Paths
      BY DEF BInv, TypeOK, PathsGiven
    <3>2. path[w] # r.path
      BY <1>1, <1>2, <1>6, <3>1 DEF OwnPathsOnly, Call
    <3> QED BY <1>3, <3>1, <3>2
  <2>3. \A j \in IDs : \/ rows'[j] = rows[j]
                       \/ j \notin Stored(w) /\ j \notin Stored(w)'
    BY <1>2, <1>3, <1>6 DEF Stored
  <2> QED BY <1>1, <2>1, <2>2, <2>3, Frame DEF table, process
<1>7. CASE w = call[h].workflow
  <2>1. ASSUME call'[h].sound, Progress(w, call[h])
        PROVE  Progress(w, call[h])'
    <3>1. /\ call[h].active /\ status[w] = "active" /\ path[w] = call[h].path
          /\ call[h].clears => Stored(w) = {}
          /\ clean[w] => Steady(w)
      BY <1>1, <2>1 DEF Progress
    <3>2. ASSUME call[h].clears \/ clean[w]
          PROVE  Right(w)'
      <4>1. Stored(w)' = Stored(w) \cup {i}
        BY <1>2, <1>3, <1>7 DEF Stored
      <4>2. activeHooks'[path[w]] # None /\ activeHooks'[path[w]].workflow = w
        <5>1. path[w] \in Paths
          BY DEF BInv, TypeOK
        <5>2. activeHooks'[path[w]] = [id |-> i, workflow |-> w]
          BY <1>2, <1>3, <1>7, <3>1
        <5>3. activeHooks'[path[w]] \in Hook
          BY <5>2, <1>7 DEF Hook
        <5> QED BY <5>2, <5>3, NoneAssumption
      <4>3. Agrees(w, i)'
        BY <1>1, <1>2, <1>3, <3>1, <4>2 DEF Agrees, table
      <4>4. ASSUME NEW j \in Stored(w) PROVE Agrees(w, j)'
        <5>1. Agrees(w, j) /\ j \in IDs /\ j # i
          BY <1>3, <3>1, <3>2, <4>4 DEF Steady, Stored
        <5>2. rows'[j] = rows[j]
          BY <1>3, <5>1
        <5> QED BY <1>1, <4>2, <5>1, <5>2 DEF Agrees, table
      <4> QED BY <1>1, <3>1, <4>1, <4>3, <4>4 DEF Right, Steady, table
    <3> QED BY <1>1, <1>4, <3>2 DEF Progress
  <2> QED BY <1>1, <1>4, <1>5, <1>7, <2>1, HandlerInLine
<1> QED BY <1>6, <1>7

\* A call that a fault has met makes no promise.
LEMMA RegisterFailsInLine ==
  ASSUME BInv, AllInLine, NEW h \in Handlers, RegisterFails(h)
  PROVE  AllInLine'
<1> SUFFICES ASSUME NEW w \in Workflows PROVE InLine(w)'
  BY DEF AllInLine
<1>1. /\ call[h] # None /\ call[h] \in Call
      /\ call' = [call EXCEPT ![h].at = "respond", ![h].sound = FALSE]
      /\ UNCHANGED <<table, rows, activeHooks, process, clean>>
      /\ InLine(w)
  BY DEF RegisterFails, Faulted, At, BInv, TypeOK, AllInLine
<1>2. /\ call'[h] \in Call
      /\ call'[h].workflow = call[h].workflow
      /\ ~call'[h].sound
      /\ \A g \in Handlers : g # h => call'[g] = call[g]
  BY <1>1 DEF BInv, TypeOK, Call
<1>3. call'[h] # None
  BY <1>2, NoneAssumption
<1>4. CASE w # call[h].workflow
  <2>1. \A g \in Handlers :
           \/ call'[g] = call[g]
           \/ /\ call[g] = None \/ call[g].workflow # w
              /\ call'[g] = None \/ call'[g].workflow # w
    BY <1>2, <1>4
  <2> QED BY <1>1, <2>1, Frame DEF table, process
<1>5. CASE w = call[h].workflow
  BY <1>1, <1>2, <1>3, <1>5, HandlerInLine
<1> QED BY <1>4, <1>5

LEMMA ListInLine ==
  ASSUME BInv, AllInLine, NEW h \in Handlers, List(h)
  PROVE  AllInLine'
<1> SUFFICES ASSUME NEW w \in Workflows PROVE InLine(w)'
  BY DEF AllInLine
<1>1. /\ call[h] # None /\ call[h] \in Call /\ call[h].at = "list"
      /\ UNCHANGED <<table, rows, activeHooks, process, clean>>
      /\ InLine(w)
  BY DEF List, At, BInv, TypeOK, AllInLine
<1>2. PICK v \in Workflows : v = call[h].workflow
  BY <1>1 DEF Call
<1>3. PICK seen \in SUBSET Stored(v) :
        call' = [call EXCEPT ![h].at = Then(call[h], seen), ![h].todo = seen,
                             ![h].clears = seen = Stored(v),
                             ![h].sound = @ /\ seen = Stored(v)]
  BY <1>2 DEF List
<1> DEFINE all == seen = Stored(v)
<1>4. all \in BOOLEAN /\ (all <=> seen = Stored(v))
  OBVIOUS
<1>5. /\ call'[h] = [at |-> Then(call[h], seen), workflow |-> v,
                     path |-> call[h].path, active |-> call[h].active,
                     todo |-> seen, clears |-> all,
                     sound |-> call[h].sound /\ all]
      /\ \A g \in Handlers : g # h => call'[g] = call[g]
  <2>1. call'[h] = [call[h] EXCEPT !.at = Then(call[h], seen), !.todo = seen,
                       !.clears = seen = Stored(v),
                       !.sound = call[h].sound /\ seen = Stored(v)]
    BY <1>3 DEF BInv, TypeOK
  <2>2. \A g \in Handlers : g # h => call'[g] = call[g]
    BY <1>3 DEF BInv, TypeOK
  <2> QED BY <1>1, <1>2, <2>1, <2>2 DEF Call
<1> HIDE DEF all
<1>6. /\ call'[h].workflow = v /\ call'[h].at = Then(call[h], seen)
      /\ call'[h].todo = seen
      /\ call'[h].path = call[h].path /\ call'[h].active = call[h].active
  BY <1>5
<1>7. call'[h].clears = all /\ (call'[h].sound => call[h].sound /\ all)
  <2>1. call'[h].sound = (call[h].sound /\ all)
    BY <1>5
  <2>2. call'[h].clears = all
    BY <1>5
  <2> QED BY <2>1, <2>2
<1>8. call'[h] # None
  <2>1. seen \subseteq IDs /\ Then(call[h], seen)
          \in {"unregister", "register", "respond"}
    BY ThenTyped DEF Stored
  <2>2. call'[h] \in Call
    BY <1>1, <1>4, <1>5, <2>1 DEF Call
  <2> QED BY <2>2, NoneAssumption
<1>9. CASE w # v
  <2>1. \A g \in Handlers :
           \/ call'[g] = call[g]
           \/ /\ call[g] = None \/ call[g].workflow # w
              /\ call'[g] = None \/ call'[g].workflow # w
    BY <1>2, <1>5, <1>6, <1>9
  <2> QED BY <1>1, <2>1, Frame DEF table, process
<1>10. CASE w = v
  <2>1. ASSUME call'[h].sound, Progress(w, call[h])
        PROVE  Progress(w, call[h])'
    <3>1. seen = Stored(w) /\ Stored(w)' = seen /\ call'[h].clears
      BY <1>1, <1>4, <1>7, <1>10, <2>1 DEF Stored
    <3>2. /\ status'[w] = StatusOf(call'[h].active)
          /\ call'[h].active => path'[w] = call'[h].path
      BY <1>1, <1>6, <2>1 DEF Progress, table
    <3>3. CASE seen # {}
      <4>1. call'[h].at = "unregister"
        BY <1>6, <3>3 DEF Then
      <4> QED BY <1>6, <3>1, <3>2, <3>3, <4>1 DEF Progress
    <3>4. CASE seen = {} /\ call[h].active
      <4>1. call'[h].at = "register"
        BY <1>6, <3>4 DEF Then
      <4> QED BY <1>6, <3>1, <3>2, <3>4, <4>1 DEF Progress, Steady, StatusOf
    <3>5. CASE seen = {} /\ ~call[h].active
      <4>1. call'[h].at = "respond"
        BY <1>6, <3>5 DEF Then
      <4> QED
        BY <1>6, <3>1, <3>2, <3>5, <4>1 DEF Progress, Right, Steady, StatusOf
    <3> QED BY <3>3, <3>4, <3>5
  <2> QED BY <1>1, <1>2, <1>5, <1>6, <1>7, <1>8, <1>10, <2>1, HandlerInLine
<1> QED BY <1>9, <1>10

\* What goes with a row of another workflow does not concern w.
LEMMA RemovedElsewhere ==
  ASSUME OwnPathsOnly, BInv, NEW w \in Workflows, NEW i \in IDs,
         rows[i] # None, rows[i].workflow # w,
         activeHooks' = [activeHooks EXCEPT ![rows[i].path] = None],
         rows' = [rows EXCEPT ![i] = None] \/ UNCHANGED rows
  PROVE  /\ activeHooks'[path[w]] = activeHooks[path[w]]
         /\ \A j \in IDs : \/ rows'[j] = rows[j]
                           \/ j \notin Stored(w) /\ j \notin Stored(w)'
<1>1. /\ path[w] \in PathsOf[w] /\ path[w] \in Paths
      /\ rows[i].path \in PathsOf[rows[i].workflow]
      /\ rows[i].workflow \in Workflows
  BY DEF BInv, TypeOK, PathsGiven, Row
<1>2. path[w] # rows[i].path
  BY <1>1 DEF OwnPathsOnly
<1>3. \A j \in IDs : j # i => rows'[j] = rows[j]
  BY Removed
<1>4. rows'[i] \in {rows[i], None}
  BY Removed
<1> QED BY <1>1, <1>2, <1>3, <1>4, Removed DEF Stored

LEMMA UnregisterInLine ==
  ASSUME OwnPathsOnly, BInv, AllInLine, NEW h \in Handlers, NEW i \in IDs,
         Unregister(h, i) \/ UnregisterFails(h, i)
  PROVE  AllInLine'
<1> SUFFICES ASSUME NEW w \in Workflows PROVE InLine(w)'
  BY DEF AllInLine
<1>1. /\ call[h] # None /\ call[h] \in Call /\ call[h].at = "unregister"
      /\ i \in call[h].todo
      /\ UNCHANGED <<table, process, clean>>
      /\ InLine(w)
  BY DEF Unregister, UnregisterFails, At, BInv, TypeOK, AllInLine
<1>2. PICK v \in Workflows : v = call[h].workflow
  BY <1>1 DEF Call
<1> DEFINE left == call[h].todo \ {i}
<1>3. left \subseteq IDs
      /\ Then(call[h], left) \in {"unregister", "register", "respond"}
  BY <1>1, ThenTyped DEF Call
<1>4. /\ call'[h] \in Call
      /\ call'[h].workflow = v
      /\ call'[h].at = Then(call[h], left)
      /\ call'[h].todo = left
      /\ call'[h].path = call[h].path
      /\ call'[h].active = call[h].active
      /\ call'[h].clears = call[h].clears
      /\ call'[h].sound => Unregister(h, i) /\ call[h].sound
      /\ \A g \in Handlers : g # h => call'[g] = call[g]
  <2>1. CASE Unregister(h, i)
    BY <1>1, <1>2, <1>3, <2>1 DEF Unregister, Done, BInv, TypeOK, Call
  <2>2. CASE UnregisterFails(h, i) /\ ~Unregister(h, i)
    BY <1>1, <1>2, <1>3, <2>2 DEF UnregisterFails, Done, BInv, TypeOK, Call
  <2> QED BY <2>1, <2>2
<1>5. call'[h] # None
  BY <1>4, NoneAssumption
<1>6. CASE w # v
  <2>1. \A g \in Handlers :
           \/ call'[g] = call[g]
           \/ /\ call[g] = None \/ call[g].workflow # w
              /\ call'[g] = None \/ call'[g].workflow # w
    BY <1>2, <1>4, <1>6
  <2>2. /\ activeHooks'[path[w]] = activeHooks[path[w]]
        /\ \A j \in IDs : \/ rows'[j] = rows[j]
                          \/ j \notin Stored(w) /\ j \notin Stored(w)'
    <3>1. CASE UNCHANGED <<rows, activeHooks>>
      BY <3>1
    <3>2. CASE /\ rows[i] # None
               /\ activeHooks' = [activeHooks EXCEPT ![rows[i].path] = None]
               /\ rows' = [rows EXCEPT ![i] = None] \/ UNCHANGED rows
      <4>1. rows[i].workflow # w
        BY <1>1, <1>2, <1>6, <3>2 DEF BInv, TodoIsOwn
      <4> QED BY <3>2, <4>1, RemovedElsewhere
    <3> QED BY <3>1, <3>2 DEF Unregister, UnregisterFails, Remove, RowKept
  <2> QED BY <1>1, <2>1, <2>2, Frame DEF table, process
<1>7. CASE w = v
  <2>1. ASSUME call'[h].sound, Progress(w, call[h])
        PROVE  Progress(w, call[h])'
    <3>1. /\ Unregister(h, i)
          /\ Stored(w) = call[h].todo
          /\ call'[h].clears
      BY <1>1, <1>4, <2>1 DEF Progress
    <3>2. Stored(w)' = left
      <4>1. rows[i] # None
        BY <1>1, <3>1 DEF Stored
      <4>2. rows' = [rows EXCEPT ![i] = None]
        BY <3>1, <4>1 DEF Unregister, Remove
      <4>3. \A j \in IDs : rows'[j] = IF j = i THEN None ELSE rows[j]
        BY <4>2 DEF BInv, TypeOK
      <4> QED BY <3>1, <4>3 DEF Stored
    <3>3. /\ status'[w] = StatusOf(call'[h].active)
          /\ call'[h].active => path'[w] = call'[h].path
      BY <1>1, <1>4, <2>1 DEF Progress, table
    <3> HIDE DEF left
    <3>4. CASE left # {}
      <4>1. call'[h].at = "unregister"
        BY <1>4, <3>4 DEF Then
      <4> QED BY <1>4, <3>1, <3>2, <3>3, <3>4, <4>1 DEF Progress
    <3>5. CASE left = {} /\ call[h].active
      <4>1. call'[h].at = "register"
        BY <1>4, <3>5 DEF Then
      <4> QED BY <1>4, <3>1, <3>2, <3>3, <3>5, <4>1
              DEF Progress, Steady, StatusOf
    <3>6. CASE left = {} /\ ~call[h].active
      <4>1. call'[h].at = "respond"
        BY <1>4, <3>6 DEF Then
      <4> QED BY <1>4, <3>1, <3>2, <3>3, <3>6, <4>1
              DEF Progress, Right, Steady, StatusOf
    <3> QED BY <3>4, <3>5, <3>6
  <2> QED BY <1>1, <1>2, <1>4, <1>5, <1>7, <2>1, HandlerInLine
<1> QED BY <1>6, <1>7

LEMMA RespondInLine ==
  ASSUME BInv, AllInLine, NEW h \in Handlers, Respond(h)
  PROVE  AllInLine'
<1> SUFFICES ASSUME NEW w \in Workflows PROVE InLine(w)'
  BY DEF AllInLine
<1>1. /\ call[h] # None /\ call[h] \in Call /\ call[h].at = "respond"
      /\ UNCHANGED <<table, rows, activeHooks, process>>
      /\ InLine(w)
  BY DEF Respond, At, BInv, TypeOK, AllInLine
<1>2. PICK v \in Workflows : v = call[h].workflow
  BY <1>1 DEF Call
<1>3. /\ call'[h] = None
      /\ \A g \in Handlers : g # h => call'[g] = call[g]
      /\ \A u \in Workflows : u # v => clean'[u] = clean[u]
      /\ clean'[v] => call[h].sound /\ (clean[v] \/ call[h].clears)
  BY <1>1, <1>2 DEF Respond, BInv, TypeOK
<1>4. CASE w # v
  <2>1. \A g \in Handlers :
           \/ call'[g] = call[g]
           \/ /\ call[g] = None \/ call[g].workflow # w
              /\ call'[g] = None \/ call'[g].workflow # w
    BY <1>2, <1>3, <1>4
  <2> QED BY <1>1, <1>3, <1>4, <2>1, Frame DEF table, process
<1>5. CASE w = v
  <2>1. ASSUME clean'[w] PROVE Right(w)'
    <3>1. Progress(w, call[h])
      BY <1>1, <1>2, <1>3, <1>5, <2>1 DEF InLine
    <3>2. Right(w)
      BY <1>1, <1>3, <1>5, <2>1, <3>1 DEF Progress
    <3> QED
      BY <1>1, <3>2 DEF Right, Steady, Agrees, Stored, table, process
  <2>2. ASSUME NEW g \in Handlers
        PROVE  ~(call'[g] # None /\ call'[g].workflow = w /\ call'[g].sound)
    <3> SUFFICES ASSUME call'[g] # None, call'[g].workflow = w, call'[g].sound
                 PROVE  FALSE
      OBVIOUS
    <3>1. g # h /\ call'[g] = call[g]
      BY <1>3
    <3>2. Alone(w, g)
      BY <1>1, <3>1 DEF InLine
    <3> QED BY <1>1, <1>2, <1>5, <3>1, <3>2 DEF Alone
  <2> QED BY <2>1, <2>2 DEF InLine
<1> QED BY <1>4, <1>5

LEMMA CreateWebhookInLine ==
  ASSUME OwnPathsOnly, BInv, AllInLine, Reposts = FALSE,
         NEW i \in IDs, NEW r \in Row, CreateWebhook(i, r)
  PROVE  AllInLine'
<1> SUFFICES ASSUME NEW w \in Workflows PROVE InLine(w)'
  BY DEF AllInLine
<1>1. /\ Fresh(i) /\ AddRow(i, r) /\ Serve(i, r)
      /\ r.path \in PathsOf[r.workflow]
      /\ r.workflow \in Workflows
      /\ UNCHANGED <<table, process>>
      /\ InLine(w)
  BY DEF CreateWebhook, AllInLine, Row
<1>2. /\ call' = Disturbed({r.workflow})
      /\ clean' = [u \in Workflows |-> clean[u] /\ u \notin {r.workflow}]
  <2>1. Owner(i) = {}
    BY <1>1 DEF Owner, Fresh
  <2>2. {r.workflow} \cup Owner(i) = {r.workflow}
    BY <2>1
  <2> QED BY <2>2 DEF CreateWebhook, Touch
<1>3. /\ rows'[i] = r /\ rows[i] = None
      /\ \A j \in IDs : j # i => rows'[j] = rows[j]
      /\ \A p \in Paths : p # r.path => activeHooks'[p] = activeHooks[p]
  <2>1. rows[i] = None
    BY <1>1 DEF Fresh
  <2>2. /\ rows'[i] = r
        /\ \A j \in IDs : j # i => rows'[j] = rows[j]
        /\ \A p \in Paths : (~r.active \/ p # r.path) =>
             activeHooks'[p] = activeHooks[p]
    <3>1. AddRow(i, r) /\ Serve(i, r)
      BY <1>1
    <3>2. /\ rows \in [IDs -> Row \cup {None}]
          /\ activeHooks \in [Paths -> Hook \cup {None}]
      BY DEF BInv, TypeOK
    <3> QED BY <3>1, <3>2 DEF AddRow, Serve
  <2> QED BY <2>1, <2>2
<1>4. CASE w = r.workflow
  <2>1. ~clean'[w]
    BY <1>2, <1>4
  <2> QED BY <1>2, <1>4, <2>1, DisturbedInLine
<1>5. CASE w # r.workflow
  <2>1. \A g \in Handlers :
           \/ call'[g] = call[g]
           \/ /\ call[g] = None \/ call[g].workflow # w
              /\ call'[g] = None \/ call'[g].workflow # w
    BY <1>2, <1>5, DisturbedCalls DEF BInv
  <2>2. activeHooks'[path[w]] = activeHooks[path[w]]
    <3>1. path[w] \in PathsOf[w] /\ path[w] \in Paths
      BY DEF BInv, TypeOK, PathsGiven
    <3>2. path[w] # r.path
      BY <1>1, <1>5, <3>1 DEF OwnPathsOnly
    <3> QED BY <1>3, <3>1, <3>2
  <2>3. \A j \in IDs : \/ rows'[j] = rows[j]
                       \/ j \notin Stored(w) /\ j \notin Stored(w)'
    BY <1>3, <1>5 DEF Stored
  <2>4. clean'[w] = clean[w]
    BY <1>2, <1>5 DEF BInv, TypeOK
  <2> QED BY <1>1, <2>1, <2>2, <2>3, <2>4, Frame DEF table, process
<1> QED BY <1>4, <1>5

LEMMA DeleteWebhookInLine ==
  ASSUME OwnPathsOnly, BInv, AllInLine, NEW i \in IDs, DeleteWebhook(i)
  PROVE  AllInLine'
<1> SUFFICES ASSUME NEW w \in Workflows PROVE InLine(w)'
  BY DEF AllInLine
<1>1. /\ rows[i] # None /\ rows[i].workflow \in Workflows
      /\ rows' = [rows EXCEPT ![i] = None] \/ UNCHANGED rows
      /\ activeHooks' = [activeHooks EXCEPT ![rows[i].path] = None]
      /\ UNCHANGED <<table, process>>
      /\ InLine(w)
  BY DEF DeleteWebhook, Remove, RowKept, AllInLine, BInv, TypeOK, Row
<1>2. /\ call' = Disturbed({rows[i].workflow})
      /\ clean' = [u \in Workflows |-> clean[u] /\ u \notin {rows[i].workflow}]
  BY <1>1 DEF DeleteWebhook, Touch, Owner
<1>3. CASE w = rows[i].workflow
  <2>1. ~clean'[w]
    BY <1>2, <1>3
  <2> QED BY <1>2, <1>3, <2>1, DisturbedInLine
<1>4. CASE w # rows[i].workflow
  <2>1. \A g \in Handlers :
           \/ call'[g] = call[g]
           \/ /\ call[g] = None \/ call[g].workflow # w
              /\ call'[g] = None \/ call'[g].workflow # w
    BY <1>2, <1>4, DisturbedCalls DEF BInv
  <2>2. /\ activeHooks'[path[w]] = activeHooks[path[w]]
        /\ \A j \in IDs : \/ rows'[j] = rows[j]
                          \/ j \notin Stored(w) /\ j \notin Stored(w)'
    BY <1>1, <1>4, RemovedElsewhere
  <2>3. clean'[w] = clean[w]
    BY <1>2, <1>4 DEF BInv, TypeOK
  <2> QED BY <1>1, <2>1, <2>2, <2>3, Frame DEF table, process
<1> QED BY <1>3, <1>4

LEMMA CrashInLine ==
  ASSUME BInv, AllInLine, Crash
  PROVE  AllInLine'
<1> SUFFICES ASSUME NEW w \in Workflows PROVE InLine(w)'
  BY DEF AllInLine
<1>1. /\ ~up' /\ UNCHANGED <<table, rows>>
      /\ \A h \in Handlers : call'[h] = None
      /\ clean'[w] => clean[w] /\ ~Busy(w)
      /\ InLine(w)
  BY DEF Crash, AllInLine
<1>2. clean'[w] => Right(w)
  BY <1>1 DEF InLine
<1>3. clean'[w] => Right(w)'
  BY <1>1, <1>2 DEF Right, Steady, Agrees, Stored, table
<1> QED BY <1>1, <1>3 DEF InLine

\* What is stored of a workflow in line is loaded, and nothing else has its
\* path.
LEMMA RestartInLine ==
  ASSUME OwnPathsOnly, BInv, AllInLine, Restart
  PROVE  AllInLine'
<1> SUFFICES ASSUME NEW w \in Workflows PROVE InLine(w)'
  BY DEF AllInLine
<1>1. PICK loaded \in SUBSET {i \in IDs : Loadable(i)} :
        /\ \A p \in Paths :
             \/ /\ activeHooks'[p] = None
                /\ \A i \in loaded : rows[i].path # p
             \/ \E i \in loaded :
                  /\ rows[i].path = p
                  /\ activeHooks'[p] = [id |-> i, workflow |-> rows[i].workflow]
        /\ activeHooks' \in [Paths -> Hook \cup {None}]
        /\ clean' = [u \in Workflows |-> clean[u] /\
                       Stored(u) \cap {i \in IDs : Loadable(i)} \subseteq loaded]
  BY Loaded
<1>2. /\ UNCHANGED <<table, rows, call>>
      /\ \A h \in Handlers : call'[h] = None
      /\ ~Busy(w)
      /\ InLine(w)
  BY DEF Restart, BInv, DownIsIdle, AllInLine, Busy
<1>3. ASSUME clean'[w] PROVE Right(w)'
  <2>1. Right(w) /\ Stored(w) \cap {i \in IDs : Loadable(i)} \subseteq loaded
    BY <1>1, <1>2, <1>3 DEF InLine
  <2>2. path[w] \in PathsOf[w] /\ path[w] \in Paths
    BY DEF BInv, TypeOK, PathsGiven
  <2>3. ASSUME NEW i \in Stored(w) PROVE Agrees(w, i)'
    <3>1. i \in loaded /\ rows[i].active /\ rows[i].path = path[w]
      BY <2>1 DEF Right, Steady, Agrees, Loadable, Stored
    <3>2. PICK j \in loaded :
            /\ rows[j].path = path[w]
            /\ activeHooks'[path[w]] = [id |-> j, workflow |-> rows[j].workflow]
      BY <1>1, <2>2, <3>1
    <3>3. /\ rows[j].workflow \in Workflows
          /\ rows[j].path \in PathsOf[rows[j].workflow]
          /\ j \in IDs
      BY DEF Loadable, BInv, TypeOK, PathsGiven, Row
    <3>4. rows[j].workflow = w
      BY <2>2, <3>2, <3>3 DEF OwnPathsOnly
    <3>5. activeHooks'[path[w]] \in Hook
      BY <3>2, <3>3 DEF Hook
    <3> QED BY <1>2, <3>1, <3>2, <3>4, <3>5, NoneAssumption
            DEF Agrees, table
  <2> QED BY <1>2, <2>1, <2>3 DEF Right, Steady, Stored, table
<1> QED BY <1>2, <1>3 DEF InLine

----------------------------------------------------------------------------
LEMMA NextIInv ==
  ASSUME OwnPathsOnly, Reposts = FALSE, IInv, [Next]_vars
  PROVE  IInv'
<1> USE DEF IInv
<1>1. BInv'
  BY NextBInv
<1>2. CASE UNCHANGED vars
  <2>1. ASSUME NEW w \in Workflows PROVE InLine(w)'
    <3>1. InLine(w)
      BY DEF AllInLine
    <3> QED BY <1>2, <3>1, Frame DEF vars, table, process
  <2> QED BY <1>1, <2>1 DEF AllInLine
<1>3. CASE \E h \in Handlers : HandlerStep(h)
  <2> PICK h \in Handlers : HandlerStep(h)
    BY <1>3
  <2> QED
    BY <1>1, ActivateInLine, WriteInLine, GetInLine, RegisterInLine,
       RegisterFailsInLine, ListInLine, UnregisterInLine, RespondInLine
       DEF HandlerStep
<1>4. CASE \/ \E w \in Workflows : DeleteWorkflow(w)
           \/ \E i \in IDs : DeleteWebhook(i) \/ \E r \in Row : CreateWebhook(i, r)
           \/ Crash \/ Restart
  BY <1>1, <1>4, DeleteWorkflowInLine, DeleteWebhookInLine,
     CreateWebhookInLine, CrashInLine, RestartInLine
<1> QED BY <1>2, <1>3, <1>4 DEF Next

LEMMA InLineReconciles ==
  ASSUME IInv
  PROVE  Reconciled
<1> SUFFICES ASSUME NEW w \in Workflows, clean[w] /\ ~Busy(w)
             PROVE  /\ {rows[i].path : i \in Stored(w)} = Expected(w)
                    /\ \A i \in Stored(w) : rows[i].active
                    /\ up => ServedPaths(w) = Expected(w)
  BY DEF Reconciled
<1>1. Right(w) /\ path[w] \in Paths
  BY DEF IInv, AllInLine, InLine, BInv, TypeOK
<1>2. \A i \in Stored(w) : rows[i].active /\ rows[i].path = path[w]
  BY <1>1 DEF Right, Steady, Agrees
<1>3. {rows[i].path : i \in Stored(w)} = Expected(w)
  <2>1. CASE Stored(w) = {}
    BY <1>1, <2>1 DEF Right, Expected
  <2>2. CASE Stored(w) # {}
    BY <1>1, <1>2, <2>2 DEF Right, Expected
  <2> QED BY <2>1, <2>2
<1>4. ASSUME up PROVE ServedPaths(w) = Expected(w)
  <2>1. ASSUME NEW p \in ServedPaths(w) PROVE p \in Expected(w)
    <3>1. /\ p \in Paths /\ activeHooks[p] # None
          /\ activeHooks[p].workflow = w /\ activeHooks[p].id \in IDs
      BY DEF ServedPaths, IInv, BInv, TypeOK, Hook
    <3>2. rows[activeHooks[p].id] =
            [workflow |-> w, path |-> p, active |-> TRUE]
      BY <3>1 DEF IInv, BInv, ServedIsStored
    <3>3. rows[activeHooks[p].id] # None
      <4>1. [workflow |-> w, path |-> p, active |-> TRUE] \in Row
        BY <3>1 DEF Row
      <4> QED BY <3>2, <4>1, NoneAssumption
    <3>4. activeHooks[p].id \in Stored(w) /\ rows[activeHooks[p].id].path = p
      BY <3>1, <3>2, <3>3 DEF Stored
    <3> QED BY <1>1, <1>2, <3>4 DEF Right, Expected
  <2>2. ASSUME NEW p \in Expected(w) PROVE p \in ServedPaths(w)
    <3>1. status[w] = "active" /\ p = path[w]
      BY DEF Expected
    <3>2. PICK i \in Stored(w) : Agrees(w, i)
      BY <1>1, <3>1 DEF Right, Steady
    <3> QED BY <1>1, <1>4, <3>1, <3>2 DEF Agrees, ServedPaths
  <2> QED BY <2>1, <2>2
<1> QED BY <1>2, <1>3, <1>4

\* Where workflows have paths of their own, a change that met no fault and ran
\* alone leaves the rows and the map exactly as the table says, and so they
\* stay until the next change that is not clean (workflows.go:126-136,
\* 186-191), through restarts and whatever happens to other workflows.
THEOREM ChangesReconcile ==
  ASSUME OwnPathsOnly, Reposts = FALSE
  PROVE  Spec => []Reconciled
<1>1. Init => IInv
  BY InitIInv
<1>2. IInv /\ [Next]_vars => IInv'
  BY NextIInv
<1>3. IInv => Reconciled
  BY InLineReconciles
<1> QED BY <1>1, <1>2, <1>3, PTL DEF Spec
=============================================================================
