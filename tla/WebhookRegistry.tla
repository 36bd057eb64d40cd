-------------------------- MODULE WebhookRegistry --------------------------
(***************************************************************************)
(* The webhooks of serve: the workflows table, the raw store with a row    *)
(* per webhook (PersistentWebhookStorage), and WebhookManager.activeHooks, *)
(* the map that a request is matched against (internal/webhooks).  The     *)
(* workflow handlers of internal/api write the table and then bring rows   *)
(* and map into line, a statement or a section under m.mu at a time, each  *)
(* in a goroutine of its own.  A path stands for a key of the map: path,   *)
(* method and test flag.  A workflow has one webhook node; one with more   *)
(* registers them in the same way one after the other.                     *)
(***************************************************************************)
EXTENDS Naturals, FiniteSets

CONSTANTS
  Workflows,
  Paths,
  PathsOf,      \* the paths that users give to each workflow
  IDs,          \* bound: ids of webhooks in use at a time
  Handlers,     \* goroutines of the HTTP server
  Faults,       \* whether a statement on the raw store may fail
  Reposts,      \* whether clients post a webhook under an id in use
  MaxRestarts,  \* bound: how often the process may start again
  None          \* no row, no webhook, no call

ASSUME RegistryAssumption ==
  /\ PathsOf \in [Workflows -> (SUBSET Paths) \ {{}}]
  /\ Faults \in BOOLEAN /\ Reposts \in BOOLEAN
  /\ MaxRestarts \in Nat

VARIABLES
  status,       \* the workflows table: whether a workflow exists, is active
  path,         \*                      the path of its webhook node
  rows,         \* the rows "webhook:<id>" of the raw store
  activeHooks,  \* the map of the process
  up,
  restarts,
  call,         \* the handler of each goroutine
  clean         \* whether the last change of a workflow went through, and ran
                \* alone (history)

table == <<status, path>>
process == <<up, restarts>>
vars == <<table, rows, activeHooks, process, call, clean>>

Row == [workflow : Workflows, path : Paths, active : BOOLEAN]
Hook == [id : IDs, workflow : Workflows]

\* What a handler has in hand: the webhook it would register and the ids it
\* has yet to unregister.  clears and sound are history: it unregisters all
\* there is; no fault met it and no other change of the workflow overlapped.
Call == [at : {"get", "list", "unregister", "register", "respond"},
         workflow : Workflows, path : Paths, active : BOOLEAN,
         todo : SUBSET IDs, clears : BOOLEAN, sound : BOOLEAN]

\* None is a value of its own.
ASSUME NoneAssumption == None \notin Row \cup Hook \cup Call

TypeOK ==
  /\ status \in [Workflows -> {"absent", "inactive", "active"}]
  /\ path \in [Workflows -> Paths]
  /\ rows \in [IDs -> Row \cup {None}]
  /\ activeHooks \in [Paths -> Hook \cup {None}]
  /\ up \in BOOLEAN /\ restarts \in 0..MaxRestarts
  /\ call \in [Handlers -> Call \cup {None}]
  /\ clean \in [Workflows -> BOOLEAN]

Busy(w) == \E h \in Handlers : call[h] # None /\ call[h].workflow = w
Stored(w) == {i \in IDs : rows[i] # None /\ rows[i].workflow = w}

\* A workflow that does not exist has any path, which nobody reads.
AnyPath(w) == CHOOSE p \in PathsOf[w] : TRUE

Init ==
  /\ status = [w \in Workflows |-> "absent"]
  /\ path = [w \in Workflows |-> AnyPath(w)]
  /\ rows = [i \in IDs |-> None]
  /\ activeHooks = [p \in Paths |-> None]
  /\ up = TRUE /\ restarts = 0
  /\ call = [h \in Handlers |-> None]
  /\ clean = [w \in Workflows |-> TRUE]

----------------------------------------------------------------------------
(* The handlers of internal/api: their statement on the workflows table.   *)

Unsound(c, W) ==
  IF c # None /\ c.workflow \in W THEN [c EXCEPT !.sound = FALSE] ELSE c
Disturbed(W) == [h \in Handlers |-> Unsound(call[h], W)]

Begin(h, w, at, p, active, sound) ==
  /\ up /\ call[h] = None
  /\ call' = [Disturbed({w}) EXCEPT
                ![h] = [at |-> at, workflow |-> w, path |-> p,
                        active |-> active, todo |-> {}, clears |-> FALSE,
                        sound |-> sound /\ ~Busy(w)]]

StatusOf(active) == IF active THEN "active" ELSE "inactive"
SetTable(w, s, p) ==
  /\ status' = [status EXCEPT ![w] = s]
  /\ path' = [path EXCEPT ![w] = p]

\* INSERT OR REPLACE: an id that exists is overwritten, and what is
\* registered for it stays.
CreateWorkflow(h, w, p, active) ==
  /\ Begin(h, w, IF active THEN "register" ELSE "respond", p, active,
           status[w] = "absent")
  /\ SetTable(w, StatusOf(active), p)
  /\ UNCHANGED <<rows, activeHooks, process, clean>>

\* UpdateWorkflow inserts or replaces as well.
UpdateWorkflow(h, w, p, active) ==
  /\ Begin(h, w, "list", p, active, TRUE)
  /\ SetTable(w, StatusOf(active), p)
  /\ UNCHANGED <<rows, activeHooks, process, clean>>

ActivateWorkflow(h, w) ==
  /\ status[w] # "absent"
  /\ Begin(h, w, "get", path[w], TRUE, TRUE)
  /\ SetTable(w, "active", path[w])
  /\ UNCHANGED <<rows, activeHooks, process, clean>>

DeactivateWorkflow(h, w) ==
  /\ status[w] # "absent"
  /\ Begin(h, w, "list", path[w], FALSE, TRUE)
  /\ SetTable(w, "inactive", path[w])
  /\ UNCHANGED <<rows, activeHooks, process, clean>>

\* What is registered for a workflow stays when the workflow is deleted.
DeleteWorkflow(w) ==
  /\ up /\ status[w] # "absent"
  /\ SetTable(w, "absent", AnyPath(w))
  /\ call' = Disturbed({w})
  /\ clean' = [clean EXCEPT ![w] = FALSE]
  /\ UNCHANGED <<rows, activeHooks, process>>

----------------------------------------------------------------------------
(* WebhookManager: the rows and the map.                                   *)

At(h, at) == call[h] # None /\ call[h].at = at
Goto(h, at) == call' = [call EXCEPT ![h].at = at]
Faulted(h, at) ==
  Faults /\ call' = [call EXCEPT ![h].at = at, ![h].sound = FALSE]

\* Activate reads back what it has activated; a change may come in between.
GetWorkflow(h) ==
  LET w == call[h].workflow IN
  /\ At(h, "get")
  /\ IF status[w] = "absent" THEN Goto(h, "respond")
     ELSE call' = [call EXCEPT ![h].at = "register", ![h].path = path[w],
                               ![h].active = status[w] = "active"]
  /\ UNCHANGED <<table, rows, activeHooks, process, clean>>

GetWorkflowFails(h) ==
  /\ At(h, "get")
  /\ Faulted(h, "respond")
  /\ UNCHANGED <<table, rows, activeHooks, process, clean>>

\* Faulty form: the webhook is served even if its row could not be written.
AddRowIgnored(i, r) == rows' \in {rows, [rows EXCEPT ![i] = r]}

AddRow(i, r) == rows' = [rows EXCEPT ![i] = r]

\* RegisterWebhook, under m.mu: the row, and the map if the webhook is
\* active.  Whatever the map held under the path is replaced.
Serve(i, r) ==
  activeHooks' = IF r.active
                 THEN [activeHooks EXCEPT ![r.path] =
                         [id |-> i, workflow |-> r.workflow]]
                 ELSE activeHooks

\* generateWebhookID gives an id nobody has.
Fresh(i) ==
  /\ rows[i] = None
  /\ \A p \in Paths : activeHooks[p] # None => activeHooks[p].id # i
  /\ \A h \in Handlers : call[h] # None => i \notin call[h].todo

WebhookOf(c) ==
  [workflow |-> c.workflow, path |-> c.path, active |-> c.active]

Register(h, i) ==
  /\ At(h, "register")
  /\ Fresh(i)
  /\ AddRow(i, WebhookOf(call[h]))
  /\ Serve(i, WebhookOf(call[h]))
  /\ Goto(h, "respond")
  /\ UNCHANGED <<table, process, clean>>

RegisterFails(h) ==
  /\ At(h, "register")
  /\ Faulted(h, "respond")
  /\ UNCHANGED <<table, rows, activeHooks, process, clean>>

\* Where a call goes that has yet to unregister ids: one after the other, and
\* then an update of an active workflow registers its webhook.
Then(c, ids) ==
  IF ids # {} THEN "unregister" ELSE IF c.active THEN "register" ELSE "respond"

\* UnregisterWorkflowWebhooks lists the rows of the workflow; it skips a row
\* it cannot read, and all of them if the keys cannot be listed.
List(h) ==
  LET w == call[h].workflow IN
  /\ At(h, "list")
  /\ \E seen \in SUBSET Stored(w) :
       /\ Faults \/ seen = Stored(w)
       /\ call' = [call EXCEPT ![h].at = Then(call[h], seen), ![h].todo = seen,
                               ![h].clears = seen = Stored(w),
                               ![h].sound = @ /\ seen = Stored(w)]
  /\ UNCHANGED <<table, rows, activeHooks, process, clean>>

\* The row cannot be deleted, after the map was changed.
RowKept(i) ==
  /\ activeHooks' = [activeHooks EXCEPT ![rows[i].path] = None]
  /\ UNCHANGED rows

\* UnregisterWebhook, under m.mu: whatever the map has under the path of the
\* row is removed, and the row is deleted.
Remove(i) ==
  /\ activeHooks' = [activeHooks EXCEPT ![rows[i].path] = None]
  /\ rows' = [rows EXCEPT ![i] = None]

Done(h, i) ==
  [call EXCEPT ![h].todo = @ \ {i},
               ![h].at = Then(call[h], call[h].todo \ {i})]

\* A row that another handler has deleted meanwhile is left alone.
Unregister(h, i) ==
  /\ At(h, "unregister") /\ i \in call[h].todo
  /\ call' = Done(h, i)
  /\ IF rows[i] = None THEN UNCHANGED <<rows, activeHooks>> ELSE Remove(i)
  /\ UNCHANGED <<table, process, clean>>

\* The row cannot be read, or not be deleted.
UnregisterFails(h, i) ==
  /\ Faults
  /\ At(h, "unregister") /\ i \in call[h].todo
  /\ rows[i] # None
  /\ call' = [Done(h, i) EXCEPT ![h].sound = FALSE]
  /\ RowKept(i) \/ UNCHANGED <<rows, activeHooks>>
  /\ UNCHANGED <<table, process, clean>>

Respond(h) ==
  LET w == call[h].workflow IN
  /\ At(h, "respond")
  /\ call' = [call EXCEPT ![h] = None]
  /\ clean' = [clean EXCEPT ![w] = call[h].sound /\ (@ \/ call[h].clears)]
  /\ UNCHANGED <<table, rows, activeHooks, process>>

----------------------------------------------------------------------------
(* POST and DELETE of /api/v1/webhooks, each of them a single section.     *)

Touch(W) ==
  /\ call' = Disturbed(W)
  /\ clean' = [w \in Workflows |-> clean[w] /\ w \notin W]

Owner(i) == IF rows[i] = None THEN {} ELSE {rows[i].workflow}

CreateWebhook(i, r) ==
  /\ up
  /\ Fresh(i) \/ Reposts
  /\ r.path \in PathsOf[r.workflow]
  /\ AddRow(i, r)
  /\ Serve(i, r)
  /\ Touch({r.workflow} \cup Owner(i))
  /\ UNCHANGED <<table, process>>

DeleteWebhook(i) ==
  /\ up /\ rows[i] # None
  /\ Remove(i) \/ (Faults /\ RowKept(i))
  /\ Touch(Owner(i))
  /\ UNCHANGED <<table, process>>

----------------------------------------------------------------------------
(* The process ends, in the middle of whatever it does, and starts again.  *)

Crash ==
  /\ up /\ restarts < MaxRestarts
  /\ up' = FALSE
  /\ activeHooks' = [p \in Paths |-> None]
  /\ call' = [h \in Handlers |-> None]
  /\ clean' = [w \in Workflows |-> clean[w] /\ ~Busy(w)]
  /\ UNCHANGED <<table, rows, restarts>>

Loadable(i) == rows[i] # None /\ rows[i].active

\* LoadActiveWebhooks skips what it cannot read; of two rows with the same
\* path the one that is listed last is served.
Restart ==
  LET all == {i \in IDs : Loadable(i)} IN
  /\ ~up
  /\ up' = TRUE /\ restarts' = restarts + 1
  /\ \E loaded \in SUBSET all :
       LET on(p) == {i \in loaded : rows[i].path = p} IN
       /\ Faults \/ loaded = all
       /\ \E last \in [Paths -> IDs] :
            /\ \A p \in Paths : on(p) # {} => last[p] \in on(p)
            /\ activeHooks' =
                 [p \in Paths |->
                    IF on(p) = {} THEN None
                    ELSE [id |-> last[p], workflow |-> rows[last[p]].workflow]]
       /\ clean' = [w \in Workflows |->
                      clean[w] /\ Stored(w) \cap all \subseteq loaded]
  /\ UNCHANGED <<table, rows, call>>

----------------------------------------------------------------------------
HandlerStep(h) ==
  \/ \E w \in Workflows :
       \/ ActivateWorkflow(h, w) \/ DeactivateWorkflow(h, w)
       \/ \E p \in PathsOf[w], active \in BOOLEAN :
            CreateWorkflow(h, w, p, active) \/ UpdateWorkflow(h, w, p, active)
  \/ GetWorkflow(h) \/ GetWorkflowFails(h)
  \/ List(h) \/ RegisterFails(h) \/ Respond(h)
  \/ \E i \in IDs :
       Register(h, i) \/ Unregister(h, i) \/ UnregisterFails(h, i)

Next ==
  \/ \E h \in Handlers : HandlerStep(h)
  \/ \E w \in Workflows : DeleteWorkflow(w)
  \/ \E i \in IDs : DeleteWebhook(i) \/ \E r \in Row : CreateWebhook(i, r)
  \/ Crash \/ Restart

Spec == Init /\ [][Next]_vars

----------------------------------------------------------------------------
\* Every webhook that is served is stored, under its path and active, however
\* handlers, faults and restarts mix (manager.go:75-83, 104-112): a restart
\* never drops a webhook for good, and deleting a row ends its service.
ServedIsStored ==
  \A p \in Paths : activeHooks[p] # None =>
    rows[activeHooks[p].id] =
      [workflow |-> activeHooks[p].workflow, path |-> p, active |-> TRUE]

\* Where workflows have paths of their own, an update or a deactivation that
\* met no fault and overlapped no other change of the workflow leaves exactly
\* what the table says, in the map and in the rows that the next start loads,
\* whatever happened before and whatever other workflows do meanwhile
\* (workflows.go:126-136, 186-191); and so it stays until the next change
\* that is not clean.
Expected(w) == IF status[w] = "active" THEN {path[w]} ELSE {}
ServedPaths(w) ==
  {p \in Paths : activeHooks[p] # None /\ activeHooks[p].workflow = w}

Reconciled ==
  \A w \in Workflows : clean[w] /\ ~Busy(w) =>
    /\ {rows[i].path : i \in Stored(w)} = Expected(w)
    /\ \A i \in Stored(w) : rows[i].active
    /\ up => ServedPaths(w) = Expected(w)
=============================================================================
