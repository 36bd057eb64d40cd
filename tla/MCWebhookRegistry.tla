------------------------- MODULE MCWebhookRegistry -------------------------
(***************************************************************************)
(* Bounds for TLC: two workflows, the first of which changes its path, two *)
(* handlers at a time, two or three rows, a restart.                       *)
(***************************************************************************)
EXTENDS WebhookRegistry, TLC

CONSTANTS w1, w2, p1, p2, p3

MCWorkflows == {w1, w2}
MCPaths == {p1, p2, p3}
OwnPaths == (w1 :> {p1, p2}) @@ (w2 :> {p3})
SharedPaths == (w1 :> {p1}) @@ (w2 :> {p1})

Symmetry == Permutations(IDs) \cup Permutations(Handlers)

\* States that differ only in what a handler will not read any more count as
\* one: its request once it responds or is about to read the workflow back, the
\* path of a webhook that it will not register.
Reads(c) ==
  c.at = "register" \/ (c.at \in {"list", "unregister"} /\ c.active)
Live(c) ==
  IF c = None THEN None
  ELSE [c EXCEPT !.path = IF Reads(c) THEN c.path ELSE None,
                 !.active = @ /\ Reads(c),
                 !.clears = @ /\ c.sound]
LiveState ==
  <<table, rows, activeHooks, process, [h \in Handlers |-> Live(call[h])], clean>>

----------------------------------------------------------------------------
(* What the repository says of webhooks and the code does not do.          *)

\* documentation/docs/webhooks/index.md:322: a request is answered 404 where
\* the workflow is not active.  Here no handler of the workflow is under way.
InactiveIsNotServed ==
  \A w \in Workflows :
    ~Busy(w) /\ status[w] # "active" => ServedPaths(w) = {}

\* workflows.go:164-167: what an activation did not register is reconciled
\* when the process is started the next time.
ReconciledByRestart ==
  [][\A w \in Workflows :
       ~up /\ up' /\ status[w] = "active" => ServedPaths(w)' # {}]_vars
=============================================================================
