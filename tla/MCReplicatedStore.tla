-------------------------- MODULE MCReplicatedStore --------------------------
(***************************************************************************)
(* Symmetry for TLC, and what the repository says of the replicated store  *)
(* and the code does not do.                                               *)
(***************************************************************************)
EXTENDS ReplicatedStore, TLC

Symmetry ==
  Permutations(Replicas) \cup Permutations(Keys) \cup Permutations(Values)

\* internal/consensus/raft.go:4-5: the package ensures "consistency across
\* multiple m9m instances".  A follower that restores a snapshot keeps the
\* keys that were deleted while it lagged.
ReplicasAgree ==
  \A m, n \in Replicas :
    applied[m] = applied[n] /\ applied[m] >= reach[m] /\ applied[n] >= reach[n]
      => db[m] = db[n]
=============================================================================
