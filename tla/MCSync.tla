------------------------------- MODULE MCSync -------------------------------
(* Sync on small instances: the content of a snapshot is a set of deltas.   *)
EXTENDS Sync, TLC

CONSTANTS a1, a2, d1, d2, d3

SnapshotContents == SUBSET Seqs

\* Two devices of one account.
OneAccount == d1 :> a1 @@ d2 :> a1

\* Two devices of different accounts.
TwoOwners == d1 :> a1 @@ d3 :> a2

Symmetry == Permutations({d1, d2})
=============================================================================
