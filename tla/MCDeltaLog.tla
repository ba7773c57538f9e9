----------------------------- MODULE MCDeltaLog -----------------------------
(* DeltaLog on a small instance: two accounts, two concurrent publications, *)
(* and more numbers than one account needs to overlap two inserts with a    *)
(* compaction.                                                              *)
EXTENDS DeltaLog, TLC

Symmetry == Permutations(Accounts) \cup Permutations(Tasks)
=============================================================================
