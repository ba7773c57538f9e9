------------------------------ MODULE Journal ------------------------------
(***************************************************************************)
(* What the two sync tables promise to the rest of the server, with the    *)
(* statements, row locks and transactions of the implementation left out.  *)
(*                                                                         *)
(* Every account has a set of live rows and a floor.  A row is appended    *)
(* once, under a number nobody used before.  A compaction raises the floor *)
(* and drops rows at or below it, both at the same instant; it may leave   *)
(* some of those rows behind, which is harmless, but it never drops a row  *)
(* above the new floor and never lowers the floor.                         *)
(***************************************************************************)
EXTENDS Integers

CONSTANTS Accounts,   \* the accounts of the server
          Numbers     \* the numbers a row can get

VARIABLES rows,       \* rows[a]: numbers of the rows a client of a can pull
          floor,      \* floor[a]: greatest number the snapshot of a stands for
          ever        \* ever[a]: every number ever appended for a

vars == <<rows, floor, ever>>

Init ==
  /\ rows = [a \in Accounts |-> {}]
  /\ floor = [a \in Accounts |-> 0]
  /\ ever = [a \in Accounts |-> {}]

Append(a, n) ==
  /\ \A b \in Accounts : n \notin ever[b]
  /\ rows' = [rows EXCEPT ![a] = @ \cup {n}]
  /\ ever' = [ever EXCEPT ![a] = @ \cup {n}]
  /\ UNCHANGED floor

Compact(a, n, dropped) ==
  /\ floor[a] <= n
  /\ \A k \in dropped : k <= n
  /\ rows' = [rows EXCEPT ![a] = @ \ dropped]
  /\ floor' = [floor EXCEPT ![a] = n]
  /\ UNCHANGED ever

Next ==
  \E a \in Accounts :
    \/ \E n \in Numbers : Append(a, n)
    \/ \E n \in Numbers \cup {0}, dropped \in SUBSET rows[a] : Compact(a, n, dropped)

Spec == Init /\ [][Next]_vars
=============================================================================
