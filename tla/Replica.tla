------------------------------ MODULE Replica ------------------------------
(***************************************************************************)
(* What the /sync endpoints promise to the devices, with the tables, the   *)
(* statements and the requests left out: every account is one set of       *)
(* deltas, which its devices write and receive, and a device follows it    *)
(* with a position.                                                        *)
(*                                                                         *)
(* A device only receives what devices of its own account wrote.  Its      *)
(* position never goes back, nor beyond what was published.  As long as    *)
(* the promise is `whole`, numbers are published in order and a delivery   *)
(* leaves out nothing between the position it moves from and the one it    *)
(* moves to.                                                               *)
(***************************************************************************)
EXTENDS Integers

CONSTANTS Accounts,   \* the accounts of the server
          Devices,    \* the devices that follow them
          AccountOf,  \* AccountOf[d]: the account of device d
          Numbers     \* the numbers deltas can get

VARIABLES published,  \* published[a]: deltas every device of a is owed
          have,       \* have[d]: deltas device d has, its own included
          position,   \* position[d]: how far d has followed its account
          whole       \* nothing has happened that may leave a hole

vars == <<published, have, position, whole>>

Init ==
  /\ published = [a \in Accounts |-> {}]
  /\ have = [d \in Devices |-> {}]
  /\ position = [d \in Devices |-> 0]
  /\ whole = TRUE

\* What the devices of an account wrote, published or not.
WrittenIn(a) == {n \in Numbers : \E d \in Devices : AccountOf[d] = a /\ n \in have[d]}

Write(d, n) ==
  /\ \A e \in Devices : n \notin have[e]
  /\ have' = [have EXCEPT ![d] = @ \cup {n}]
  /\ UNCHANGED <<published, position>>

Publish(a, n) ==
  /\ n \in WrittenIn(a)
  /\ whole' => \A s \in published[a] : s < n
  /\ published' = [published EXCEPT ![a] = @ \cup {n}]
  /\ UNCHANGED <<have, position>>

Deliver(d, got, p) ==
  LET a == AccountOf[d] IN
  /\ got \subseteq WrittenIn(a)
  /\ p # position[d] => position[d] < p /\ \E s \in published[a] : p <= s
  /\ whole' => \A s \in published[a] : position[d] < s /\ s <= p => s \in have[d] \cup got
  /\ have' = [have EXCEPT ![d] = @ \cup got]
  /\ position' = [position EXCEPT ![d] = p]
  /\ UNCHANGED published

Next ==
  /\ whole' \in {whole, FALSE}
  /\ \/ \E d \in Devices, n \in Numbers : Write(d, n)
     \/ \E a \in Accounts, n \in Numbers : Publish(a, n)
     \/ \E d \in Devices, got \in SUBSET Numbers, p \in Numbers \cup {0} : Deliver(d, got, p)
     \/ UNCHANGED <<published, have, position>>

Spec == Init /\ [][Next]_vars
=============================================================================
