------------------------------ MODULE OneShot ------------------------------
(***************************************************************************)
(* What a single-use token promises, wherever the server has one: the      *)
(* login flows, the challenges of device keys and the pairing blobs.       *)
(*                                                                         *)
(* A token is drawn once.  From then on it is worth something until it is  *)
(* lost (expired, overwritten, or taken by a request that came to nothing) *)
(* or spent.  Neither a lost token nor a spent one comes back.             *)
(***************************************************************************)
CONSTANT Tokens

VARIABLES drawn,   \* tokens drawn so far
          live,    \* tokens that may still be spent
          spent    \* tokens that have had their effect

vars == <<drawn, live, spent>>

Init == drawn = {} /\ live = {} /\ spent = {}

\* A new token may push others out.
Draw(n, lost) ==
  /\ n \notin drawn
  /\ drawn' = drawn \cup {n}
  /\ live' = (live \ lost) \cup {n}
  /\ UNCHANGED spent

Lose(lost) ==
  /\ live' = live \ lost
  /\ UNCHANGED <<drawn, spent>>

Spend(n) ==
  /\ n \in live
  /\ live' = live \ {n}
  /\ spent' = spent \cup {n}
  /\ UNCHANGED drawn

Next ==
  \/ \E n \in Tokens, lost \in SUBSET live : Draw(n, lost)
  \/ \E lost \in SUBSET live : Lose(lost)
  \/ \E n \in live : Spend(n)

Spec == Init /\ [][Next]_vars
=============================================================================
