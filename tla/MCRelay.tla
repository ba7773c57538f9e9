------------------------------- MODULE MCRelay -------------------------------
(* Relay on a small instance: one pairing box and one account, three writes *)
(* and two requests at a time, any of them given up.                        *)
EXTENDS Relay, TLC

Symmetry == Permutations(Blobs) \cup Permutations(Handlers)
=============================================================================
