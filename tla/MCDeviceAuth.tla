---------------------------- MODULE MCDeviceAuth ----------------------------
(* DeviceAuth on a small instance: two accounts that register two keys, and *)
(* two requests that answer the challenges.                                 *)
EXTENDS DeviceAuth, TLC

Symmetry == Permutations(Accounts) \cup Permutations(Keys) \cup Permutations(Nonces)
              \cup Permutations(Handlers) \cup Permutations(Texts)
=============================================================================
