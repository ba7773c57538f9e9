------------------------------ MODULE MCLogin ------------------------------
(* Login on small instances: two requests at a time, and flows enough to    *)
(* lock a username with one still to finish.  One of the two usernames has  *)
(* no account.  No symmetry: the runs check liveness.                       *)
EXTENDS Login
=============================================================================
