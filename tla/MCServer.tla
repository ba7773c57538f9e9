------------------------------ MODULE MCServer ------------------------------
(* Server on a small instance: two processes, in every environment that      *)
(* matters.                                                                  *)
EXTENDS Server, TLC

CONSTANTS s1, s2, garbage, p1, p2, r1, r2

\* Both requests meet at one process; the other one boots, serves and stops beside it.
SmallServerOf == r1 :> p1 @@ r2 :> p1

\* Both variables set to different secrets, one of them set, a file that does not
\* decode beside a variable that does.
SmallEnvironments ==
  {[file |-> s2, inline |-> s1], [file |-> None, inline |-> s1],
   [file |-> garbage, inline |-> s1], [file |-> None, inline |-> None]}
=============================================================================
