----------------------------- MODULE MCResolve ------------------------------
(* Resolve with two names, two servers and two attempts.                   *)
EXTENDS Resolve

CONSTANTS n1, n2

MCNames == {n1, n2}

=============================================================================
