------------------------------- MODULE MCLock --------------------------------
(* Processes that take the lock from each other.                            *)
EXTENDS Lock

CONSTANTS p1, p2, p3

MCProcs == {p1, p2, p3}

=============================================================================
