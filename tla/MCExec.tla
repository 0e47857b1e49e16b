------------------------------- MODULE MCExec -------------------------------
(* Input and output that both exceed a pipe.                                *)
EXTENDS Exec

=============================================================================
