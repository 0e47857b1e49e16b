------------------------------- MODULE Replace -------------------------------
(***************************************************************************)
(* What write_atomic promises, and what Apply takes it for: the content of *)
(* a file is replaced in one step or not at all.  A caller that is told    *)
(* "ok" has replaced it and one that is told "err" has not; a caller that  *)
(* dies may have done either.                                              *)
(***************************************************************************)
CONSTANTS
    Procs,      \* the callers
    Values      \* what they write

VARIABLES
    target,     \* the content of the file
    call,       \* caller -> where its call stands
    val         \* caller -> what it writes

vars == <<target, call, val>>

Init == /\ target \in Values
        /\ call = [p \in Procs |-> "idle"]
        /\ val \in [Procs -> Values]

Sets(p, to) == call' = [call EXCEPT ![p] = to]

Begin(p) == /\ call[p] = "idle" /\ Sets(p, "busy")
            /\ \E v \in Values : val' = [val EXCEPT ![p] = v]
            /\ UNCHANGED target

Commit(p) == /\ call[p] = "busy" /\ Sets(p, "committed")
             /\ target' = val[p]
             /\ UNCHANGED val

ReturnOk(p) == call[p] = "committed" /\ Sets(p, "ok") /\ UNCHANGED <<target, val>>

ReturnErr(p) == call[p] = "busy" /\ Sets(p, "err") /\ UNCHANGED <<target, val>>

(* The caller goes on after its call, or dies during it.                   *)
Leave(p) == call[p] # "idle" /\ Sets(p, "idle") /\ UNCHANGED <<target, val>>

Next == \E p \in Procs : Begin(p) \/ Commit(p) \/ ReturnOk(p) \/ ReturnErr(p) \/ Leave(p)

Spec == Init /\ [][Next]_vars

=============================================================================
