-------------------------------- MODULE Exec --------------------------------
(***************************************************************************)
(* SystemExec::run: one call, with its child process and the three pipes   *)
(* between them.  The parent writes all of the input before it reads any   *)
(* of the output; a full pipe blocks whoever writes to it.                 *)
(*                                                                         *)
(* Input and output are counted in units of a pipe's Cap-th part.  The     *)
(* child is iptables, iptables-restore or conntrack: it reads its input to *)
(* the end unless it gives up, and prints little before that (a complaint  *)
(* about a line).  A read from a pipe of one's own does not fail.          *)
(***************************************************************************)
EXTENDS Integers

CONSTANTS
    Cap,        \* what a pipe holds
    Early,      \* what a child prints, on each stream, with input still unread
    MaxInput,   \* bound: the input
    MaxOutput   \* bound: what a child prints on each stream

Streams == {"stdout", "stderr"}
None == "none"

(* Nothing in run() protects it from a child that prints more than a pipe  *)
(* holds while its own input is not read yet.                              *)
ASSUME CapAssumption == Cap \in Nat \ {0} /\ Early \in 0 .. Cap
ASSUME BoundAssumption == MaxInput \in Nat /\ MaxOutput \in Nat

VARIABLES
    call,       \* where run() stands; "ok" and "err" are its results
    left,       \* the input not yet written
    pipe,       \* the input in the stdin pipe
    child,      \* "none", "reads", "prints" (its input is read) or "exited"
    status,     \* the child's exit status; -1 when a signal killed it
    says,       \* the stream the child is writing to, or None
    output,     \* stream -> what the child has to say
    printed,    \* stream -> what it has written of that
    got         \* stream -> what run() has read

parent == <<call, left, got>>
execVars == <<call, left, pipe, child, status, says, output, printed, got>>

Nothing == [s \in Streams |-> 0]

ExecInit == /\ call = "spawn" /\ child = "none"
            /\ left \in 0 .. MaxInput
            /\ pipe = 0 /\ status = 0 /\ says = None
            /\ output \in [Streams -> 0 .. MaxOutput]
            /\ printed = Nothing /\ got = Nothing

-----------------------------------------------------------------------------
(* The parent.                                                             *)

(* Without input stdin is /dev/null, or a pipe that is dropped at once.    *)
Spawn == /\ call = "spawn"
         /\ call' = IF left = 0 THEN "output" ELSE "input"
         /\ child' = "reads"
         /\ UNCHANGED <<left, pipe, status, says, output, printed, got>>

SpawnFails == /\ call = "spawn"
              /\ call' = "err"
              /\ UNCHANGED <<left, pipe, child, status, says, output, printed, got>>

(* write_all; after the last piece the pipe is dropped, and the child sees *)
(* the end of its input.                                                   *)
WriteInput == /\ call = "input" /\ child # "exited" /\ pipe < Cap
              /\ left' = left - 1
              /\ pipe' = pipe + 1
              /\ call' = IF left = 1 THEN "output" ELSE "input"
              /\ UNCHANGED <<child, status, says, output, printed, got>>

(* Mutant: a pipe that does not block.                                     *)
InputFails_WouldBlock == /\ call = "input" /\ (child = "exited" \/ pipe = Cap)
                         /\ call' = "err"
                         /\ UNCHANGED <<left, pipe, child, status, says, output, printed, got>>

(* EPIPE: nobody is left to read.                                          *)
InputFails == /\ call = "input" /\ child = "exited"
              /\ call' = "err"
              /\ UNCHANGED <<left, pipe, child, status, says, output, printed, got>>

(* Mutant: wait first, read then.                                          *)
ReadOutput_AfterExit(s) == /\ call = "output" /\ child = "exited" /\ got[s] < printed[s]
                           /\ got' = [got EXCEPT ![s] = @ + 1]
                           /\ UNCHANGED <<call, left, pipe, child, status, says, output, printed>>

(* wait_with_output reads both streams as they come ...                    *)
ReadOutput(s) == /\ call = "output" /\ got[s] < printed[s]
                 /\ got' = [got EXCEPT ![s] = @ + 1]
                 /\ UNCHANGED <<call, left, pipe, child, status, says, output, printed>>

(* Mutant: the exit ends the reading.                                      *)
Collect_AtExit == /\ call = "output" /\ child = "exited"
                  /\ call' = "ok"
                  /\ UNCHANGED <<left, pipe, child, status, says, output, printed, got>>

(* ... until both have ended, and then reaps the child.                    *)
Collect == /\ call = "output" /\ child = "exited" /\ got = printed
           /\ call' = "ok"
           /\ UNCHANGED <<left, pipe, child, status, says, output, printed, got>>

Parent == \/ Spawn \/ SpawnFails \/ WriteInput \/ InputFails \/ Collect
          \/ \E s \in Streams : ReadOutput(s)

-----------------------------------------------------------------------------
(* The child.                                                              *)

Reads == /\ child = "reads" /\ says = None /\ pipe > 0
         /\ pipe' = pipe - 1
         /\ UNCHANGED <<parent, child, status, says, output, printed>>

ReadsEnd == /\ child = "reads" /\ says = None /\ pipe = 0 /\ call # "input"
            /\ child' = "prints"
            /\ UNCHANGED <<parent, pipe, status, says, output, printed>>

(* It turns to a write, and is held up there while the pipe is full.       *)
Says(s) == /\ says = None /\ printed[s] < output[s]
           /\ child = "prints" \/ (child = "reads" /\ printed[s] < Early)
           /\ says' = s
           /\ UNCHANGED <<parent, pipe, child, status, output, printed>>

Prints(s) == /\ says = s /\ child # "exited" /\ printed[s] - got[s] < Cap
             /\ printed' = [printed EXCEPT ![s] = @ + 1]
             /\ says' = None
             /\ UNCHANGED <<parent, pipe, child, status, output>>

(* It has read and said everything.                                        *)
Exits == /\ child = "prints" /\ printed = output
         /\ child' = "exited" /\ status' \in {0, 1}
         /\ UNCHANGED <<parent, pipe, says, output, printed>>

(* It stops at an error, wherever it is.                                   *)
GivesUp == /\ child \in {"reads", "prints"} /\ says = None
           /\ child' = "exited" /\ status' = 1
           /\ UNCHANGED <<parent, pipe, says, output, printed>>

Killed == /\ child \in {"reads", "prints"}
          /\ child' = "exited" /\ status' = -1
          /\ UNCHANGED <<parent, pipe, says, output, printed>>

Child == Reads \/ ReadsEnd \/ (\E s \in Streams : Says(s) \/ Prints(s)) \/ Exits

ExecNext == Parent \/ Child \/ GivesUp \/ Killed

ExecSpec == ExecInit /\ [][ExecNext]_execVars

(* Only a full or an empty pipe holds a child up; nothing makes it fail.   *)
ExecFairSpec == ExecSpec /\ WF_execVars(Parent) /\ WF_execVars(Child)

-----------------------------------------------------------------------------
(* Correctness.                                                            *)

(* When run() returns, with or without an error, no command is running any *)
(* more: the read-back that follows an iptables-restore sees what it did,  *)
(* and the lock is not released under a command (SystemExec::run).         *)
NoCommandLeftRunning == call \in {"ok", "err"} => child \in {"none", "exited"}

(* An Ok holds all that the command printed, so that a chain's listing is  *)
(* never read short and taken for a chain with fewer rules; and a success  *)
(* means that the command has had all of its input (Output::success).      *)
OkIsComplete == call = "ok" => /\ got = printed
                               /\ status = 0 => left = 0 /\ pipe = 0

(* Every call ends, also one whose output is larger than a pipe: parent    *)
(* and child never wait on each other (SystemExec::run).                   *)
EveryCallEnds == call = "spawn" ~> call \in {"ok", "err"}

=============================================================================
