-------------------------------- MODULE Lock ---------------------------------
(***************************************************************************)
(* lock_exclusive: an exclusive flock(2) on a file shared by apply runs    *)
(* and `toggle`, taken by polling every 100 ms until a deadline.  Nothing  *)
(* queues: between two polls of one process another may release the lock   *)
(* and a third one take it.                                                *)
(*                                                                         *)
(* Time advances in ticks of one poll interval.  A process that is due to  *)
(* move is delayed by the scheduler for at most Delay ticks, and a holder  *)
(* is done after at most Hold ticks; both are assumptions about the        *)
(* environment.  A process runs again and again, as its timer makes it.    *)
(***************************************************************************)
EXTENDS Integers

CONSTANTS
    Procs,      \* the processes that use the lock
    Timeout,    \* lock_timeout, in poll intervals
    Hold,       \* longest time that a holder keeps the lock
    Delay,      \* longest time that a runnable process waits for its turn
    Free        \* no process holds the lock

ASSUME TimesAssumption == Timeout \in Nat /\ Hold \in Nat /\ Delay \in Nat
ASSUME FreeAssumption == Free \notin Procs

VARIABLES
    owner,      \* the process whose descriptor has the flock, or Free
    held,       \* how long it has had it
    pc,         \* where a process is: see TypeOK
    waited,     \* time since it computed its deadline
    nap,        \* what is left of its sleep
    late,       \* for how long it has been due to move
    intr,       \* history: attempts of this wait that a signal interrupted
    passed      \* history: acquisitions by others during this wait

vars == <<owner, held, pc, waited, nap, late, intr, passed>>

Waiting(p) == pc[p] \in {"try", "check"}
Due(p) == Waiting(p) /\ nap[p] = 0

Init == /\ owner = Free /\ held = 0
        /\ pc = [p \in Procs |-> "idle"]
        /\ waited = [p \in Procs |-> 0]
        /\ nap = [p \in Procs |-> 0]
        /\ late = [p \in Procs |-> 0]
        /\ intr = [p \in Procs |-> 0]
        /\ passed = [p \in Procs |-> 0]

-----------------------------------------------------------------------------
(* The code.                                                               *)

Moves(p, to, rest) == /\ pc' = [pc EXCEPT ![p] = to]
                      /\ nap' = [nap EXCEPT ![p] = rest]
                      /\ late' = [late EXCEPT ![p] = 0]

(* The counters of p start from zero.                                      *)
Resets(p) == /\ waited' = [waited EXCEPT ![p] = 0]
             /\ intr' = [intr EXCEPT ![p] = 0]

(* The file is opened and the deadline computed.  If the file cannot be    *)
(* opened the process has not become a waiter.                             *)
Open(p) == /\ pc[p] \in {"idle", "timeout"} /\ nap[p] = 0
           /\ Moves(p, "try", 0)
           /\ Resets(p)
           /\ passed' = [passed EXCEPT ![p] = 0]
           /\ UNCHANGED <<owner, held>>

(* flock(LOCK_EX | LOCK_NB) succeeds.                                      *)
Acquire(p) == /\ pc[p] = "try" /\ nap[p] = 0
              /\ owner = Free
              /\ owner' = p /\ held' = 0
              /\ Moves(p, "held", 0)
              /\ Resets(p)
              /\ passed' = [q \in Procs |-> IF q = p THEN 0
                                             ELSE IF Waiting(q) THEN passed[q] + 1
                                             ELSE passed[q]]

(* EWOULDBLOCK.                                                            *)
Blocked(p) == /\ pc[p] = "try" /\ nap[p] = 0
              /\ owner # Free
              /\ Moves(p, "check", 0)
              /\ UNCHANGED <<owner, held, waited, intr, passed>>

(* EINTR is treated alike, whether or not the lock is free.                *)
Interrupted(p) == /\ pc[p] = "try" /\ nap[p] = 0
                  /\ Moves(p, "check", 0)
                  /\ intr' = [intr EXCEPT ![p] = @ + 1]
                  /\ UNCHANGED <<owner, held, waited, passed>>

(* Any other error is returned at once.                                    *)
Fails(p) == /\ pc[p] = "try" /\ nap[p] = 0
            /\ Moves(p, "idle", 1)
            /\ Resets(p)
            /\ passed' = [passed EXCEPT ![p] = 0]
            /\ UNCHANGED <<owner, held>>

(* Mutant: an attempt that would come after the deadline is not made.      *)
expired_BeforeSleep(p) == waited[p] + 1 >= Timeout

expired(p) == waited[p] >= Timeout

(* Mutant: the deadline is computed anew in every round.                   *)
Check_Renewed(p) == /\ pc[p] = "check"
                    /\ IF expired(p) THEN Moves(p, "timeout", 1) ELSE Moves(p, "try", 1)
                    /\ Resets(p)
                    /\ passed' = [passed EXCEPT ![p] = 0]
                    /\ UNCHANGED <<owner, held>>

(* After an attempt that failed: TimedOut, or sleep and try again.         *)
Check(p) == /\ pc[p] = "check"
            /\ IF expired(p) THEN Moves(p, "timeout", 1) ELSE Moves(p, "try", 1)
            /\ UNCHANGED <<owner, held, waited, intr, passed>>

(* The guard is dropped, or the kernel closes the file of a dead process.  *)
Release(p) == /\ pc[p] = "held"
              /\ owner' = Free /\ held' = 0
              /\ Moves(p, "idle", 1)
              /\ UNCHANGED <<waited, intr, passed>>

(* A process is killed while it waits.                                     *)
Die(p) == /\ Waiting(p)
          /\ Moves(p, "idle", 1)
          /\ Resets(p)
          /\ passed' = [passed EXCEPT ![p] = 0]
          /\ UNCHANGED <<owner, held>>

-----------------------------------------------------------------------------

(* Time passes unless that breaks the promise of Delay or of Hold.         *)
Tick == /\ \A p \in Procs : Due(p) => late[p] < Delay
        /\ owner # Free => held < Hold
        /\ held' = IF owner = Free THEN 0 ELSE held + 1
        /\ waited' = [p \in Procs |-> IF Waiting(p) THEN waited[p] + 1 ELSE waited[p]]
        /\ late' = [p \in Procs |-> IF Due(p) THEN late[p] + 1 ELSE 0]
        /\ nap' = [p \in Procs |-> 0]
        /\ UNCHANGED <<owner, pc, intr, passed>>

Step(p) == \/ Acquire(p) \/ Blocked(p) \/ Interrupted(p) \/ Fails(p)
           \/ Check(p) \/ Release(p)

Next == (\E p \in Procs : Open(p) \/ Step(p) \/ Die(p)) \/ Tick

Spec == Init /\ [][Next]_vars

(* The scheduler runs whoever is due, holders finish, and time goes on.    *)
FairSpec == Spec /\ WF_vars(Tick) /\ \A p \in Procs : WF_vars(Step(p))

-----------------------------------------------------------------------------
(* Correctness.                                                            *)

(* Every variable holds a value of its kind, and a process believes that   *)
(* it has the lock exactly if the kernel says so.                          *)
TypeOK ==
    /\ owner \in Procs \cup {Free}
    /\ held \in 0 .. Hold
    /\ pc \in [Procs -> {"idle", "try", "check", "held", "timeout"}]
    /\ waited \in [Procs -> Nat] /\ nap \in [Procs -> {0, 1}]
    /\ late \in [Procs -> 0 .. Delay]
    /\ intr \in [Procs -> Nat] /\ passed \in [Procs -> Nat]
    /\ \A p \in Procs : pc[p] = "held" <=> owner = p

(* A wait ends in time: the deadline is looked at after every attempt, so  *)
(* it is overrun by no more than the scheduler's delays, never by a whole  *)
(* poll interval (lock_exclusive).                                         *)
WaitBounded == \A p \in Procs : Waiting(p) \/ pc[p] = "timeout" => waited[p] <= Timeout + 2 * Delay

(* Who gives up was overtaken: the attempts of a whole timeout failed, and *)
(* one tenure of the lock spoils those of Hold ticks and of the pause      *)
(* after them, so enough others took the lock meanwhile, or signals        *)
(* interfered.  In particular one holder alone never makes a waiter give   *)
(* up if Timeout exceeds Hold + Delay (lock_exclusive).                    *)
Overtaken ==
    \A p \in Procs : pc[p] = "timeout" =>
        Timeout <= passed[p] * (Hold + 1 + 2 * Delay) + intr[p] * (1 + 2 * Delay) + Hold + Delay

(* Nobody polls for ever: every wait ends with the lock, an error or a     *)
(* timeout, however often others take the lock first (lock_exclusive).     *)
EveryWaitEnds == \A p \in Procs : Waiting(p) ~> ~Waiting(p)

=============================================================================
