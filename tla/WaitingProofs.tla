---------------------------- MODULE WaitingProofs -----------------------------
(***************************************************************************)
(* The two places where a run waits for another process: the lock, for any *)
(* number of processes and any timeout, tenure and delay, and the command  *)
(* that SystemExec::run starts, for pipes of any size and any amount of    *)
(* input and output.                                                       *)
(***************************************************************************)
EXTENDS Lock, Exec, TLAPS

(***************************************************************************)
(* The lock.  The proof keeps two accounts per waiter: how much of its     *)
(* timeout is used up, and how much time the tenures and signals of its    *)
(* wait can explain.                                                       *)
(***************************************************************************)

(* What n tenures and i signals explain of a wait.                         *)
Budget(n, i) == n * (Hold + 1 + 2 * Delay) + i * (1 + 2 * Delay)

(* The timeout of p: the deadline is looked at after every attempt.        *)
OnTime(p) ==
    /\ nap[p] = 1 => late[p] = 0
    /\ pc[p] = "try" => waited[p] <= Timeout + late[p] - nap[p]
    /\ pc[p] = "check" => nap[p] = 0 /\ waited[p] <= Timeout + Delay + late[p]
    /\ pc[p] = "timeout" => Timeout <= waited[p] /\ waited[p] <= Timeout + 2 * Delay

(* The wait of p: during a tenure it grows with the tenure, between two    *)
(* tenures it grows until the next attempt.                                *)
Explained(p) ==
    LET b == Budget(passed[p], intr[p])
    IN  /\ owner # Free /\ Waiting(p) => waited[p] <= b + held
        /\ owner = Free /\ pc[p] = "try" => waited[p] <= b + Hold + 1 + Delay + late[p] - nap[p]
        /\ owner = Free /\ pc[p] = "check" => waited[p] <= b + Hold + late[p]
        /\ pc[p] = "timeout" => waited[p] <= b + Hold + Delay

IInv == TypeOK /\ \A p \in Procs : OnTime(p) /\ Explained(p)

-----------------------------------------------------------------------------

(* One tenure more explains Hold ticks and a pause, one signal a pause.    *)
LEMMA BudgetFacts ==
    ASSUME NEW n \in Nat, NEW i \in Nat
    PROVE  /\ Budget(n, i) \in Nat
           /\ Budget(n + 1, i) = Budget(n, i) + Hold + 1 + 2 * Delay
           /\ Budget(n, i + 1) = Budget(n, i) + 1 + 2 * Delay
           /\ Budget(0, 0) = 0
  <1>1. \A c \in Nat : n * c \in Nat /\ (n + 1) * c = n * c + c /\ 0 * c = 0
    OBVIOUS
  <1>2. \A c \in Nat : i * c \in Nat /\ (i + 1) * c = i * c + c /\ 0 * c = 0
    OBVIOUS
  <1>3. ASSUME NEW g \in Nat, NEW l \in Nat
        PROVE  /\ n * g + i * l \in Nat
               /\ (n + 1) * g + i * l = n * g + i * l + g
               /\ n * g + (i + 1) * l = n * g + i * l + l
               /\ 0 * g + 0 * l = 0
    <2>1. n * g \in Nat /\ (n + 1) * g = n * g + g /\ 0 * g = 0
      BY <1>1
    <2>2. i * l \in Nat /\ (i + 1) * l = i * l + l /\ 0 * l = 0
      BY <1>2
    <2> QED
      BY <2>1, <2>2
  <1>4. Hold + 1 + 2 * Delay \in Nat /\ 1 + 2 * Delay \in Nat
    BY TimesAssumption
  <1>5. /\ Budget(n, i) \in Nat
        /\ Budget(n + 1, i) = Budget(n, i) + (Hold + 1 + 2 * Delay)
        /\ Budget(n, i + 1) = Budget(n, i) + (1 + 2 * Delay)
        /\ Budget(0, 0) = 0
    BY <1>3, <1>4, Zenon DEF Budget
  <1> QED
    BY <1>5, TimesAssumption

(* The first state: no one waits.                                          *)
LEMMA InitIInv == Init => IInv
  <1> SUFFICES ASSUME Init PROVE IInv
    OBVIOUS
  <1>1. TypeOK
    BY TimesAssumption, FreeAssumption DEF Init, TypeOK
  <1>2. ASSUME NEW p \in Procs PROVE OnTime(p) /\ Explained(p)
    BY DEF Init, OnTime, Explained, Waiting
  <1> QED
    BY <1>1, <1>2 DEF IInv

(* Every step keeps the types.                                             *)
LEMMA NextTypeOK == TypeOK /\ [Next]_vars => TypeOK'
  <1> SUFFICES ASSUME TypeOK, [Next]_vars PROVE TypeOK'
    OBVIOUS
  <1> USE TimesAssumption, FreeAssumption
  <1>1. ASSUME NEW p \in Procs, Open(p) PROVE TypeOK'
    BY <1>1 DEF TypeOK, Open, Moves, Resets
  <1>2. ASSUME NEW p \in Procs, Acquire(p) PROVE TypeOK'
    <2>1. passed' \in [Procs -> Nat]
      BY <1>2 DEF TypeOK, Acquire
    <2> QED
      BY <1>2, <2>1 DEF TypeOK, Acquire, Moves, Resets
  <1>3. ASSUME NEW p \in Procs, Blocked(p) \/ Interrupted(p) PROVE TypeOK'
    BY <1>3 DEF TypeOK, Blocked, Interrupted, Moves
  <1>4. ASSUME NEW p \in Procs, Fails(p) \/ Die(p) PROVE TypeOK'
    BY <1>4 DEF TypeOK, Fails, Die, Waiting, Moves, Resets
  <1>5. ASSUME NEW p \in Procs, Check(p) PROVE TypeOK'
    BY <1>5 DEF TypeOK, Check, Moves
  <1>6. ASSUME NEW p \in Procs, Release(p) PROVE TypeOK'
    BY <1>6 DEF TypeOK, Release, Moves
  <1>7. CASE Tick
    <2>1. waited' \in [Procs -> Nat] /\ nap' \in [Procs -> {0, 1}]
      BY <1>7 DEF TypeOK, Tick
    <2>2. late' \in [Procs -> 0 .. Delay]
      BY <1>7 DEF TypeOK, Tick
    <2> QED
      BY <1>7, <2>1, <2>2 DEF TypeOK, Tick
  <1>8. CASE UNCHANGED vars
    BY <1>8 DEF TypeOK, vars
  <1> QED
    BY <1>1, <1>2, <1>3, <1>4, <1>5, <1>6, <1>7, <1>8 DEF Next, Step

-----------------------------------------------------------------------------

(* Every step keeps both accounts of every process q.                      *)
LEMMA NextAccounts ==
    ASSUME IInv, [Next]_vars, NEW q \in Procs
    PROVE  OnTime(q)' /\ Explained(q)'
  <1> USE TimesAssumption, FreeAssumption
  <1>1. TypeOK /\ OnTime(q) /\ Explained(q)
    BY DEF IInv
  <1>2. /\ Budget(passed[q], intr[q]) \in Nat
        /\ Budget(passed[q] + 1, intr[q]) = Budget(passed[q], intr[q]) + Hold + 1 + 2 * Delay
        /\ Budget(passed[q], intr[q] + 1) = Budget(passed[q], intr[q]) + 1 + 2 * Delay
        /\ Budget(0, 0) = 0
    BY <1>1, BudgetFacts DEF TypeOK
  <1>3. ASSUME NEW p \in Procs, Open(p) PROVE OnTime(q)' /\ Explained(q)'
    BY <1>1, <1>2, <1>3 DEF TypeOK, OnTime, Explained, Waiting, Open, Moves, Resets
  <1>4. ASSUME NEW p \in Procs, Acquire(p) PROVE OnTime(q)' /\ Explained(q)'
    <2>1. CASE q = p
      BY <1>1, <1>4, <2>1 DEF TypeOK, OnTime, Explained, Waiting, Acquire, Moves, Resets
    <2>2. CASE q # p
      BY <1>1, <1>2, <1>4, <2>2 DEF TypeOK, OnTime, Explained, Waiting, Acquire, Moves, Resets
    <2> QED
      BY <2>1, <2>2
  <1>5. ASSUME NEW p \in Procs, Blocked(p) PROVE OnTime(q)' /\ Explained(q)'
    BY <1>1, <1>2, <1>5 DEF TypeOK, OnTime, Explained, Waiting, Blocked, Moves
  <1>6. ASSUME NEW p \in Procs, Interrupted(p) PROVE OnTime(q)' /\ Explained(q)'
    BY <1>1, <1>2, <1>6 DEF TypeOK, OnTime, Explained, Waiting, Interrupted, Moves
  <1>7. ASSUME NEW p \in Procs, Fails(p) \/ Die(p) PROVE OnTime(q)' /\ Explained(q)'
    BY <1>1, <1>2, <1>7 DEF TypeOK, OnTime, Explained, Waiting, Fails, Die, Moves, Resets
  <1>8. ASSUME NEW p \in Procs, Check(p) PROVE OnTime(q)' /\ Explained(q)'
    BY <1>1, <1>2, <1>8 DEF TypeOK, OnTime, Explained, Waiting, Check, expired, Moves
  <1>9. ASSUME NEW p \in Procs, Release(p) PROVE OnTime(q)' /\ Explained(q)'
    BY <1>1, <1>2, <1>9 DEF TypeOK, OnTime, Explained, Waiting, Release, Moves
  <1>10. CASE Tick
    BY <1>1, <1>2, <1>10 DEF TypeOK, OnTime, Explained, Waiting, Due, Tick
  <1>11. CASE UNCHANGED vars
    BY <1>1, <1>11 DEF OnTime, Explained, Waiting, vars
  <1> QED
    BY <1>3, <1>4, <1>5, <1>6, <1>7, <1>8, <1>9, <1>10, <1>11 DEF Next, Step

(* IInv is inductive.                                                      *)
LEMMA Invariance == Spec => []IInv
  <1>1. IInv /\ [Next]_vars => IInv'
    BY NextTypeOK, NextAccounts DEF IInv
  <1> QED
    BY InitIInv, <1>1, PTL DEF Spec

-----------------------------------------------------------------------------

(* A process believes that it has the lock exactly if the kernel says so,  *)
(* and no holder keeps it for longer than Hold (lock_exclusive).           *)
THEOREM TypeCorrect == Spec => []TypeOK
  <1>1. IInv => TypeOK
    BY DEF IInv
  <1> QED
    BY Invariance, <1>1, PTL

(* No wait overruns its deadline by more than two delays of the scheduler  *)
(* (the loop of lock_exclusive).                                           *)
THEOREM WaitBoundedThm == Spec => []WaitBounded
  <1>1. IInv => WaitBounded
    BY TimesAssumption DEF IInv, TypeOK, OnTime, WaitBounded, Waiting
  <1> QED
    BY Invariance, <1>1, PTL

(* A process that gives up was overtaken: its wait is explained by the     *)
(* tenures that began during it, by signals, and by one tenure that was    *)
(* under way when it began (the loop of lock_exclusive).                   *)
THEOREM OvertakenThm == Spec => []Overtaken
  <1>1. ASSUME IInv, NEW p \in Procs, pc[p] = "timeout"
        PROVE  Timeout <= Budget(passed[p], intr[p]) + Hold + Delay
    <2>1. Timeout <= waited[p] /\ waited[p] <= Budget(passed[p], intr[p]) + Hold + Delay
      BY <1>1 DEF IInv, OnTime, Explained
    <2>2. waited[p] \in Nat /\ Budget(passed[p], intr[p]) \in Nat
      BY <1>1, BudgetFacts DEF IInv, TypeOK
    <2> QED
      BY <2>1, <2>2, TimesAssumption
  <1>2. IInv => Overtaken
    BY <1>1 DEF Overtaken, Budget
  <1> QED
    BY Invariance, <1>2, PTL

-----------------------------------------------------------------------------
(***************************************************************************)
(* The command.  Its two ends go through their states separately, so the   *)
(* invariant says which states go together.                                *)
(***************************************************************************)

(* A pipe never holds more than Cap, nor gives more than was put in.       *)
ExecTypeOK ==
    /\ call \in {"spawn", "input", "output", "ok", "err"}
    /\ child \in {"none", "reads", "prints", "exited"}
    /\ left \in Nat /\ pipe \in 0 .. Cap
    /\ status \in {-1, 0, 1}
    /\ says \in Streams \cup {None}
    /\ output \in [Streams -> Nat] /\ printed \in [Streams -> Nat] /\ got \in [Streams -> Nat]
    /\ \A s \in Streams : got[s] <= printed[s] /\ printed[s] <= got[s] + Cap

(* Input is left exactly as long as run() is writing; the child prints its *)
(* results and ends well only when it has read everything.                 *)
Together ==
    /\ call = "spawn" => child = "none"
    /\ child = "none" => call \in {"spawn", "err"}
    /\ call = "input" => left > 0
    /\ call \in {"output", "ok"} => left = 0
    /\ call = "err" => child \in {"none", "exited"}
    /\ call = "ok" => child = "exited" /\ got = printed
    /\ child = "prints" => call # "input" /\ left = 0 /\ pipe = 0
    /\ child = "exited" /\ status = 0 => left = 0 /\ pipe = 0

ExecIInv == ExecTypeOK /\ Together

(* A call starts with its pipes empty.                                     *)
LEMMA ExecInitIInv == ExecInit => ExecIInv
  <1> SUFFICES ASSUME ExecInit PROVE ExecIInv
    OBVIOUS
  <1> USE CapAssumption, BoundAssumption
  <1>1. ExecTypeOK
    BY DEF ExecInit, ExecTypeOK, Nothing
  <1>2. Together
    BY DEF ExecInit, Together
  <1> QED
    BY <1>1, <1>2 DEF ExecIInv

(* Every step keeps the types.                                             *)
LEMMA ExecNextTypeOK == ExecIInv /\ [ExecNext]_execVars => ExecTypeOK'
  <1> SUFFICES ASSUME ExecIInv, [ExecNext]_execVars PROVE ExecTypeOK'
    OBVIOUS
  <1> USE CapAssumption, BoundAssumption
  <1>1. ExecTypeOK /\ Together
    BY DEF ExecIInv
  <1>2. CASE Spawn \/ SpawnFails \/ InputFails \/ Collect
    BY <1>1, <1>2 DEF ExecTypeOK, Spawn, SpawnFails, InputFails, Collect
  <1>3. CASE WriteInput
    BY <1>1, <1>3 DEF ExecTypeOK, Together, WriteInput
  <1>4. ASSUME NEW s \in Streams, ReadOutput(s) PROVE ExecTypeOK'
    BY <1>1, <1>4 DEF ExecTypeOK, ReadOutput
  <1>5. CASE Reads \/ ReadsEnd \/ Exits \/ GivesUp \/ Killed
    BY <1>1, <1>5 DEF ExecTypeOK, parent, Reads, ReadsEnd, Exits, GivesUp, Killed
  <1>6. ASSUME NEW s \in Streams, Says(s) PROVE ExecTypeOK'
    BY <1>1, <1>6 DEF ExecTypeOK, parent, Says
  <1>7. ASSUME NEW s \in Streams, Prints(s) PROVE ExecTypeOK'
    BY <1>1, <1>7 DEF ExecTypeOK, parent, Prints
  <1>8. CASE UNCHANGED execVars
    BY <1>1, <1>8 DEF ExecTypeOK, execVars
  <1> QED
    BY <1>2, <1>3, <1>4, <1>5, <1>6, <1>7, <1>8 DEF ExecNext, Parent, Child

(* Every step leaves call and child in states that go together.            *)
LEMMA ExecNextTogether == ExecIInv /\ [ExecNext]_execVars => Together'
  <1> SUFFICES ASSUME ExecIInv, [ExecNext]_execVars PROVE Together'
    OBVIOUS
  <1>1. ExecTypeOK /\ Together
    BY DEF ExecIInv
  <1>2. CASE Spawn \/ SpawnFails
    BY <1>1, <1>2 DEF ExecTypeOK, Together, Spawn, SpawnFails
  <1>3. CASE WriteInput
    BY <1>1, <1>3 DEF ExecTypeOK, Together, WriteInput
  <1>4. CASE InputFails \/ Collect
    BY <1>1, <1>4 DEF Together, InputFails, Collect
  <1>5. ASSUME NEW s \in Streams, ReadOutput(s) PROVE Together'
    BY <1>1, <1>5 DEF Together, ReadOutput
  <1>6. CASE Reads
    BY <1>1, <1>6 DEF ExecTypeOK, Together, parent, Reads
  <1>7. CASE ReadsEnd
    BY <1>1, <1>7 DEF ExecTypeOK, Together, parent, ReadsEnd
  <1>8. CASE Exits \/ GivesUp \/ Killed
    BY <1>1, <1>8 DEF ExecTypeOK, Together, parent, Exits, GivesUp, Killed
  <1>9. ASSUME NEW s \in Streams, Says(s) \/ Prints(s) PROVE Together'
    BY <1>1, <1>9 DEF Together, parent, Says, Prints
  <1>10. CASE UNCHANGED execVars
    BY <1>1, <1>10 DEF Together, execVars
  <1> QED
    BY <1>2, <1>3, <1>4, <1>5, <1>6, <1>7, <1>8, <1>9, <1>10 DEF ExecNext, Parent, Child

(* ExecIInv is inductive.                                                  *)
LEMMA ExecInvariance == ExecSpec => []ExecIInv
  <1>1. ExecIInv /\ [ExecNext]_execVars => ExecIInv'
    BY ExecNextTypeOK, ExecNextTogether DEF ExecIInv
  <1> QED
    BY ExecInitIInv, <1>1, PTL DEF ExecSpec

(* When run() returns, with or without an error, the command has ended or  *)
(* was never started (SystemExec::run).                                    *)
THEOREM NoCommandLeftRunningThm == ExecSpec => []NoCommandLeftRunning
  <1>1. ExecIInv => NoCommandLeftRunning
    BY DEF ExecIInv, Together, NoCommandLeftRunning
  <1> QED
    BY ExecInvariance, <1>1, PTL

(* An Ok holds all of both streams, and a success was given all of the     *)
(* input (SystemExec::run, Output::success).                               *)
THEOREM OkIsCompleteThm == ExecSpec => []OkIsComplete
  <1>1. ExecIInv => OkIsComplete
    BY DEF ExecIInv, Together, OkIsComplete
  <1> QED
    BY ExecInvariance, <1>1, PTL

=============================================================================
