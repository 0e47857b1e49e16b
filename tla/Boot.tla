-------------------------------- MODULE Boot ---------------------------------
(***************************************************************************)
(* What passes from one boot to the next.  All times of the tool are       *)
(* uptimes, which start again at every boot, while the files that hold     *)
(* them may outlive one: status.json names the boot that wrote it,         *)
(* answers.json does not.  `/run` is a tmpfs in the deployed image;        *)
(* Survives says which files are kept in other setups.                     *)
(*                                                                         *)
(* One endpoint and one apply run at a time are enough here: overlapping   *)
(* runs are the subject of Apply.  Boots are numbered from 1, uptimes are  *)
(* ticks from 1, and 0 stands for "none" in both.                          *)
(***************************************************************************)
EXTENDS Integers

CONSTANTS
    MaxAge,     \* ANSWERS_MAX_AGE_SECS, in ticks
    MaxUptime,  \* bound on the uptime
    MaxBoot,    \* bound on the number of boots
    Survives,   \* the files that outlive a reboot
    IdFails     \* whether /proc/sys/kernel/random/boot_id may be unreadable

ASSUME BoundsAssumption == /\ MaxAge \in Nat
                           /\ MaxUptime \in Nat \ {0}
                           /\ MaxBoot \in Nat \ {0}
ASSUME SurvivesAssumption == Survives \subseteq {"answers", "status"}
ASSUME IdFailsAssumption == IdFails \in BOOLEAN

VARIABLES
    boot,       \* the present boot
    uptime,     \* /proc/uptime
    started,    \* uptime the running `resolve` read, 0 if none runs
    answers,    \* answers.json
    status,     \* status.json
    pc,         \* where the apply run stands
    job,        \* its local variables
    chain       \* the answers whose plan the chains hold

vars == <<boot, uptime, started, answers, status, pc, job, chain>>

Time == 0 .. MaxUptime
Boots == 0 .. MaxBoot

(* `boot` records which boot a file is from.  In status.json it is a       *)
(* history field beside the real boot_id, and in answers.json there is     *)
(* nothing but the history field.                                          *)
Answers == [boot : Boots, gen : Time, settles : BOOLEAN]
Status == [boot : Boots, boot_id : Boots, applied : Time, last_fresh : Time]
Job == [now : Time, boot_id : Boots, prev : Status, answers : Answers, ok : BOOLEAN]

(* A missing file; a rejected one counts as missing.                       *)
NoAnswers == [boot |-> 0, gen |-> 0, settles |-> FALSE]
NoStatus == [boot |-> 0, boot_id |-> 0, applied |-> 0, last_fresh |-> 0]
NoJob == [now |-> 0, boot_id |-> 0, prev |-> NoStatus, answers |-> NoAnswers, ok |-> FALSE]

(* Every variable holds a value of its kind.                               *)
TypeOK == /\ boot \in 1 .. MaxBoot
          /\ uptime \in 1 .. MaxUptime
          /\ started \in Time
          /\ answers \in Answers
          /\ status \in Status
          /\ pc \in {"idle", "install", "report"}
          /\ job \in Job
          /\ chain \in Answers

Init == /\ boot = 1 /\ uptime = 1
        /\ started = 0
        /\ answers = NoAnswers /\ status = NoStatus
        /\ pc = "idle" /\ job = NoJob
        /\ chain = NoAnswers

-----------------------------------------------------------------------------
(* resolve: reads the uptime first, writes its file last.                  *)

ResolveStart == /\ started = 0
                /\ started' = uptime
                /\ UNCHANGED <<boot, uptime, answers, status, pc, job, chain>>

ResolveWrite ==
    /\ started # 0
    /\ \E s \in BOOLEAN : answers' = [boot |-> boot, gen |-> started, settles |-> s]
    /\ started' = 0
    /\ UNCHANGED <<boot, uptime, status, pc, job, chain>>

-----------------------------------------------------------------------------
(* apply.                                                                  *)

(* The id of this boot, or the empty string if it cannot be read.          *)
boot_id == {boot} \cup {i \in {0} : IdFails}

(* Mutant: the id is not compared.                                         *)
load_AnyBoot(s, id) == s

(* PrevStatus::load: the file, if it names the present boot.               *)
load(s, id) == IF s.boot_id = id THEN s ELSE NoStatus

(* Mutant: age is taken either way, and no file is too old.                *)
load_answers_NoAge(a, now, applied) ==
    IF a.gen # 0 /\ a.gen > applied THEN a ELSE NoAnswers

load_answers(a, now, applied) ==
    IF a.gen # 0 /\ now - a.gen <= MaxAge /\ a.gen > applied THEN a ELSE NoAnswers

(* The run takes the lock and reads clock, boot id, status and answers.    *)
Read == /\ pc = "idle"
        /\ \E id \in boot_id :
              LET prev == load(status, id)
              IN  job' = [now |-> uptime, boot_id |-> id, prev |-> prev, ok |-> FALSE,
                          answers |-> load_answers(answers, uptime, prev.applied)]
        /\ pc' = "install"
        /\ UNCHANGED <<boot, uptime, started, answers, status, chain>>

(* The chains hold the plan of the run's answers; without any, each name   *)
(* keeps what it had.                                                      *)
Landed == IF job.answers.gen = 0 THEN chain ELSE job.answers

Install == /\ pc = "install"
           /\ chain' = Landed
           /\ job' = [job EXCEPT !.ok = TRUE]
           /\ pc' = "report"
           /\ UNCHANGED <<boot, uptime, started, answers, status>>

(* The update fails, before its commit or after it.                        *)
InstallFails == /\ pc = "install"
                /\ chain' \in {chain, Landed}
                /\ pc' = "report"
                /\ UNCHANGED <<boot, uptime, started, answers, status, job>>

(* Marker and freshness, carried forward from the previous status.         *)
Report(t) ==
    [boot       |-> boot,
     boot_id    |-> job.boot_id,
     applied    |-> IF job.ok /\ job.answers.gen # 0 THEN job.answers.gen ELSE job.prev.applied,
     last_fresh |-> IF job.ok /\ job.answers.settles THEN t ELSE job.prev.last_fresh]

(* The status is written, or lost: the write fails, or the run is killed.  *)
(* The second reading of the clock may fail, then the first one is used.   *)
Publish == /\ pc = "report"
           /\ \/ \E t \in {job.now, uptime} : status' = Report(t)
              \/ status' = status
           /\ pc' = "idle"
           /\ job' = NoJob
           /\ UNCHANGED <<boot, uptime, started, answers, chain>>

-----------------------------------------------------------------------------

Tick == /\ uptime < MaxUptime
        /\ uptime' = uptime + 1
        /\ UNCHANGED <<boot, started, answers, status, pc, job, chain>>

(* Everything in memory is gone, the chains are created empty, and of the  *)
(* files only those in Survives are still there.                           *)
Reboot == /\ boot < MaxBoot
          /\ boot' = boot + 1 /\ uptime' = 1
          /\ started' = 0
          /\ pc' = "idle" /\ job' = NoJob
          /\ chain' = NoAnswers
          /\ answers' = IF "answers" \in Survives THEN answers ELSE NoAnswers
          /\ status' = IF "status" \in Survives THEN status ELSE NoStatus

Next == \/ ResolveStart \/ ResolveWrite
        \/ Read \/ Install \/ InstallFails \/ Publish
        \/ Tick \/ Reboot

Spec == Init /\ [][Next]_vars

(* The timer starts runs, runs go on, and updates do not fail for ever.    *)
FairSpec == Spec /\ WF_vars(Read) /\ SF_vars(Install) /\ WF_vars(Publish)

-----------------------------------------------------------------------------
(* Correctness.                                                            *)

(* "written during this boot. Anything else is ignored": what a run        *)
(* carries forward was written in the present boot (PrevStatus::load).     *)
PrevIsOfThisBoot == pc # "idle" => job.prev.boot \in {0, boot}

(* What status.json says of this boot lies in its past: no age computed    *)
(* from it is negative, and no later generation is below the marker        *)
(* (PrevStatus, last_fresh_uptime_secs, applied_answers_uptime_secs).      *)
StatusInThePast ==
    status.boot_id = boot => status.applied <= uptime /\ status.last_fresh <= uptime

(* Answers that reach the chains were produced in this boot and were not   *)
(* too old when the run read them: older ones "belong to a resolve run     *)
(* that is no longer current" (load_answers, ANSWERS_MAX_AGE_SECS).        *)
InstalledIsCurrent ==
    [][chain' # chain /\ chain' # NoAnswers =>
          chain'.boot = boot /\ chain'.gen \in (job.now - MaxAge) .. job.now]_vars

(* Answers of this boot land unless they are replaced or grow too old,     *)
(* whatever marker an earlier boot left behind (PrevStatus::load).         *)
NewAnswersLand ==
    \A b \in 1 .. MaxBoot, g \in 1 .. MaxUptime :
        (boot = b /\ answers.boot = b /\ answers.gen = g)
            ~> \/ chain.boot = b /\ chain.gen >= g
               \/ answers.gen # g \/ answers.boot # b \/ boot # b
               \/ uptime - g > MaxAge

=============================================================================
