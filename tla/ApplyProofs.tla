---------------------------- MODULE ApplyProofs -----------------------------
(***************************************************************************)
(* Safety of Apply for every number of processes, every configuration and  *)
(* every combination of faults.                                            *)
(*                                                                         *)
(* The inductive invariant says what a run knows at each of its steps.     *)
(* All of it rests on the first clause, mutual exclusion: whoever is past  *)
(* lock_exclusive holds the lock, so the chains and the status it has read *)
(* are still those of the kernel and of the file.                          *)
(***************************************************************************)
EXTENDS Apply, PlanProofs

Critical == {"clock", "plan", "firewall", "verify", "reread", "hosts", "mode", "kill"}

(* The seen set has every address of m, with its names.                    *)
Covered(m) == \A a \in DOMAIN m : a \in DOMAIN maint /\ m[a] \subseteq maint[a]

(* j holds the plan for its answers and the chains as they are.            *)
Planned(j) ==
    /\ j.cur_prod = prod
    /\ j.cur_maint = maint
    /\ j.names = compute(j.answers.results, prod, maint).names
    /\ j.production = compute(j.answers.results, prod, maint).production
    /\ j.maintenance = compute(j.answers.results, prod, maint).maintenance

Knows(p) ==
    /\ pc[p] \in Critical => lock = p
    /\ pc[p] \in Critical \ Reporting => ~job[p].apply_ok
    /\ pc[p] \notin Critical => job[p] = NoJob
    /\ pc[p] \in Critical \ {"clock"} => job[p].applied = status.applied
    /\ pc[p] \in Critical \ {"clock", "plan"} =>
          job[p].answers.gen = 0 \/ job[p].answers.gen > job[p].applied
    /\ pc[p] = "firewall" => Planned(job[p])
    /\ pc[p] = "verify" => Describes(job[p])
    /\ pc[p] \in {"verify", "reread"} => Covered(job[p].cur_prod)
    /\ pc[p] \in Reporting /\ job[p].apply_ok => Describes(job[p])
    /\ pc[p] = "hosts" => \A n \in Names : \A a \in job[p].names[n].addrs :
                             a \in DOMAIN maint /\ n \in maint[a]
    /\ pc[p] = "kill" /\ job[p].apply_ok
          => flows \cap Forbidden \subseteq job[p].to_kill \cup job[p].kill_failed

IInv == /\ TypeOK
        /\ \A p \in Appliers : Knows(p)
        /\ Covered(prod)
        /\ PublishedWasInstalled

-----------------------------------------------------------------------------
(* Types.                                                                  *)

(* Answers that hold nothing are answers.                                  *)
LEMMA NoAnswersType == NoAnswers \in Answers
BY NoResultsType, TimeAssumption DEF NoAnswers, Answers, Time

(* What an apply holds before it starts is of the type of a job.           *)
LEMMA NoJobType == NoJob \in Job
BY NoAnswersType, EmptyMapType, NamesFromKernelType, TimeAssumption DEF NoJob, Job, Time

(* A machine that booted has state of the right types.                     *)
LEMMA InitType == Init => TypeOK
<1> SUFFICES ASSUME Init PROVE TypeOK
  OBVIOUS
<1>1. 0 \in Time /\ clock \in 1 .. MaxTime
  BY TimeAssumption DEF Init, Time
<1>2. status \in Status
  BY <1>1 DEF Init, Status, NoStatus
<1>3. /\ hosts \in [Names -> SUBSET Addrs]
      /\ pc \in [Appliers -> Steps]
      /\ started \in [Resolvers -> Time]
  BY <1>1 DEF Init, Steps
<1>4. job \in [Appliers -> Job] /\ answers \in Answers
  BY NoAnswersType, NoJobType DEF Init
<1>5. prod \in AddrMap /\ maint \in AddrMap /\ landed \in Results
  BY EmptyMapType, NoResultsType DEF Init
<1> QED BY <1>1, <1>2, <1>3, <1>4, <1>5 DEF Init, TypeOK

(* A step leads to a step.                                                 *)
LEMMA GotoType ==
    ASSUME TypeOK, NEW p \in Appliers, NEW step \in Steps, Goto(p, step)
    PROVE  pc' \in [Appliers -> Steps]
BY DEF TypeOK, Goto

(* A released lock is held by nobody, and nothing is kept of the run.      *)
LEMMA ReleaseType ==
    ASSUME TypeOK, NEW p \in Appliers, Release(p)
    PROVE  job' \in [Appliers -> Job] /\ lock' \in Appliers \cup {Free, Toggle}
BY NoJobType DEF TypeOK, Release

(* What is loaded are answers, also when the file is not taken.            *)
LEMMA LoadAnswersType ==
    ASSUME TypeOK, NEW now, NEW applied
    PROVE  load_answers(now, applied) \in Answers
BY NoAnswersType DEF TypeOK, load_answers

(* A commit installs maps.                                                 *)
LEMMA CommitType ==
    ASSUME TypeOK, NEW p \in Appliers, Commit(job[p])
    PROVE  /\ prod' \in AddrMap /\ maint' \in AddrMap /\ dirty' \in BOOLEAN
           /\ landed' \in Results /\ installed' \in Time
BY DEF TypeOK, Commit, Land, Job, Answers

(* A report is a status.                                                   *)
LEMMA ReportType ==
    ASSUME NEW j \in Job, NEW t \in Time
    PROVE  report(j, t) \in Status
BY DEF Job, Answers, Status, report, next_applied, required_satisfied

(* Each step of an apply keeps the types.                                  *)
LEMMA ApplyType ==
    ASSUME TypeOK, NEW p \in Appliers, ApplyStep(p)
    PROVE  TypeOK'
<1> USE DEF kernel, files, ghosts
<1>0. job[p] \in Job
  BY DEF TypeOK
<1>1. CASE Start(p)
  BY <1>1, GotoType DEF Start, TypeOK, Steps
<1>2. CASE Acquire(p)
  BY <1>2, GotoType DEF Acquire, TypeOK, Steps
<1>3. CASE LockTimeout(p)
  BY <1>3, GotoType, ReleaseType DEF LockTimeout, Leave, TypeOK, Steps
<1>4. CASE ReadClock(p)
  <2>0. /\ clock \in Time /\ status.applied \in Time
        /\ status.last_fresh \in [Names -> Time]
    BY TimeAssumption DEF TypeOK, Status, Time
  <2>1. job' \in [Appliers -> Job]
    BY <1>0, <1>4, <2>0 DEF ReadClock, TypeOK, Job
  <2> QED BY <1>4, <2>1, GotoType DEF ReadClock, TypeOK, Steps
<1>5. CASE Abort(p)
  BY <1>5, GotoType, ReleaseType DEF Abort, Leave, TypeOK, Steps
<1>6. CASE ReadAndPlan(p)
  <2> DEFINE a == load_answers(job[p].now, job[p].applied)
             plan == compute(a.results, prod, maint)
  <2>1. a \in Answers /\ a.results \in Results
    BY LoadAnswersType DEF Answers
  <2>2. /\ plan.names \in [Names -> NameState]
        /\ plan.production \in AddrMap /\ plan.maintenance \in AddrMap
    BY <2>1, PlanAgrees DEF TypeOK
  <2>3. job' \in [Appliers -> Job]
    <3> HIDE DEF a, plan
    <3>1. job' = [job EXCEPT ![p].answers = a,
                              ![p].cur_prod = prod,
                              ![p].cur_maint = maint,
                              ![p].cur_dirty = dirty,
                              ![p].names = plan.names,
                              ![p].production = plan.production,
                              ![p].maintenance = plan.maintenance]
      BY <1>6 DEF ReadAndPlan, a, plan
    <3> QED BY <1>0, <2>1, <2>2, <3>1 DEF TypeOK, Job
  <2> QED BY <1>6, <2>3, GotoType DEF ReadAndPlan, TypeOK, Steps
<1>7. CASE Unchanged(p)
  <2>1. job' \in [Appliers -> Job]
    BY <1>0, <1>7 DEF Unchanged, TypeOK, Job
  <2>2. landed' \in Results /\ installed' \in Time
    BY <1>0, <1>7 DEF Unchanged, Land, TypeOK, Job, Answers
  <2> QED BY <1>7, <2>1, <2>2, GotoType DEF Unchanged, TypeOK, Steps
<1>8. CASE Restore(p)
  BY <1>8, CommitType, GotoType DEF Restore, TypeOK, Steps
<1>9. CASE RestoreFails(p)
  BY <1>9, CommitType, GotoType DEF RestoreFails, TypeOK, Steps
<1>10. CASE Verify(p)
  <2>1. \/ job' = [job EXCEPT ![p].apply_ok = TRUE] /\ Goto(p, "hosts")
        \/ job' = job /\ Goto(p, "reread")
    BY <1>10 DEF Verify
  <2>2. job' \in [Appliers -> Job]
    <3>1. CASE job' = job
      BY <3>1 DEF TypeOK
    <3>2. CASE job' = [job EXCEPT ![p].apply_ok = TRUE]
      BY <1>0, <3>2 DEF TypeOK, Job
    <3> QED BY <2>1, <3>1, <3>2
  <2>3. pc' \in [Appliers -> Steps]
    BY <2>1, GotoType DEF Steps
  <2> QED BY <1>10, <2>2, <2>3 DEF Verify, TypeOK
<1>11. CASE Reread(p)
  <2>1. PICK ep \in {prod, job[p].cur_prod}, em \in {maint, job[p].cur_maint} :
           job' = [job EXCEPT ![p].names = names_from_kernel(ep),
                              ![p].production = ep,
                              ![p].maintenance = em]
    BY <1>11 DEF Reread
  <2>2. ep \in AddrMap /\ em \in AddrMap
    BY <1>0 DEF TypeOK, Job
  <2>3. names_from_kernel(ep) \in [Names -> NameState]
    BY <2>2, NamesFromKernelType
  <2>4. job' \in [Appliers -> Job]
    BY <1>0, <2>1, <2>2, <2>3 DEF TypeOK, Job
  <2> QED BY <1>11, <2>4, GotoType DEF Reread, TypeOK, Steps
<1>12. CASE WriteHosts(p)
  <2>1. PICK ok \in Succeeds("hosts") :
           /\ hosts' = write_atomic(ok, hosts, render(job[p].names))
           /\ job' = [job EXCEPT ![p].hosts_ok = ok]
    BY <1>12 DEF WriteHosts
  <2>2. ok \in BOOLEAN
    BY DEF Succeeds
  <2>3. job' \in [Appliers -> Job]
    BY <1>0, <2>1, <2>2 DEF TypeOK, Job
  <2>4. hosts' \in [Names -> SUBSET Addrs]
    BY <1>0, <2>1 DEF TypeOK, Job, render, NameState, write_atomic
  <2> QED BY <1>12, <2>3, <2>4, GotoType DEF WriteHosts, TypeOK, Steps
<1>13. CASE ReadMode(p)
  <2>1. kill_set(read_mode(state_file), job[p].production, job[p].maintenance) \subseteq Addrs
    BY <1>0, AddrMapFacts DEF Job, kill_set
  <2>2. job' \in [Appliers -> Job]
    BY <1>0, <1>13, <2>1 DEF ReadMode, TypeOK, Job
  <2> QED BY <1>13, <2>2, GotoType DEF ReadMode, TypeOK, Steps
<1>14. CASE Kill(p)
  <2>1. PICK a \in job[p].to_kill, ok \in Succeeds("kill") :
           /\ flows' = IF ok THEN flows \ {a} ELSE flows
           /\ job' = [job EXCEPT ![p].to_kill = @ \ {a},
                                 ![p].kill_failed = IF ok THEN @ ELSE @ \cup {a}]
    BY <1>14 DEF Kill
  <2>2. job' \in [Appliers -> Job]
    BY <1>0, <2>1 DEF TypeOK, Job
  <2> QED BY <1>14, <2>1, <2>2 DEF Kill, TypeOK
<1>15. CASE Publish(p)
  <2>1. PICK t \in Time : status' \in {status, report(job[p], t)}
    BY <1>0, <1>15 DEF Publish, TypeOK, Job, Time, write_atomic
  <2>2. status' \in Status
    BY <1>0, <2>1, ReportType DEF TypeOK
  <2> QED BY <1>15, <2>2, GotoType, ReleaseType DEF Publish, Leave, TypeOK, Steps
<1>16. CASE Crash(p)
  BY <1>16, GotoType, ReleaseType DEF Crash, TypeOK, Steps
<1> QED
  BY <1>1, <1>2, <1>3, <1>4, <1>5, <1>6, <1>7, <1>8, <1>9, <1>10, <1>11, <1>12,
     <1>13, <1>14, <1>15, <1>16 DEF ApplyStep, Proceed

(* Every action keeps the types.                                           *)
LEMMA NextType ==
    ASSUME TypeOK, [Next]_vars
    PROVE  TypeOK'
<1> USE DEF kernel, files, ghosts
<1>1. CASE \E p \in Appliers : ApplyStep(p)
  BY <1>1, ApplyType
<1>2. ASSUME NEW r \in Resolvers, ResolveStart(r) \/ ResolveWrite(r) \/ ResolveDie(r)
      PROVE  TypeOK'
  <2>1. answers' \in Answers
    BY <1>2 DEF ResolveStart, ResolveWrite, ResolveDie, TypeOK, Answers, Results
  <2>2. started' \in [Resolvers -> Time]
    BY <1>2, TimeAssumption DEF ResolveStart, ResolveWrite, ResolveDie, TypeOK, Time
  <2> QED BY <1>2, <2>1, <2>2 DEF ResolveStart, ResolveWrite, ResolveDie, TypeOK
<1>3. ASSUME NEW a \in Global, OpenFlow(a) \/ CloseFlow(a)
      PROVE  TypeOK'
  BY <1>3, GlobalAssumption DEF OpenFlow, CloseFlow, TypeOK
<1>4. CASE ToggleAcquire \/ ToggleRelease
  BY <1>4 DEF ToggleAcquire, ToggleRelease, TypeOK, Modes
<1>5. CASE Foreign
  BY <1>5 DEF Foreign, TypeOK
<1>7. CASE Tick
  <2>1. clock' \in 1 .. MaxTime
    BY <1>7, TimeAssumption DEF Tick, TypeOK
  <2> QED BY <1>7, <2>1 DEF Tick, TypeOK
<1>6. CASE UNCHANGED vars
  BY <1>6 DEF vars, TypeOK
<1> QED BY <1>1, <1>2, <1>3, <1>4, <1>5, <1>6, <1>7 DEF Next

-----------------------------------------------------------------------------
(* What a run knows.                                                       *)

(* Nothing is installed and no run has begun.                              *)
LEMMA InitIInv == Init => IInv
<1> SUFFICES ASSUME Init PROVE IInv
  OBVIOUS
<1>1. DOMAIN prod = {}
  BY DEF Init, EmptyMap
<1>2. \A p \in Appliers : Knows(p)
  BY DEF Init, Knows, Critical, Reporting
<1> QED BY <1>1, <1>2, InitType DEF IInv, Covered, PublishedWasInstalled, Init

(* A process that is not the lock's holder is not in its critical section, *)
(* and a step of another process leaves it what it knows: nothing.         *)
LEMMA Bystander ==
    ASSUME IInv, NEW p \in Appliers, NEW q \in Appliers, q # p,
           lock = p, pc'[q] = pc[q], job'[q] = job[q]
    PROVE  Knows(q)'
<1>1. pc[q] \notin Critical
  BY DEF IInv, Knows
<1>2. job[q] = NoJob
  BY <1>1 DEF IInv, Knows
<1> QED BY <1>1, <1>2 DEF Knows, Critical, Reporting

(* The seen set has the addresses of the plan, and those of the chain it   *)
(* was computed from.                                                      *)
LEMMA PlanCovered ==
    ASSUME TypeOK, NEW j \in Job, Planned(j), Covered(prod)
    PROVE  /\ \A a \in DOMAIN j.production :
                 a \in DOMAIN j.maintenance /\ j.production[a] \subseteq j.maintenance[a]
           /\ \A a \in DOMAIN maint :
                 a \in DOMAIN j.maintenance /\ maint[a] \subseteq j.maintenance[a]
           /\ \A n \in Names : j.names[n].addrs = previous(j.production, n)
<1>1. j.answers.results \in Results
  BY DEF Job, Answers
<1>2. j.maintenance = Merge(maint, j.production) /\ j.production \in AddrMap
  BY <1>1, PlanAgrees, ComputeCases DEF TypeOK, Planned
<1>3. \A n \in Names : j.names[n].addrs = previous(j.production, n)
  BY <1>1, PlanAgrees DEF TypeOK, Planned
<1>4. /\ DOMAIN Merge(maint, j.production) = DOMAIN maint \cup DOMAIN j.production
      /\ \A a \in DOMAIN maint : maint[a] \subseteq Merge(maint, j.production)[a]
      /\ \A a \in DOMAIN j.production : j.production[a] \subseteq Merge(maint, j.production)[a]
  BY <1>2, MergeType DEF TypeOK
<1> QED BY <1>2, <1>3, <1>4

(* A step that leaves everything a run's knowledge is about as it was.     *)
LEMMA KnowsUnchanged ==
    ASSUME NEW q \in Appliers, Knows(q), pc'[q] = pc[q], job'[q] = job[q],
           pc[q] \in Critical => lock' = lock,
           pc[q] \in Critical => UNCHANGED <<prod, maint, status, state_file>>,
           flows' \cap Forbidden \subseteq flows
    PROVE  Knows(q)'
<1>1. CASE pc[q] \notin Critical
  BY <1>1 DEF Knows, Critical, Reporting
<1>2. CASE pc[q] \in Critical
  <2>1. Forbidden' = Forbidden
    BY <1>2 DEF Forbidden, Allows
  <2>2. pc[q] = "kill" /\ job[q].apply_ok
           => flows' \cap Forbidden' \subseteq job[q].to_kill \cup job[q].kill_failed
    BY <2>1 DEF Knows
  <2> QED BY <1>2, <2>2 DEF Knows, Planned, Describes, Covered, Critical, Reporting
<1> QED BY <1>1, <1>2

(* The parts of the invariant that are not about types.                    *)
Safe == /\ \A p \in Appliers : Knows(p)
        /\ Covered(prod)
        /\ PublishedWasInstalled

(* The runs other than p's know the same after a step of the lock's holder.*)
LEMMA OthersKnow ==
    ASSUME IInv, NEW p \in Appliers, pc[p] \in Critical,
           NEW step, Goto(p, step) \/ pc' = pc,
           \A q \in Appliers \ {p} : job'[q] = job[q]
    PROVE  \A q \in Appliers \ {p} : Knows(q)'
<1> SUFFICES ASSUME NEW q \in Appliers, q # p PROVE Knows(q)'
  OBVIOUS
<1>1. lock = p
  BY DEF IInv, Knows
<1>2. pc'[q] = pc[q]
  BY DEF IInv, TypeOK, Goto
<1> QED BY <1>1, <1>2, Bystander

(* Leaving the critical section, or giving up before it.                   *)
LEMMA ReleaseSafe ==
    ASSUME IInv, NEW p \in Appliers, NEW step \in {"idle", "killed"},
           Goto(p, step), Release(p), UNCHANGED <<prod, maint, hosts, status, state_file, flows>>
    PROVE  Safe'
<1>1. Knows(p)'
  BY DEF IInv, TypeOK, Goto, Release, Knows, Critical, Reporting
<1>2. ASSUME NEW q \in Appliers, q # p PROVE Knows(q)'
  <2>1. pc'[q] = pc[q] /\ job'[q] = job[q]
    BY <1>2 DEF IInv, TypeOK, Goto, Release
  <2>2. Knows(q) /\ (pc[q] \in Critical => lock' = lock)
    BY <1>2 DEF IInv, Knows, Release
  <2> QED BY <2>1, <2>2, KnowsUnchanged
<1> QED BY <1>1, <1>2 DEF Safe, IInv, Covered, PublishedWasInstalled

(* A restore installs the plan: the seen set grows, so whatever it covered *)
(* or was published stays covered.                                         *)
LEMMA CommitSafe ==
    ASSUME IInv, NEW p \in Appliers, pc[p] = "firewall", Commit(job[p]),
           UNCHANGED <<job, hosts>>
    PROVE  /\ Covered(prod)' /\ PublishedWasInstalled'
           /\ Describes(job[p])' /\ Covered(job[p].cur_prod)'
<1>1. Planned(job[p]) /\ job[p] \in Job
  BY DEF IInv, Knows, TypeOK
<1>2. prod' = job[p].production /\ maint' = job[p].maintenance
  BY DEF Commit
<1>3. \A a \in DOMAIN prod' : a \in DOMAIN maint' /\ prod'[a] \subseteq maint'[a]
  BY <1>1, <1>2, PlanCovered DEF IInv
<1>4. \A a \in DOMAIN maint : a \in DOMAIN maint' /\ maint[a] \subseteq maint'[a]
  BY <1>1, <1>2, PlanCovered DEF IInv
<1>5. Covered(prod)'
  BY <1>3 DEF Covered
<1>6. PublishedWasInstalled'
  BY <1>4 DEF IInv, PublishedWasInstalled
<1>7. Describes(job[p])'
  BY <1>1, <1>2, PlanCovered DEF IInv, Describes
<1>8. Covered(job[p].cur_prod)'
  BY <1>1, <1>4 DEF IInv, Planned, Covered
<1> QED BY <1>5, <1>6, <1>7, <1>8

(* One step per action: the acting run learns what its next step needs.    *)
LEMMA ApplySafe ==
    ASSUME IInv, NEW p \in Appliers, ApplyStep(p)
    PROVE  Safe'
<1> USE DEF kernel, files, ghosts
<1>0. /\ Knows(p) /\ job[p] \in Job /\ pc \in [Appliers -> Steps]
      /\ job \in [Appliers -> Job]
  BY DEF IInv, TypeOK
<1>a. Covered(prod) /\ PublishedWasInstalled
  BY DEF IInv
<1>1. CASE Start(p)
  <2>1. Knows(p)'
    BY <1>0, <1>1 DEF Start, Goto, Knows, Critical, Reporting
  <2>2. ASSUME NEW q \in Appliers, q # p PROVE Knows(q)'
    BY <1>0, <1>1, <2>2, KnowsUnchanged DEF Start, Goto, IInv
  <2> QED BY <1>1, <1>a, <2>1, <2>2 DEF Start, Safe, Covered, PublishedWasInstalled
<1>2. CASE Acquire(p)
  <2>1. Knows(p)'
    BY <1>0, <1>2 DEF Acquire, Goto, Knows, Critical, Reporting, NoJob
  <2>2. ASSUME NEW q \in Appliers, q # p PROVE Knows(q)'
    <3>1. pc[q] \notin Critical
      BY <1>2, ProcessAssumption DEF Acquire, IInv, Knows
    <3> QED BY <1>0, <1>2, <2>2, <3>1, KnowsUnchanged DEF Acquire, Goto, IInv
  <2> QED BY <1>2, <1>a, <2>1, <2>2 DEF Acquire, Safe, Covered, PublishedWasInstalled
<1>3. CASE LockTimeout(p)
  BY <1>3, ReleaseSafe DEF LockTimeout, Leave
<1>4. CASE ReadClock(p)
  <2>1. Knows(p)'
    BY <1>0, <1>4 DEF ReadClock, Goto, Knows, Critical, Reporting, Job
  <2>2. \A q \in Appliers \ {p} : Knows(q)'
    BY <1>0, <1>4, OthersKnow DEF ReadClock, Critical
  <2> QED BY <1>4, <1>a, <2>1, <2>2 DEF ReadClock, Safe, Covered, PublishedWasInstalled
<1>5. CASE Abort(p)
  BY <1>5, ReleaseSafe DEF Abort, Leave
<1>6. CASE ReadAndPlan(p)
  <2> DEFINE a == load_answers(job[p].now, job[p].applied)
             plan == compute(a.results, prod, maint)
  <2>1. a.gen = 0 \/ a.gen > job[p].applied
    BY DEF load_answers, NoAnswers
  <2>2. /\ job'[p].answers = a /\ job'[p].cur_prod = prod /\ job'[p].cur_maint = maint
        /\ job'[p].names = plan.names /\ job'[p].production = plan.production
        /\ job'[p].maintenance = plan.maintenance
        /\ job'[p].apply_ok = job[p].apply_ok /\ job'[p].applied = job[p].applied
    <3> HIDE DEF a, plan
    <3>1. job' = [job EXCEPT ![p].answers = a,
                              ![p].cur_prod = prod,
                              ![p].cur_maint = maint,
                              ![p].cur_dirty = dirty,
                              ![p].names = plan.names,
                              ![p].production = plan.production,
                              ![p].maintenance = plan.maintenance]
      BY <1>6 DEF ReadAndPlan, a, plan
    <3> QED BY <1>0, <3>1 DEF Job
  <2>3. UNCHANGED <<prod, maint, status, lock, hosts>> /\ pc'[p] = "firewall" /\ pc[p] = "plan"
    BY <1>0, <1>6 DEF ReadAndPlan, Goto
  <2>4. Planned(job[p])'
    BY <2>2, <2>3 DEF Planned
  <2>5. Knows(p)'
    <3> HIDE DEF a, plan
    <3> QED BY <1>0, <2>1, <2>2, <2>3, <2>4 DEF Knows, Critical, Reporting
  <2>6. \A q \in Appliers \ {p} : Knows(q)'
    BY <1>0, <1>6, OthersKnow DEF ReadAndPlan, Critical
  <2> QED BY <1>a, <2>3, <2>5, <2>6 DEF Safe, Covered, PublishedWasInstalled
<1>7. CASE Unchanged(p)
  <2>1. /\ UNCHANGED <<prod, maint, status, lock, hosts>>
        /\ pc'[p] = "hosts" /\ pc[p] = "firewall"
        /\ job'[p] = [job[p] EXCEPT !.apply_ok = TRUE]
        /\ InSync(job[p])
    BY <1>0, <1>7 DEF Unchanged, Goto
  <2>2. Describes(job[p])
    BY <1>0, <1>a, <2>1, PlanCovered DEF Knows, IInv, Planned, Describes, InSync
  <2>3. Describes(job[p])'
    BY <1>0, <2>1, <2>2 DEF Describes, Job
  <2>4. \A n \in Names : \A x \in job'[p].names[n].addrs : x \in DOMAIN maint' /\ n \in maint'[x]
    BY <1>a, <2>1, <2>3 DEF Describes, previous, Covered
  <2>5. Knows(p)'
    BY <1>0, <2>1, <2>3, <2>4 DEF Knows, Critical, Reporting, Job
  <2>6. \A q \in Appliers \ {p} : Knows(q)'
    BY <1>0, <1>7, OthersKnow DEF Unchanged, Critical
  <2> QED BY <1>a, <2>1, <2>5, <2>6 DEF Safe, Covered, PublishedWasInstalled
<1>8. CASE Restore(p)
  <2>1. /\ UNCHANGED <<status, lock, hosts, job>> /\ Commit(job[p])
        /\ pc'[p] = "verify" /\ pc[p] = "firewall"
    BY <1>0, <1>8 DEF Restore, Goto
  <2>2. /\ Covered(prod)' /\ PublishedWasInstalled'
        /\ Describes(job[p])' /\ Covered(job[p].cur_prod)'
    BY <2>1, CommitSafe
  <2>3. Knows(p)'
    BY <1>0, <2>1, <2>2 DEF Knows, Critical, Reporting
  <2>4. \A q \in Appliers \ {p} : Knows(q)'
    BY <1>0, <1>8, OthersKnow DEF Restore, Critical
  <2> QED BY <2>2, <2>3, <2>4 DEF Safe
<1>9. CASE RestoreFails(p)
  <2>1. /\ UNCHANGED <<status, lock, hosts, job>>
        /\ UNCHANGED <<prod, maint>> \/ Commit(job[p])
        /\ pc'[p] = "reread" /\ pc[p] = "firewall"
    BY <1>0, <1>9 DEF RestoreFails, Goto
  <2>2. Covered(prod)' /\ PublishedWasInstalled' /\ Covered(job[p].cur_prod)'
    <3>1. CASE Commit(job[p])
      BY <2>1, <3>1, CommitSafe
    <3>2. CASE UNCHANGED <<prod, maint>>
      BY <1>0, <1>a, <2>1, <3>2 DEF Covered, PublishedWasInstalled, Knows, Planned
    <3> QED BY <2>1, <3>1, <3>2
  <2>3. Knows(p)'
    BY <1>0, <2>1, <2>2 DEF Knows, Critical, Reporting
  <2>4. \A q \in Appliers \ {p} : Knows(q)'
    BY <1>0, <1>9, OthersKnow DEF RestoreFails, Critical
  <2> QED BY <2>2, <2>3, <2>4 DEF Safe
<1>10. CASE Verify(p)
  <2>1. UNCHANGED <<prod, maint, status, lock, hosts>> /\ pc[p] = "verify"
    BY <1>10 DEF Verify
  <2>2. \/ job'[p] = [job[p] EXCEPT !.apply_ok = TRUE] /\ pc'[p] = "hosts"
        \/ job'[p] = job[p] /\ pc'[p] = "reread"
    BY <1>0, <1>10 DEF Verify, Goto
  <2>3. Describes(job[p]) /\ Covered(job[p].cur_prod)
    BY <1>0, <2>1 DEF Knows
  <2>4. Knows(p)'
    <3>1. CASE job'[p] = [job[p] EXCEPT !.apply_ok = TRUE] /\ pc'[p] = "hosts"
      <4>1. Describes(job[p])'
        BY <1>0, <2>1, <2>3, <3>1 DEF Describes, Job
      <4>2. \A n \in Names : \A x \in job'[p].names[n].addrs :
               x \in DOMAIN maint' /\ n \in maint'[x]
        BY <1>a, <2>1, <4>1 DEF Describes, previous, Covered
      <4> QED BY <1>0, <2>1, <3>1, <4>1, <4>2 DEF Knows, Critical, Reporting, Job
    <3>2. CASE job'[p] = job[p] /\ pc'[p] = "reread"
      BY <1>0, <2>1, <2>3, <3>2 DEF Knows, Critical, Reporting, Covered
    <3> QED BY <2>2, <3>1, <3>2
  <2>5. \A q \in Appliers \ {p} : Knows(q)'
    <3>1. \E step \in {"hosts", "reread"} : Goto(p, step)
      BY <1>10 DEF Verify
    <3>2. \A q \in Appliers \ {p} : job'[q] = job[q]
      BY <1>0, <1>10 DEF Verify
    <3> QED BY <1>0, <2>1, <3>1, <3>2, OthersKnow DEF Critical
  <2> QED BY <1>a, <2>1, <2>4, <2>5 DEF Safe, Covered, PublishedWasInstalled
<1>11. CASE Reread(p)
  <2>1. PICK ep \in {prod, job[p].cur_prod}, em \in {maint, job[p].cur_maint} :
           job' = [job EXCEPT ![p].names = names_from_kernel(ep),
                              ![p].production = ep,
                              ![p].maintenance = em]
    BY <1>11 DEF Reread
  <2>2. UNCHANGED <<prod, maint, status, lock, hosts>> /\ pc[p] = "reread" /\ pc'[p] = "hosts"
    BY <1>0, <1>11 DEF Reread, Goto
  <2>3. /\ job'[p].names = names_from_kernel(ep)
        /\ job'[p].apply_ok = job[p].apply_ok /\ job'[p].applied = job[p].applied
        /\ job'[p].answers = job[p].answers
    BY <1>0, <2>1 DEF Job
  <2>4. ep \in AddrMap /\ Covered(ep)
    BY <1>0, <1>a, <2>2 DEF Knows, IInv, TypeOK, Job
  <2>5. \A n \in Names : \A x \in job'[p].names[n].addrs : x \in DOMAIN maint' /\ n \in maint'[x]
    BY <2>2, <2>3, <2>4, NamesFromKernelType DEF previous, Covered
  <2>6. Knows(p)'
    BY <1>0, <2>2, <2>3, <2>5 DEF Knows, Critical, Reporting
  <2>7. \A q \in Appliers \ {p} : Knows(q)'
    BY <1>0, <1>11, <2>1, OthersKnow DEF Reread, Critical
  <2> QED BY <1>a, <2>2, <2>6, <2>7 DEF Safe, Covered, PublishedWasInstalled
<1>12. CASE WriteHosts(p)
  <2>1. PICK ok \in Succeeds("hosts") :
           /\ hosts' = write_atomic(ok, hosts, render(job[p].names))
           /\ job' = [job EXCEPT ![p].hosts_ok = ok]
    BY <1>12 DEF WriteHosts
  <2>2. UNCHANGED <<prod, maint, status, lock>> /\ pc[p] = "hosts" /\ pc'[p] = "mode"
    BY <1>0, <1>12 DEF WriteHosts, Goto
  <2>3. PublishedWasInstalled'
    BY <1>0, <1>a, <2>1, <2>2 DEF PublishedWasInstalled, write_atomic, render, Knows
  <2>4. job'[p] = [job[p] EXCEPT !.hosts_ok = ok]
    BY <1>0, <2>1
  <2>5. Knows(p)'
    BY <1>0, <2>2, <2>4 DEF Knows, Critical, Reporting, Describes, Job
  <2>6. \A q \in Appliers \ {p} : Knows(q)'
    BY <1>0, <1>12, <2>1, OthersKnow DEF WriteHosts, Critical
  <2> QED BY <1>a, <2>2, <2>3, <2>5, <2>6 DEF Safe, Covered
<1>13. CASE ReadMode(p)
  <2> DEFINE K == kill_set(read_mode(state_file), job[p].production, job[p].maintenance)
  <2>1. /\ UNCHANGED <<prod, maint, status, lock, hosts, state_file, flows>>
        /\ pc[p] = "mode" /\ pc'[p] = "kill"
    BY <1>0, <1>13 DEF ReadMode, Goto
  <2>2. job'[p] = [job[p] EXCEPT !.to_kill = K]
    BY <1>0, <1>13 DEF ReadMode
  <2>3. job[p].apply_ok => Forbidden' \subseteq K
    BY <1>0, <2>1 DEF Knows, Reporting, Describes, Forbidden, Allows, kill_set
  <2>4. Knows(p)'
    <3> HIDE DEF K
    <3> QED BY <1>0, <2>1, <2>2, <2>3 DEF Knows, Critical, Reporting, Describes, Job
  <2>5. \A q \in Appliers \ {p} : Knows(q)'
    BY <1>0, <1>13, OthersKnow DEF ReadMode, Critical
  <2> QED BY <1>a, <2>1, <2>4, <2>5 DEF Safe, Covered, PublishedWasInstalled
<1>14. CASE Kill(p)
  <2>1. PICK x \in job[p].to_kill, ok \in Succeeds("kill") :
           /\ flows' = IF ok THEN flows \ {x} ELSE flows
           /\ job' = [job EXCEPT ![p].to_kill = @ \ {x},
                                 ![p].kill_failed = IF ok THEN @ ELSE @ \cup {x}]
    BY <1>14 DEF Kill
  <2>2. /\ UNCHANGED <<prod, maint, status, lock, hosts, state_file>>
        /\ pc[p] = "kill" /\ pc' = pc
    BY <1>14 DEF Kill
  <2>3. job'[p] = [job[p] EXCEPT !.to_kill = @ \ {x},
                                 !.kill_failed = IF ok THEN @ ELSE @ \cup {x}]
    BY <1>0, <2>1 DEF Job
  <2>4. Forbidden' = Forbidden
    BY <2>2 DEF Forbidden, Allows
  <2>5. job[p].apply_ok =>
           flows' \cap Forbidden' \subseteq job'[p].to_kill \cup job'[p].kill_failed
    BY <1>0, <2>1, <2>2, <2>3, <2>4 DEF Knows, Job
  <2>6. Knows(p)'
    BY <1>0, <2>2, <2>3, <2>5 DEF Knows, Critical, Reporting, Describes, Job
  <2>7. \A q \in Appliers \ {p} : Knows(q)'
    BY <1>0, <2>1, <2>2, OthersKnow DEF Critical
  <2> QED BY <1>a, <2>2, <2>6, <2>7 DEF Safe, Covered, PublishedWasInstalled
<1>15. CASE Publish(p)
  <2>1. UNCHANGED <<prod, maint, hosts>> /\ Goto(p, "idle") /\ Release(p) /\ pc[p] = "kill"
    BY <1>15 DEF Publish, Leave
  <2>2. Knows(p)'
    BY <1>0, <2>1 DEF Goto, Release, Knows, Critical, Reporting
  <2>3. \A q \in Appliers \ {p} : Knows(q)'
    BY <1>0, <2>1, OthersKnow DEF Critical, Release
  <2> QED BY <1>a, <2>1, <2>2, <2>3 DEF Safe, Covered, PublishedWasInstalled
<1>16. CASE Crash(p)
  BY <1>16, ReleaseSafe DEF Crash
<1> QED
  BY <1>1, <1>2, <1>3, <1>4, <1>5, <1>6, <1>7, <1>8, <1>9, <1>10, <1>11, <1>12,
     <1>13, <1>14, <1>15, <1>16 DEF ApplyStep, Proceed

(* One step per kind of action: the runs by ApplySafe; the others leave    *)
(* what the runs know, and toggle acts only when no run is past the lock.  *)
LEMMA NextIInv ==
    ASSUME IInv, [Next]_vars
    PROVE  IInv'
<1> USE DEF kernel, files, ghosts
<1>0. TypeOK'
  BY NextType DEF IInv
<1>1. CASE \E p \in Appliers : ApplyStep(p)
  BY <1>0, <1>1, ApplySafe DEF IInv, Safe
<1>2. ASSUME UNCHANGED <<prod, maint, hosts, status, pc, job>>,
             \A q \in Appliers : pc[q] \in Critical => UNCHANGED <<lock, state_file>>,
             flows' \cap Forbidden \subseteq flows
      PROVE  IInv'
  <2>1. \A q \in Appliers : Knows(q)'
    BY <1>2, KnowsUnchanged DEF IInv
  <2> QED BY <1>0, <1>2, <2>1 DEF IInv, Covered, PublishedWasInstalled
<1>3. CASE \E r \in Resolvers : ResolveStart(r) \/ ResolveWrite(r) \/ ResolveDie(r)
  BY <1>2, <1>3 DEF ResolveStart, ResolveWrite, ResolveDie
<1>4. CASE \E a \in Global : OpenFlow(a) \/ CloseFlow(a)
  BY <1>2, <1>4 DEF OpenFlow, CloseFlow, Forbidden
<1>5. CASE ToggleAcquire
  <2>1. \A q \in Appliers : pc[q] \notin Critical
    BY <1>5, ProcessAssumption DEF ToggleAcquire, IInv, Knows
  <2> QED BY <1>2, <1>5, <2>1 DEF ToggleAcquire
<1>6. CASE ToggleRelease
  <2>1. \A q \in Appliers : pc[q] \notin Critical
    BY <1>6, ProcessAssumption DEF ToggleRelease, IInv, Knows
  <2> QED BY <1>2, <1>6, <2>1 DEF ToggleRelease
<1>7. CASE Foreign \/ Tick
  BY <1>2, <1>7 DEF Foreign, Tick
<1>8. CASE UNCHANGED vars
  BY <1>2, <1>8 DEF vars
<1> QED BY <1>1, <1>3, <1>4, <1>5, <1>6, <1>7, <1>8 DEF Next

(* The invariant that every theorem below starts from.                     *)
LEMMA Inductive == Spec => []IInv
<1>1. IInv /\ [Next]_vars => IInv'
  BY NextIInv
<1> QED BY <1>1, InitIInv, PTL DEF Spec

-----------------------------------------------------------------------------
(* The theorems.                                                           *)

(* Every variable always holds a value of its kind.                        *)
THEOREM TypeCorrect == Spec => []TypeOK
BY Inductive, PTL DEF IInv

(* The hosts file never lists an address that was not installed for that   *)
(* name, under any faults and any number of processes.                     *)
THEOREM PublishedWasInstalledThm == Spec => []PublishedWasInstalled
BY Inductive, PTL DEF IInv

(* A run that reports apply_ok describes the kernel.                       *)
THEOREM VerifiedDescribesInstalledThm == Spec => []VerifiedDescribesInstalled
<1>1. IInv => VerifiedDescribesInstalled
  BY DEF IInv, Knows, VerifiedDescribesInstalled
<1> QED BY <1>1, Inductive, PTL

(* The sweep of a verified run misses no flow that must not exist.         *)
THEOREM SweptCleanThm == Spec => []SweptClean
<1>1. IInv => SweptClean
  BY DEF IInv, Knows, SweptClean
<1> QED BY <1>1, Inductive, PTL

(* The status file changes only at the end of a run.                       *)
LEMMA OnlyPublishWrites ==
    ASSUME Next
    PROVE  status' = status \/ \E p \in Appliers : Publish(p)
<1> USE DEF files
<1>1. ASSUME NEW p \in Appliers, ApplyStep(p)
      PROVE  status' = status \/ Publish(p)
  <2>1. CASE Start(p) \/ Acquire(p) \/ LockTimeout(p) \/ Crash(p)
    BY <2>1 DEF Start, Acquire, LockTimeout, Crash
  <2>2. CASE ReadClock(p) \/ Abort(p)
    BY <2>2 DEF ReadClock, Abort
  <2>3. CASE ReadAndPlan(p)
    BY <2>3 DEF ReadAndPlan
  <2>4. CASE Unchanged(p)
    BY <2>4 DEF Unchanged
  <2>5. CASE Restore(p) \/ RestoreFails(p)
    BY <2>5 DEF Restore, RestoreFails
  <2>6. CASE Verify(p)
    BY <2>6 DEF Verify
  <2>7. CASE Reread(p)
    BY <2>7 DEF Reread
  <2>8. CASE WriteHosts(p)
    BY <2>8 DEF WriteHosts
  <2>9. CASE ReadMode(p)
    BY <2>9 DEF ReadMode
  <2>10. CASE Kill(p)
    BY <2>10 DEF Kill
  <2> QED BY <1>1, <2>1, <2>2, <2>3, <2>4, <2>5, <2>6, <2>7, <2>8, <2>9, <2>10
          DEF ApplyStep, Proceed
<1>2. ASSUME NEW r \in Resolvers, ResolveStart(r) \/ ResolveWrite(r) \/ ResolveDie(r)
      PROVE  status' = status
  BY <1>2 DEF ResolveStart, ResolveWrite, ResolveDie
<1>3. ASSUME NEW x \in Global, OpenFlow(x) \/ CloseFlow(x)
      PROVE  status' = status
  BY <1>3 DEF OpenFlow, CloseFlow
<1>4. CASE ToggleAcquire \/ ToggleRelease
  BY <1>4 DEF ToggleAcquire, ToggleRelease
<1>5. CASE Foreign \/ Tick
  BY <1>5 DEF Foreign, Tick
<1> QED BY <1>1, <1>2, <1>3, <1>4, <1>5 DEF Next

(* So the marker in it only grows.                                         *)
LEMMA MarkerGrows ==
    ASSUME IInv, [Next]_vars
    PROVE  status'.applied >= status.applied
<1>0. status.applied \in Int
  BY DEF IInv, TypeOK, Status, Time
<1>1. CASE status' = status
  BY <1>0, <1>1
<1>2. CASE status' # status
  <2> USE DEF kernel, files, ghosts
  <2>1. PICK p \in Appliers : Publish(p)
    BY <1>2, OnlyPublishWrites DEF vars
  <2>2. status'.applied = next_applied(job[p])
    BY <1>2, <2>1 DEF Publish, write_atomic, report
  <2>3. /\ job[p].applied = status.applied
        /\ job[p].answers.gen = 0 \/ job[p].answers.gen > job[p].applied
    BY <2>1 DEF Publish, IInv, Knows, Critical
  <2>4. job[p].answers.gen \in Int
    BY <2>1 DEF IInv, TypeOK, Job, Answers, Time
  <2> QED BY <1>0, <2>2, <2>3, <2>4 DEF next_applied
<1> QED BY <1>1, <1>2

(* The already-applied marker never goes back.                             *)
THEOREM MarkerMonotoneThm == Spec => MarkerMonotone
<1>1. IInv /\ [Next]_vars => [status'.applied >= status.applied]_vars
  BY MarkerGrows
<1> QED BY <1>1, Inductive, PTL DEF Spec, MarkerMonotone

-----------------------------------------------------------------------------
(* Who changes what.                                                       *)

(* Two runs are never in the critical section at once.                     *)
LEMMA Exclusion ==
    ASSUME IInv, NEW p \in Appliers, NEW q \in Appliers,
           pc[p] \in Critical, pc[q] \in Critical
    PROVE  p = q
BY DEF IInv, Knows

(* A run stands still while another one moves; and while it is in its      *)
(* critical section the other one only comes to the lock, or gives up.     *)
LEMMA OthersStand ==
    ASSUME IInv, NEW p \in Appliers, ApplyStep(p), NEW q \in Appliers, q # p
    PROVE  /\ pc'[q] = pc[q] /\ job'[q] = job[q]
           /\ pc[q] \in Critical =>
                 UNCHANGED <<prod, maint, dirty, flows, hosts, status, state_file, lock, landed, installed>>
<1> USE DEF kernel, files, ghosts
<1>0. pc \in [Appliers -> Steps] /\ job \in [Appliers -> Job]
  BY DEF IInv, TypeOK
<1>1. CASE Start(p)
  BY <1>0, <1>1 DEF Start, Goto
<1>2. CASE Acquire(p)
  BY <1>0, <1>2, ProcessAssumption DEF Acquire, Goto, IInv, Knows
<1>3. CASE LockTimeout(p)
  BY <1>0, <1>3 DEF LockTimeout, Leave, Release, Goto, IInv, Knows
<1>4. CASE Crash(p)
  BY <1>0, <1>4 DEF Crash, Release, Goto, IInv, Knows
<1>5. CASE pc[p] \in Critical /\ Proceed(p)
  <2>1. pc[q] \notin Critical
    BY <1>5, Exclusion
  <2>2. CASE ReadClock(p)
    BY <1>0, <2>1, <2>2 DEF ReadClock, Goto
  <2>3. CASE Abort(p)
    BY <1>0, <2>1, <2>3 DEF Abort, Leave, Release, Goto
  <2>4. CASE ReadAndPlan(p)
    BY <1>0, <2>1, <2>4 DEF ReadAndPlan, Goto
  <2>5. CASE Unchanged(p)
    BY <1>0, <2>1, <2>5 DEF Unchanged, Goto
  <2>6. CASE Restore(p) \/ RestoreFails(p)
    BY <1>0, <2>1, <2>6 DEF Restore, RestoreFails, Goto
  <2>7. CASE Verify(p)
    BY <1>0, <2>1, <2>7 DEF Verify, Goto
  <2>8. CASE Reread(p)
    BY <1>0, <2>1, <2>8 DEF Reread, Goto
  <2>9. CASE WriteHosts(p)
    BY <1>0, <2>1, <2>9 DEF WriteHosts, Goto
  <2>10. CASE ReadMode(p)
    BY <1>0, <2>1, <2>10 DEF ReadMode, Goto
  <2>11. CASE Kill(p)
    BY <1>0, <2>1, <2>11 DEF Kill, Goto
  <2>12. CASE Publish(p)
    BY <1>0, <2>1, <2>12 DEF Publish, Leave, Release, Goto
  <2> QED BY <1>5, <2>2, <2>3, <2>4, <2>5, <2>6, <2>7, <2>8, <2>9, <2>10, <2>11, <2>12
          DEF Proceed
<1>6. Proceed(p) => pc[p] \in Critical
  BY DEF Proceed, ReadClock, Abort, ReadAndPlan, Unchanged, Restore, RestoreFails,
         Verify, Reread, WriteHosts, ReadMode, Kill, Publish, Critical
<1> QED BY <1>1, <1>2, <1>3, <1>4, <1>5, <1>6 DEF ApplyStep

(* Outside the apply runs only the answers, the flows, the lock, the mode, *)
(* the clock and foreign rules move.                                       *)
LEMMA Elsewhere ==
    ASSUME [Next]_vars, ~ \E p \in Appliers : ApplyStep(p)
    PROVE  /\ UNCHANGED <<prod, maint, hosts, status, pc, job, landed, installed>>
           /\ "foreign" \in Faults \/ dirty' = dirty
<1> USE DEF kernel, files, ghosts
<1>1. CASE \E r \in Resolvers : ResolveStart(r) \/ ResolveWrite(r) \/ ResolveDie(r)
  BY <1>1 DEF ResolveStart, ResolveWrite, ResolveDie
<1>2. CASE \E a \in Global : OpenFlow(a) \/ CloseFlow(a)
  BY <1>2 DEF OpenFlow, CloseFlow
<1>3. CASE ToggleAcquire \/ ToggleRelease
  BY <1>3 DEF ToggleAcquire, ToggleRelease
<1>4. CASE Foreign \/ Tick
  BY <1>4 DEF Foreign, Tick
<1>5. CASE UNCHANGED vars
  BY <1>5 DEF vars
<1> QED BY <1>1, <1>2, <1>3, <1>4, <1>5 DEF Next

(* Answers land, and the chains change, only at the firewall step, and     *)
(* then it is the whole plan that lands.                                   *)
LEMMA OnlyPlansLand ==
    ASSUME IInv, [Next]_vars
    PROVE  \/ UNCHANGED <<prod, maint, landed, installed>>
           \/ \E p \in Appliers : /\ pc[p] = "firewall" /\ Land(job[p])
                                  /\ prod' = job[p].production /\ maint' = job[p].maintenance
<1> USE DEF kernel, files, ghosts
<1> DEFINE Lands(p) == /\ pc[p] = "firewall" /\ Land(job[p])
                       /\ prod' = job[p].production /\ maint' = job[p].maintenance
<1>1. ASSUME NEW p \in Appliers, ApplyStep(p)
      PROVE  UNCHANGED <<prod, maint, landed, installed>> \/ Lands(p)
  <2>1. CASE Start(p) \/ Acquire(p) \/ LockTimeout(p) \/ Crash(p)
    BY <2>1 DEF Start, Acquire, LockTimeout, Crash
  <2>2. CASE ReadClock(p) \/ Abort(p) \/ ReadAndPlan(p)
    BY <2>2 DEF ReadClock, Abort, ReadAndPlan
  <2>3. CASE Unchanged(p)
    <3>1. Planned(job[p])
      BY <2>3 DEF Unchanged, IInv, Knows
    <3> QED BY <2>3, <3>1 DEF Unchanged, Planned, InSync
  <2>4. CASE Restore(p) \/ RestoreFails(p)
    BY <2>4 DEF Restore, RestoreFails, Commit
  <2>5. CASE Verify(p) \/ Reread(p)
    BY <2>5 DEF Verify, Reread
  <2>6. CASE WriteHosts(p) \/ ReadMode(p)
    BY <2>6 DEF WriteHosts, ReadMode
  <2>7. CASE Kill(p) \/ Publish(p)
    BY <2>7 DEF Kill, Publish
  <2> QED BY <1>1, <2>1, <2>2, <2>3, <2>4, <2>5, <2>6, <2>7 DEF ApplyStep, Proceed
<1>2. CASE ~ \E p \in Appliers : ApplyStep(p)
  BY <1>2, Elsewhere
<1> QED BY <1>1, <1>2

-----------------------------------------------------------------------------
(* Freshness.                                                              *)

(* What a run has installed, or found installed, and may book.             *)
Installing(p) == \/ pc[p] = "verify"
                 \/ pc[p] \in Reporting /\ job[p].apply_ok

(* A name is called fresh or empty only by a run whose answers landed.     *)
Booked(p) ==
    /\ pc[p] \in Critical \ {"clock"} => job[p].last_fresh = status.last_fresh
    /\ Installing(p) => \A n \in Names : BroughtBy(job[p].names, landed, n)
    /\ pc[p] \in Reporting /\ ~job[p].apply_ok =>
          \A n \in Names : job[p].names[n].source \notin {"fresh", "empty"}

Bookkeeping == \A p \in Appliers : Booked(p)

(* A commit installs the fresh answers of its plan.                        *)
LEMMA PlannedBrings ==
    ASSUME IInv, NEW p \in Appliers, pc[p] = "firewall", Land(job[p])
    PROVE  \A n \in Names : BroughtBy(job[p].names, landed', n)
<1>1. Planned(job[p])
  BY DEF IInv, Knows
<1> QED BY <1>1, PlanBrings DEF Planned, Land

(* One step for the acting run, one for the others, one for everything     *)
(* that is no run.                                                         *)
LEMMA BookkeepingInductive == Spec => []Bookkeeping
<1>1. Init => Bookkeeping
  BY DEF Init, Bookkeeping, Booked, Installing, Critical, Reporting
<1>2. IInv /\ Bookkeeping /\ [Next]_vars => Bookkeeping'
  <2> SUFFICES ASSUME IInv, Bookkeeping, [Next]_vars PROVE Bookkeeping'
    OBVIOUS
  <2> USE DEF kernel, files, ghosts
  <2>0. pc \in [Appliers -> Steps] /\ job \in [Appliers -> Job]
    BY DEF IInv, TypeOK
  <2>1. ASSUME NEW p \in Appliers, ApplyStep(p) PROVE Booked(p)'
    <3>0. job[p] \in Job /\ Booked(p)
      BY <2>0 DEF Bookkeeping
    <3>1. CASE Start(p) \/ LockTimeout(p) \/ Crash(p) \/ Abort(p) \/ Publish(p)
      <4>1. pc'[p] \in {"idle", "lock", "killed"}
        BY <2>0, <3>1 DEF Start, LockTimeout, Crash, Abort, Publish, Leave, Goto
      <4> QED BY <4>1 DEF Booked, Installing, Critical, Reporting
    <3>2. CASE Acquire(p)
      BY <2>0, <3>2 DEF Acquire, Goto, Booked, Installing, Critical, Reporting
    <3>3. CASE ReadClock(p)
      BY <2>0, <3>0, <3>3 DEF ReadClock, Goto, Booked, Installing, Critical, Reporting, Job
    <3>4. CASE ReadAndPlan(p)
      <4>1. pc[p] = "plan" /\ pc'[p] = "firewall" /\ status' = status
        BY <2>0, <3>4 DEF ReadAndPlan, Goto
      <4>2. job'[p].last_fresh = job[p].last_fresh
        BY <2>0, <3>0, <3>4 DEF ReadAndPlan, Job
      <4> QED BY <3>0, <4>1, <4>2 DEF Booked, Installing, Critical, Reporting
    <3>5. CASE Unchanged(p)
      <4>1. /\ pc[p] = "firewall" /\ pc'[p] = "hosts" /\ status' = status /\ Land(job[p])
            /\ job'[p] = [job[p] EXCEPT !.apply_ok = TRUE]
        BY <2>0, <3>5 DEF Unchanged, Goto
      <4>2. job'[p].apply_ok /\ job'[p].names = job[p].names
            /\ job'[p].last_fresh = job[p].last_fresh
        BY <3>0, <4>1 DEF Job
      <4>3. \A n \in Names : BroughtBy(job[p].names, landed', n)
        BY <4>1, PlannedBrings
      <4> QED BY <3>0, <4>1, <4>2, <4>3 DEF Booked, Installing, Critical, Reporting, BroughtBy
    <3>6. CASE Restore(p)
      <4>1. /\ pc[p] = "firewall" /\ pc'[p] = "verify" /\ status' = status /\ Land(job[p])
            /\ job'[p] = job[p]
        BY <2>0, <3>6 DEF Restore, Goto, Commit
      <4>2. \A n \in Names : BroughtBy(job[p].names, landed', n)
        BY <4>1, PlannedBrings
      <4> QED BY <3>0, <4>1, <4>2 DEF Booked, Installing, Critical, Reporting, BroughtBy
    <3>7. CASE RestoreFails(p)
      BY <2>0, <3>0, <3>7 DEF RestoreFails, Goto, Booked, Installing, Critical, Reporting
    <3>8. CASE Verify(p)
      <4>1. pc[p] = "verify" /\ pc'[p] \in {"hosts", "reread"} /\ UNCHANGED <<status, landed>>
        BY <2>0, <3>8 DEF Verify, Goto
      <4>2. /\ pc'[p] = "hosts" => job'[p].apply_ok
            /\ job'[p].names = job[p].names /\ job'[p].last_fresh = job[p].last_fresh
        BY <2>0, <3>0, <3>8 DEF Verify, Goto, Job
      <4> QED BY <3>0, <4>1, <4>2 DEF Booked, Installing, Critical, Reporting, BroughtBy
    <3>9. CASE Reread(p)
      <4>1. PICK ep : job'[p].names = names_from_kernel(ep)
        BY <2>0, <3>0, <3>9 DEF Reread, Job
      <4>2. /\ pc[p] = "reread" /\ pc'[p] = "hosts" /\ status' = status
            /\ job'[p].last_fresh = job[p].last_fresh /\ job'[p].apply_ok = job[p].apply_ok
        BY <2>0, <3>0, <3>9 DEF Reread, Goto, Job
      <4>3. ~job[p].apply_ok
        BY <4>2 DEF IInv, Knows, Critical, Reporting
      <4> QED BY <3>0, <4>1, <4>2, <4>3, KernelIsNotFresh
              DEF Booked, Installing, Critical, Reporting
    <3>10. CASE WriteHosts(p) \/ ReadMode(p) \/ Kill(p)
      <4>1. pc[p] \in Reporting /\ pc'[p] \in Reporting /\ UNCHANGED <<status, landed>>
        <5>1. CASE WriteHosts(p)
          BY <2>0, <5>1 DEF WriteHosts, Goto, Reporting
        <5>2. CASE ReadMode(p)
          BY <2>0, <5>2 DEF ReadMode, Goto, Reporting
        <5>3. CASE Kill(p)
          BY <2>0, <5>3 DEF Kill, Reporting
        <5> QED BY <3>10, <5>1, <5>2, <5>3
      <4>2. /\ job'[p].names = job[p].names /\ job'[p].apply_ok = job[p].apply_ok
            /\ job'[p].last_fresh = job[p].last_fresh
        <5>1. CASE WriteHosts(p)
          BY <2>0, <3>0, <5>1 DEF WriteHosts, Job
        <5>2. CASE ReadMode(p)
          BY <2>0, <3>0, <5>2 DEF ReadMode, Job
        <5>3. CASE Kill(p)
          BY <2>0, <3>0, <5>3 DEF Kill, Job
        <5> QED BY <3>10, <5>1, <5>2, <5>3
      <4> QED BY <3>0, <4>1, <4>2 DEF Booked, Installing, Critical, Reporting, BroughtBy
    <3> QED BY <2>1, <3>1, <3>2, <3>3, <3>4, <3>5, <3>6, <3>7, <3>8, <3>9, <3>10
            DEF ApplyStep, Proceed
  <2>2. ASSUME NEW p \in Appliers, ApplyStep(p), NEW q \in Appliers, q # p PROVE Booked(q)'
    BY <2>2, OthersStand DEF Bookkeeping, Booked, Installing, Critical, Reporting, BroughtBy
  <2>3. CASE ~ \E p \in Appliers : ApplyStep(p)
    BY <2>3, Elsewhere DEF Bookkeeping, Booked, Installing, BroughtBy
  <2> QED BY <2>1, <2>2, <2>3 DEF Bookkeeping
<1> QED BY <1>1, <1>2, Inductive, PTL DEF Spec

(* A name's last_fresh time moves only with its answer in the chain, under *)
(* any faults.                                                             *)
THEOREM FreshMeansInstalledThm == Spec => FreshMeansInstalled
<1> DEFINE Moves == \A n \in Names : status'.last_fresh[n] # status.last_fresh[n] =>
                       /\ status'.apply_ok
                       /\ \/ Usable(landed, n) /\ previous(prod, n) = landed[n].addrs
                          \/ Cleared(landed, n) /\ previous(prod, n) = {}
<1>1. IInv /\ Bookkeeping /\ [Next]_vars => [Moves]_vars
  <2> SUFFICES ASSUME IInv, Bookkeeping, Next, NEW n \in Names,
                      status'.last_fresh[n] # status.last_fresh[n]
               PROVE  /\ status'.apply_ok
                      /\ \/ Usable(landed, n) /\ previous(prod, n) = landed[n].addrs
                         \/ Cleared(landed, n) /\ previous(prod, n) = {}
    OBVIOUS
  <2>1. PICK p \in Appliers : Publish(p)
    BY OnlyPublishWrites
  <2>2. pc[p] = "kill" /\ job[p].last_fresh = status.last_fresh
    BY <2>1 DEF Publish, Bookkeeping, Booked, Critical
  <2>3. /\ status'.apply_ok = job[p].apply_ok
        /\ job[p].names[n].source \in {"fresh", "empty"}
    BY <2>1, <2>2 DEF Publish, write_atomic, report
  <2>4. job[p].apply_ok
    BY <2>2, <2>3 DEF Bookkeeping, Booked, Reporting
  <2>5. BroughtBy(job[p].names, landed, n)
    BY <2>2, <2>4 DEF Bookkeeping, Booked, Installing, Reporting
  <2>6. job[p].names[n].addrs = previous(prod, n)
    BY <2>2, <2>4 DEF IInv, Knows, Reporting, Describes
  <2> QED BY <2>3, <2>4, <2>5, <2>6 DEF BroughtBy
<1> QED BY <1>1, Inductive, BookkeepingInductive, PTL DEF Spec, FreshMeansInstalled

-----------------------------------------------------------------------------
(* What holds when some of the faults are ruled out.                       *)

(* An operation whose fault is ruled out does not fail.                    *)
LEMMA NeverFails ==
    ASSUME NEW f, f \notin Faults
    PROVE  \A ok \in Succeeds(f) : ok = TRUE
BY DEF Succeeds

(* While both chains can be listed, a run describes what is installed      *)
(* after a failed update too, whatever else fails.                         *)
THEOREM DescribesInstalledThm ==
    ASSUME "read" \notin Faults
    PROVE  Spec => []DescribesInstalled
<1>1. Init => DescribesInstalled
  BY DEF Init, DescribesInstalled, Reporting
<1>2. IInv /\ DescribesInstalled /\ [Next]_vars => DescribesInstalled'
  <2> SUFFICES ASSUME IInv, DescribesInstalled, [Next]_vars PROVE DescribesInstalled'
    OBVIOUS
  <2> USE DEF kernel, files, ghosts
  <2>0. pc \in [Appliers -> Steps] /\ job \in [Appliers -> Job] /\ prod \in AddrMap
    BY DEF IInv, TypeOK
  <2>1. ASSUME NEW p \in Appliers, ApplyStep(p), pc'[p] \in Reporting
        PROVE  Describes(job[p])'
    <3>0. job[p] \in Job
      BY <2>0
    <3>1. CASE job'[p].apply_ok
      <4>1. IInv'
        BY NextIInv
      <4> QED BY <2>1, <3>1, <4>1 DEF IInv, Knows
    <3>2. CASE Reread(p)
      <4>1. /\ job'[p].names = names_from_kernel(prod)
            /\ job'[p].production = prod /\ job'[p].maintenance = maint
        <5>1. \A ok \in Succeeds("read") : ok = TRUE
          BY NeverFails
        <5>2. job' = [job EXCEPT ![p].names = names_from_kernel(prod),
                                 ![p].production = prod,
                                 ![p].maintenance = maint]
          BY <3>2, <5>1 DEF Reread
        <5> QED BY <2>0, <3>0, <5>2 DEF Job
      <4>2. prod' = prod /\ maint' = maint
        BY <3>2 DEF Reread
      <4> QED BY <2>0, <4>1, <4>2, NamesFromKernelType DEF Describes
    <3>3. CASE WriteHosts(p) \/ ReadMode(p) \/ Kill(p)
      <4>1. pc[p] \in Reporting /\ prod' = prod /\ maint' = maint
        BY <3>3 DEF WriteHosts, ReadMode, Kill, Reporting
      <4>2. /\ job'[p].names = job[p].names /\ job'[p].production = job[p].production
            /\ job'[p].maintenance = job[p].maintenance
        <5>1. CASE WriteHosts(p)
          BY <2>0, <3>0, <5>1 DEF WriteHosts, Job
        <5>2. CASE ReadMode(p)
          BY <2>0, <3>0, <5>2 DEF ReadMode, Job
        <5>3. CASE Kill(p)
          BY <2>0, <3>0, <5>3 DEF Kill, Job
        <5> QED BY <3>3, <5>1, <5>2, <5>3
      <4> QED BY <4>1, <4>2 DEF DescribesInstalled, Describes
    <3>4. CASE Unchanged(p) \/ Verify(p)
      <4>1. job'[p].apply_ok
        <5>1. CASE Unchanged(p)
          BY <2>0, <3>0, <5>1 DEF Unchanged, Job
        <5>2. CASE Verify(p)
          BY <2>0, <2>1, <3>0, <5>2 DEF Verify, Goto, Reporting, Job
        <5> QED BY <3>4, <5>1, <5>2
      <4> QED BY <3>1, <4>1
    <3>5. CASE Start(p) \/ LockTimeout(p) \/ Crash(p) \/ Abort(p) \/ Publish(p)
      BY <2>0, <2>1, <3>5 DEF Start, LockTimeout, Crash, Abort, Publish, Leave, Goto, Reporting
    <3>6. CASE Acquire(p) \/ ReadClock(p) \/ ReadAndPlan(p) \/ Restore(p) \/ RestoreFails(p)
      BY <2>0, <2>1, <3>6 DEF Acquire, ReadClock, ReadAndPlan, Restore, RestoreFails, Goto, Reporting
    <3> QED BY <2>1, <3>2, <3>3, <3>4, <3>5, <3>6 DEF ApplyStep, Proceed
  <2>2. ASSUME NEW p \in Appliers, ApplyStep(p), NEW q \in Appliers, q # p, pc'[q] \in Reporting
        PROVE  Describes(job[q])'
    <3>1. /\ pc'[q] = pc[q] /\ job'[q] = job[q] /\ pc[q] \in Critical
          /\ prod' = prod /\ maint' = maint
      BY <2>2, OthersStand DEF Critical, Reporting
    <3> QED BY <2>2, <3>1 DEF DescribesInstalled, Describes
  <2>3. CASE ~ \E p \in Appliers : ApplyStep(p)
    BY <2>3, Elsewhere DEF DescribesInstalled, Describes
  <2> QED BY <2>1, <2>2, <2>3 DEF DescribesInstalled
<1> QED BY <1>1, <1>2, Inductive, PTL DEF Spec

(* While the marker has caught up with the kernel no older answers land:   *)
(* a rollback needs a marker that was lost on the way.                     *)
LEMMA MarkerGuards ==
    ASSUME IInv, Next, installed <= status.applied
    PROVE  installed' >= installed
<1> USE DEF ghosts
<1>0. installed \in Int /\ status.applied \in Int
  BY DEF IInv, TypeOK, Status, Time
<1>1. CASE \E p \in Appliers : pc[p] = "firewall" /\ Land(job[p])
  <2> PICK p \in Appliers : pc[p] = "firewall" /\ Land(job[p])
    BY <1>1
  <2>1. job[p].answers.gen = 0 \/ job[p].answers.gen > status.applied
    BY DEF IInv, Knows, Critical
  <2>2. job[p].answers.gen \in Int
    BY DEF IInv, TypeOK, Job, Answers, Time
  <2> QED BY <1>0, <2>1, <2>2 DEF Land
<1>2. CASE UNCHANGED installed
  BY <1>0, <1>2
<1> QED BY <1>1, <1>2, OnlyPlansLand

(* Only a foreign rule makes a chain ambiguous.                            *)
LEMMA StaysClean ==
    ASSUME "foreign" \notin Faults, ~dirty, [Next]_vars
    PROVE  ~dirty'
<1> USE DEF kernel, files, ghosts
<1>1. ASSUME NEW p \in Appliers, ApplyStep(p) PROVE ~dirty'
  <2>1. CASE Start(p) \/ Acquire(p) \/ LockTimeout(p) \/ Crash(p)
    BY <2>1 DEF Start, Acquire, LockTimeout, Crash
  <2>2. CASE ReadClock(p) \/ Abort(p) \/ ReadAndPlan(p)
    BY <2>2 DEF ReadClock, Abort, ReadAndPlan
  <2>3. CASE Unchanged(p) \/ Restore(p) \/ RestoreFails(p)
    BY <2>3 DEF Unchanged, Restore, RestoreFails, Commit
  <2>4. CASE Verify(p) \/ Reread(p)
    BY <2>4 DEF Verify, Reread
  <2>5. CASE WriteHosts(p) \/ ReadMode(p)
    BY <2>5 DEF WriteHosts, ReadMode
  <2>6. CASE Kill(p) \/ Publish(p)
    BY <2>6 DEF Kill, Publish
  <2> QED BY <1>1, <2>1, <2>2, <2>3, <2>4, <2>5, <2>6 DEF ApplyStep, Proceed
<1>2. CASE ~ \E p \in Appliers : ApplyStep(p)
  BY <1>2, Elsewhere
<1> QED BY <1>1, <1>2

(* The marker lags behind the kernel only while the run that installed the *)
(* newer answers is still on its way to record them.                       *)
Marked == /\ ~dirty
          /\ \/ installed <= status.applied
             \/ \E p \in Appliers : Installing(p) /\ job[p].answers.gen = installed

(* No run is killed between its commit and its status, no commit goes      *)
(* unnoticed, no status is lost.                                           *)
LEMMA MarkedInductive ==
    ASSUME Faults \cap {"crash", "read", "late", "foreign", "status"} = {}
    PROVE  Spec => []Marked
<1>1. Init => Marked
  BY TimeAssumption DEF Init, Marked, NoStatus
<1>2. IInv /\ Marked /\ [Next]_vars => Marked'
  <2> SUFFICES ASSUME IInv, Marked, [Next]_vars PROVE Marked'
    OBVIOUS
  <2> USE DEF kernel, files, ghosts
  <2>0. /\ pc \in [Appliers -> Steps] /\ job \in [Appliers -> Job]
        /\ installed \in Int /\ status.applied \in Int /\ status.applied >= 0
    BY DEF IInv, TypeOK, Status, Time
  <2>1. ~dirty'
    BY StaysClean DEF Marked
  <2>2. CASE installed <= status.applied /\ UNCHANGED installed
    <3>1. IInv'
      BY NextIInv
    <3>2. status'.applied \in Int
      BY <3>1 DEF IInv, TypeOK, Status, Time
    <3> QED BY <2>0, <2>1, <2>2, <3>2, MarkerGrows DEF Marked
  <2>3. CASE ~UNCHANGED installed
    <3>1. PICK p \in Appliers : ApplyStep(p)
      BY <2>3, Elsewhere
    <3>2. Unchanged(p) \/ Restore(p)
      <4>1. CASE Start(p) \/ Acquire(p) \/ LockTimeout(p) \/ Crash(p)
        BY <2>3, <4>1 DEF Start, Acquire, LockTimeout, Crash
      <4>2. CASE ReadClock(p) \/ Abort(p) \/ ReadAndPlan(p)
        BY <2>3, <4>2 DEF ReadClock, Abort, ReadAndPlan
      <4>3. CASE RestoreFails(p)
        BY <2>3, <4>3 DEF RestoreFails
      <4>4. CASE Verify(p) \/ Reread(p)
        BY <2>3, <4>4 DEF Verify, Reread
      <4>5. CASE WriteHosts(p) \/ ReadMode(p)
        BY <2>3, <4>5 DEF WriteHosts, ReadMode
      <4>6. CASE Kill(p) \/ Publish(p)
        BY <2>3, <4>6 DEF Kill, Publish
      <4> QED BY <3>1, <4>1, <4>2, <4>3, <4>4, <4>5, <4>6 DEF ApplyStep, Proceed
    <3>3. installed' = job[p].answers.gen
      BY <2>3, <3>2 DEF Unchanged, Restore, Commit, Land
    <3>4. Installing(p)' /\ job'[p].answers = job[p].answers
      <4>1. CASE Unchanged(p)
        BY <2>0, <4>1 DEF Unchanged, Goto, Installing, Reporting, Job
      <4>2. CASE Restore(p)
        BY <2>0, <4>2 DEF Restore, Goto, Installing
      <4> QED BY <3>2, <4>1, <4>2
    <3> QED BY <2>1, <3>3, <3>4 DEF Marked
  <2>4. ASSUME NEW q \in Appliers, Installing(q), job[q].answers.gen = installed,
               UNCHANGED installed
        PROVE  Marked'
    <3>0. pc[q] \in Critical /\ job[q] \in Job
      BY <2>0, <2>4 DEF Installing, Critical, Reporting
    <3>1. CASE ~ \E p \in Appliers : ApplyStep(p)
      BY <2>1, <2>4, <3>1, Elsewhere DEF Marked, Installing
    <3>2. ASSUME NEW p \in Appliers, p # q, ApplyStep(p)
          PROVE  Marked'
      BY <2>1, <2>4, <3>0, <3>2, OthersStand DEF Marked, Installing
    <3>3. CASE Verify(q)
      <4>1. Verified(job[q])
        BY <3>3 DEF Verify, IInv, Knows, Describes, Verified, Marked
      <4>2. job' = [job EXCEPT ![q].apply_ok = TRUE] /\ pc'[q] = "hosts"
        BY <2>0, <3>3, <4>1 DEF Verify, Succeeds, Goto
      <4>3. Installing(q)' /\ job'[q].answers = job[q].answers
        BY <2>0, <3>0, <4>2 DEF Installing, Reporting, Job
      <4> QED BY <2>1, <2>4, <4>3 DEF Marked
    <3>4. CASE WriteHosts(q) \/ ReadMode(q) \/ Kill(q)
      <4>1. /\ job'[q].answers = job[q].answers /\ job'[q].apply_ok = job[q].apply_ok
            /\ pc[q] \in Reporting /\ pc'[q] \in Reporting
        <5>1. CASE WriteHosts(q)
          BY <2>0, <3>0, <5>1 DEF WriteHosts, Goto, Reporting, Job
        <5>2. CASE ReadMode(q)
          BY <2>0, <3>0, <5>2 DEF ReadMode, Goto, Reporting, Job
        <5>3. CASE Kill(q)
          BY <2>0, <3>0, <5>3 DEF Kill, Reporting, Job
        <5> QED BY <3>4, <5>1, <5>2, <5>3
      <4> QED BY <2>1, <2>4, <4>1 DEF Marked, Installing, Reporting
    <3>5. CASE Publish(q)
      <4>1. job[q].apply_ok /\ job[q].applied = status.applied
        BY <2>4, <3>5 DEF Publish, Installing, IInv, Knows, Critical
      <4>2. status'.applied = next_applied(job[q])
        <5>1. \A ok \in Succeeds("status") : ok = TRUE
          BY NeverFails
        <5> QED BY <3>5, <5>1 DEF Publish, write_atomic, report
      <4> QED BY <2>0, <2>1, <2>4, <4>1, <4>2 DEF next_applied, Marked
    <3>6. ApplyStep(q) => Verify(q) \/ WriteHosts(q) \/ ReadMode(q) \/ Kill(q) \/ Publish(q)
      BY <2>4 DEF ApplyStep, Proceed, Installing, Reporting, Start, Acquire, LockTimeout, Crash,
         ReadClock, Abort, ReadAndPlan, Unchanged, Restore, RestoreFails, Reread,
         IInv, Knows, Critical
    <3> QED BY <3>1, <3>2, <3>3, <3>4, <3>5, <3>6
  <2> QED BY <2>2, <2>3, <2>4 DEF Marked
<1> QED BY <1>1, <1>2, Inductive, PTL DEF Spec

(* Answers older than those in the kernel never land while nobody is       *)
(* killed, every update that went through is verified and the status file  *)
(* is written.                                                             *)
THEOREM NoRollbackThm ==
    ASSUME Faults \cap {"crash", "read", "late", "foreign", "status"} = {}
    PROVE  Spec => NoRollback
<1>1. IInv /\ Marked /\ [Next]_vars => [installed' >= installed]_vars
  <2> SUFFICES ASSUME IInv, Marked, Next PROVE installed' >= installed
    OBVIOUS
  <2>0. installed \in Int
    BY DEF IInv, TypeOK, Time
  <2>1. CASE installed <= status.applied
    BY <2>1, MarkerGuards
  <2>2. ASSUME NEW p \in Appliers, Installing(p) PROVE UNCHANGED installed
    <3>1. \A q \in Appliers : pc[q] # "firewall"
      BY <2>2, Exclusion DEF Installing, Reporting, Critical
    <3> QED BY <3>1, OnlyPlansLand
  <2> QED BY <2>0, <2>1, <2>2 DEF Marked
<1> QED BY <1>1, Inductive, MarkedInductive, PTL DEF Spec, NoRollback

-----------------------------------------------------------------------------
(* Between the runs.                                                       *)

(* A run that has begun to change the box has not put all of it in step    *)
(* yet; Quiet says that no run is so far.                                  *)
Touching == {"verify", "reread", "hosts", "mode", "kill"}
Quiet == \A p \in Appliers : pc[p] \notin Touching

(* Steps that come before a run's first change.                            *)
LEMMA EarlySteps ==
    ASSUME IInv, NEW p \in Appliers,
           Start(p) \/ Acquire(p) \/ LockTimeout(p) \/ ReadClock(p) \/ Abort(p) \/ ReadAndPlan(p)
    PROVE  /\ UNCHANGED <<prod, maint, flows, hosts, status, state_file>>
           /\ pc[p] \notin Touching /\ pc'[p] \notin Touching
           /\ \A q \in Appliers \ {p} : pc'[q] = pc[q] /\ job'[q] = job[q]
<1> USE DEF kernel, files, ghosts
<1>0. pc \in [Appliers -> Steps] /\ job \in [Appliers -> Job]
  BY DEF IInv, TypeOK
<1>1. CASE Start(p) \/ Acquire(p)
  BY <1>0, <1>1 DEF Start, Acquire, Goto, Touching
<1>2. CASE LockTimeout(p) \/ Abort(p)
  BY <1>0, <1>2 DEF LockTimeout, Abort, Leave, Release, Goto, Touching
<1>3. CASE ReadClock(p)
  BY <1>0, <1>3 DEF ReadClock, Goto, Touching
<1>4. CASE ReadAndPlan(p)
  BY <1>0, <1>4 DEF ReadAndPlan, Goto, Touching
<1> QED BY <1>1, <1>2, <1>3, <1>4

(* Steps after which hosts file and sweep are still to come.               *)
LEMMA MiddleSteps ==
    ASSUME IInv, NEW p \in Appliers,
           Unchanged(p) \/ Restore(p) \/ RestoreFails(p) \/ Verify(p) \/ Reread(p)
    PROVE  pc[p] \in Critical /\ pc'[p] \in {"verify", "reread", "hosts"}
<1>0. pc \in [Appliers -> Steps]
  BY DEF IInv, TypeOK
<1>1. CASE Unchanged(p) \/ Restore(p) \/ RestoreFails(p)
  BY <1>0, <1>1 DEF Unchanged, Restore, RestoreFails, Goto, Critical
<1>2. CASE Verify(p) \/ Reread(p)
  BY <1>0, <1>2 DEF Verify, Reread, Goto, Critical
<1> QED BY <1>1, <1>2

(* Nobody but toggle, with the lock in its hand, changes the mode; and the *)
(* container opens no flow that is forbidden.                              *)
LEMMA EnvironmentKeeps ==
    ASSUME IInv, [Next]_vars, ~ \E p \in Appliers : ApplyStep(p), ~ToggleRelease
    PROVE  /\ state_file' = state_file /\ Forbidden' = Forbidden
           /\ flows' \cap Forbidden \subseteq flows
<1> USE DEF kernel, files, ghosts
<1>1. prod' = prod /\ maint' = maint
  BY Elsewhere
<1>2. state_file' = state_file /\ flows' \cap Forbidden \subseteq flows
  <2>1. CASE \E r \in Resolvers : ResolveStart(r) \/ ResolveWrite(r) \/ ResolveDie(r)
    BY <2>1 DEF ResolveStart, ResolveWrite, ResolveDie
  <2>2. CASE \E a \in Global : OpenFlow(a) \/ CloseFlow(a)
    BY <2>2 DEF OpenFlow, CloseFlow, Forbidden
  <2>3. CASE ToggleAcquire \/ Foreign \/ Tick \/ UNCHANGED vars
    BY <2>3 DEF ToggleAcquire, Foreign, Tick, vars
  <2> QED BY <2>1, <2>2, <2>3 DEF Next
<1> QED BY <1>1, <1>2 DEF Forbidden, Allows

(* Only toggle writes the mode.                                            *)
LEMMA ModeIsToggles ==
    ASSUME NEW p \in Appliers, ApplyStep(p)
    PROVE  state_file' = state_file
<1> USE DEF files
<1>1. CASE Start(p) \/ Acquire(p) \/ LockTimeout(p) \/ Crash(p)
  BY <1>1 DEF Start, Acquire, LockTimeout, Crash
<1>2. CASE ReadClock(p) \/ Abort(p) \/ ReadAndPlan(p)
  BY <1>2 DEF ReadClock, Abort, ReadAndPlan
<1>3. CASE Unchanged(p) \/ Restore(p) \/ RestoreFails(p)
  BY <1>3 DEF Unchanged, Restore, RestoreFails
<1>4. CASE Verify(p) \/ Reread(p)
  BY <1>4 DEF Verify, Reread
<1>5. CASE WriteHosts(p) \/ ReadMode(p)
  BY <1>5 DEF WriteHosts, ReadMode
<1>6. CASE Kill(p) \/ Publish(p)
  BY <1>6 DEF Kill, Publish
<1> QED BY <1>1, <1>2, <1>3, <1>4, <1>5, <1>6 DEF ApplyStep, Proceed

(* With the lock free, or toggle's, no run is past lock_exclusive.         *)
LEMMA ToggleAlone ==
    ASSUME IInv, lock \in {Free, Toggle}
    PROVE  \A p \in Appliers : pc[p] \notin Critical
BY ProcessAssumption DEF IInv, Knows

Consistent == /\ \A n \in Names : hosts[n] = previous(prod, n)
              /\ flows \cap Forbidden = {}

(* What a run that suffers no fault has restored of Consistent so far.     *)
Restored(p) ==
    /\ pc[p] \in {"mode", "kill"} => \A n \in Names : hosts[n] = previous(prod, n)
    /\ pc[p] = "kill" => flows \cap Forbidden \subseteq job[p].to_kill

Restoring == (Quiet => Consistent) /\ \A p \in Appliers : Restored(p)

(* Work that the holder of the lock has left is done by its later steps.   *)
LEMMA RestoringInductive ==
    ASSUME Faults \cap {"crash", "read", "hosts", "kill"} = {}
    PROVE  Spec => []Restoring
<1>1. Init => Restoring
  BY DEF Init, Restoring, Restored, Consistent, EmptyMap, previous
<1>2. IInv /\ DescribesInstalled /\ Restoring /\ [Next]_vars => Restoring'
  <2> SUFFICES ASSUME IInv, DescribesInstalled, Restoring, [Next]_vars PROVE Restoring'
    OBVIOUS
  <2> USE DEF kernel, files, ghosts
  <2>0. pc \in [Appliers -> Steps] /\ job \in [Appliers -> Job]
    BY DEF IInv, TypeOK
  <2>1. ASSUME NEW p \in Appliers, ApplyStep(p), NEW q \in Appliers, q # p
        PROVE  Restored(q)'
    BY <2>1, OthersStand DEF Restoring, Restored, Critical, Forbidden, Allows
  <2>2. ASSUME NEW p \in Appliers, ApplyStep(p)
        PROVE  Restored(p)' /\ (Quiet' => Consistent')
    <3>0. Restored(p) /\ job[p] \in Job
      BY <2>0 DEF Restoring
    <3>1. CASE \/ Start(p) \/ Acquire(p) \/ LockTimeout(p)
               \/ ReadClock(p) \/ Abort(p) \/ ReadAndPlan(p)
      <4>1. Quiet' => Quiet
        BY <3>1, EarlySteps DEF Quiet
      <4> QED BY <3>1, <4>1, EarlySteps
              DEF Restoring, Restored, Touching, Consistent, Forbidden, Allows
    <3>2. CASE Unchanged(p) \/ Restore(p) \/ RestoreFails(p) \/ Verify(p) \/ Reread(p)
      BY <3>2, MiddleSteps DEF Restored, Quiet, Touching
    <3>3. CASE WriteHosts(p)
      <4>1. hosts' = render(job[p].names)
        <5>1. \A ok \in Succeeds("hosts") : ok = TRUE
          BY NeverFails
        <5> QED BY <3>3, <5>1 DEF WriteHosts, write_atomic
      <4>2. pc[p] = "hosts" /\ pc'[p] = "mode" /\ prod' = prod
        BY <2>0, <3>3 DEF WriteHosts, Goto
      <4>3. \A n \in Names : hosts'[n] = previous(prod', n)
        BY <4>1, <4>2 DEF DescribesInstalled, Reporting, Describes, render
      <4> QED BY <4>2, <4>3 DEF Restored, Quiet, Touching
    <3>4. CASE ReadMode(p)
      <4> DEFINE K == kill_set(read_mode(state_file), job[p].production, job[p].maintenance)
      <4>1. /\ UNCHANGED <<prod, maint, hosts, state_file, flows>>
            /\ pc[p] = "mode" /\ pc'[p] = "kill"
        BY <2>0, <3>4 DEF ReadMode, Goto
      <4>2. job'[p].to_kill = K
        BY <2>0, <3>0, <3>4 DEF ReadMode, Job
      <4>3. Forbidden' \subseteq K
        BY <4>1 DEF DescribesInstalled, Reporting, Describes, Forbidden, Allows, kill_set
      <4>4. Restored(p)'
        BY <3>0, <4>1, <4>2, <4>3 DEF Restored
      <4> QED BY <4>1, <4>4 DEF Quiet, Touching
    <3>5. CASE Kill(p)
      <4>1. PICK x \in job[p].to_kill, ok \in Succeeds("kill") :
               /\ flows' = IF ok THEN flows \ {x} ELSE flows
               /\ job' = [job EXCEPT ![p].to_kill = @ \ {x},
                                     ![p].kill_failed = IF ok THEN @ ELSE @ \cup {x}]
        BY <3>5 DEF Kill
      <4>2. flows' = flows \ {x} /\ job'[p].to_kill = job[p].to_kill \ {x}
        BY <2>0, <3>0, <4>1, NeverFails DEF Job
      <4>3. /\ UNCHANGED <<prod, maint, hosts, state_file, pc>> /\ pc[p] = "kill"
            /\ Forbidden' = Forbidden
        BY <3>5 DEF Kill, Forbidden, Allows
      <4> QED BY <3>0, <4>2, <4>3 DEF Restored, Quiet, Touching
    <3>6. CASE Publish(p)
      <4>1. /\ UNCHANGED <<prod, maint, hosts, state_file, flows>>
            /\ pc[p] = "kill" /\ pc'[p] = "idle" /\ job[p].to_kill = {}
            /\ Forbidden' = Forbidden
        BY <2>0, <3>6 DEF Publish, Leave, Goto, Forbidden, Allows
      <4> QED BY <3>0, <4>1 DEF Restored, Consistent
    <3>7. ~Crash(p)
      BY DEF Crash
    <3> QED BY <2>2, <3>1, <3>2, <3>3, <3>4, <3>5, <3>6, <3>7 DEF ApplyStep, Proceed
  <2>3. CASE ToggleRelease
    <3>1. \A p \in Appliers : pc[p] \notin Critical
      BY <2>3, ToggleAlone DEF ToggleRelease
    <3>2. Consistent
      BY <3>1 DEF Restoring, Quiet, Touching, Critical
    <3>3. UNCHANGED <<prod, maint, hosts, pc>>
      BY <2>3 DEF ToggleRelease
    <3>4. flows' \cap Forbidden' = {}
      <4>1. CASE UNCHANGED <<flows, state_file>>
        BY <3>2, <3>3, <4>1 DEF Consistent, Forbidden, Allows
      <4>2. CASE state_file' = "production" /\ flows' = flows
        <5>1. ASSUME NEW a \in DOMAIN maint, Allows(a) PROVE Allows(a)'
          BY <3>3, <4>2, <5>1 DEF Allows, read_mode
        <5>2. Forbidden' \subseteq Forbidden
          BY <3>3, <5>1 DEF Forbidden
        <5> QED BY <3>2, <4>2, <5>2 DEF Consistent
      <4>3. CASE flows' = flows \ DOMAIN maint
        BY <3>3, <4>3 DEF Forbidden
      <4> QED BY <2>3, <4>1, <4>2, <4>3 DEF ToggleRelease
    <3> QED BY <3>1, <3>2, <3>3, <3>4 DEF Restoring, Restored, Consistent, Critical
  <2>4. CASE ~ToggleRelease /\ ~ \E p \in Appliers : ApplyStep(p)
    <3>1. UNCHANGED <<prod, maint, hosts, pc, job>>
      BY <2>4, Elsewhere
    <3>2. Forbidden' = Forbidden /\ flows' \cap Forbidden \subseteq flows
      BY <2>4, EnvironmentKeeps
    <3> QED BY <3>1, <3>2 DEF Restoring, Restored, Quiet, Consistent
  <2> QED BY <2>1, <2>2, <2>3, <2>4 DEF Restoring
<1>3. Spec => []DescribesInstalled
  <2>1. "read" \notin Faults
    OBVIOUS
  <2> QED BY <2>1, DescribesInstalledThm
<1> QED BY <1>1, <1>2, <1>3, Inductive, PTL DEF Spec

(* Between the runs the hosts file is the production chain and no          *)
(* forbidden flow lives, while runs are neither killed nor fail to list a  *)
(* chain, to write the hosts file or to delete a flow; failed and late     *)
(* restores, foreign rules and a lost status file do no harm.              *)
THEOREM AtRestConsistentThm ==
    ASSUME Faults \cap {"crash", "read", "hosts", "kill"} = {}
    PROVE  Spec => []AtRestConsistent
<1>1. IInv /\ Restoring => AtRestConsistent
  <2> SUFFICES ASSUME IInv, Restoring, lock = Free PROVE Consistent
    BY DEF AtRestConsistent, Consistent
  <2> QED BY ToggleAlone DEF Restoring, Quiet, Touching, Critical
<1> QED BY <1>1, Inductive, RestoringInductive, PTL

(* What toggle trusts the status for.                                      *)
Endpoints == \A n \in Required : hosts[n] # {} /\ hosts[n] = previous(prod, n)

(* While every run ends and writes its status, the status toggle reads is  *)
(* right between the runs; a run's own hosts_ok is right until it ends.    *)
Trustworthy ==
    /\ Quiet /\ status.required_satisfied => Endpoints
    /\ \A p \in Appliers : pc[p] \in {"mode", "kill"} /\ job[p].hosts_ok
          => \A n \in Names : hosts[n] = job[p].names[n].addrs

(* A run that takes an endpoint away writes its status before toggle looks.*)
LEMMA TrustworthyInductive ==
    ASSUME Faults \cap {"crash", "status"} = {}
    PROVE  Spec => []Trustworthy
<1> DEFINE Written(p) == pc[p] \in {"mode", "kill"} /\ job[p].hosts_ok
                            => \A n \in Names : hosts[n] = job[p].names[n].addrs
<1>1. Init => Trustworthy
  BY DEF Init, Trustworthy, NoStatus
<1>2. IInv /\ Trustworthy /\ [Next]_vars => Trustworthy'
  <2> SUFFICES ASSUME IInv, Trustworthy, [Next]_vars PROVE Trustworthy'
    OBVIOUS
  <2> USE DEF kernel, files, ghosts
  <2>0. pc \in [Appliers -> Steps] /\ job \in [Appliers -> Job]
    BY DEF IInv, TypeOK
  <2>1. ASSUME NEW p \in Appliers, ApplyStep(p), NEW q \in Appliers, q # p
        PROVE  Written(q)'
    BY <2>1, OthersStand DEF Trustworthy, Critical
  <2>2. ASSUME NEW p \in Appliers, ApplyStep(p)
        PROVE  Written(p)' /\ (Quiet' /\ status'.required_satisfied => Endpoints')
    <3>0. Written(p) /\ job[p] \in Job
      BY <2>0 DEF Trustworthy
    <3>1. CASE \/ Start(p) \/ Acquire(p) \/ LockTimeout(p)
               \/ ReadClock(p) \/ Abort(p) \/ ReadAndPlan(p)
      <4>1. Quiet' => Quiet
        BY <3>1, EarlySteps DEF Quiet
      <4> QED BY <3>1, <4>1, EarlySteps DEF Trustworthy, Touching, Endpoints
    <3>2. CASE Unchanged(p) \/ Restore(p) \/ RestoreFails(p) \/ Verify(p) \/ Reread(p)
      BY <3>2, MiddleSteps DEF Quiet, Touching
    <3>3. CASE WriteHosts(p)
      <4>1. pc[p] = "hosts" /\ pc'[p] = "mode"
        BY <2>0, <3>3 DEF WriteHosts, Goto
      <4>2. job'[p].names = job[p].names /\ (job'[p].hosts_ok => hosts' = render(job[p].names))
        BY <2>0, <3>0, <3>3 DEF WriteHosts, write_atomic, Job
      <4> QED BY <4>1, <4>2 DEF Quiet, Touching, render
    <3>4. CASE ReadMode(p) \/ Kill(p)
      <4>1. /\ hosts' = hosts /\ pc[p] \in {"mode", "kill"} /\ pc'[p] = "kill"
            /\ job'[p].names = job[p].names /\ job'[p].hosts_ok = job[p].hosts_ok
        <5>1. CASE ReadMode(p)
          BY <2>0, <3>0, <5>1 DEF ReadMode, Goto, Job
        <5>2. CASE Kill(p)
          BY <2>0, <3>0, <5>2 DEF Kill, Job
        <5> QED BY <3>4, <5>1, <5>2
      <4> QED BY <3>0, <4>1 DEF Quiet, Touching
    <3>5. CASE Publish(p)
      <4>1. UNCHANGED <<prod, hosts>> /\ pc[p] = "kill" /\ pc'[p] = "idle"
        BY <2>0, <3>5 DEF Publish, Leave, Goto
      <4>2. status'.required_satisfied =>
               job[p].apply_ok /\ job[p].hosts_ok /\ required_satisfied(job[p].names)
        <5>1. \A ok \in Succeeds("status") : ok = TRUE
          BY NeverFails
        <5>2. PICK t : status' = report(job[p], t)
          BY <3>5, <5>1 DEF Publish, write_atomic
        <5>3. status'.required_satisfied =
                 (job[p].apply_ok /\ job[p].hosts_ok /\ required_satisfied(job[p].names))
          BY <5>2 DEF report
        <5> QED BY <5>3
      <4>3. job[p].apply_ok => \A n \in Names : job[p].names[n].addrs = previous(prod, n)
        BY <4>1 DEF IInv, Knows, Reporting, Describes
      <4> QED BY <3>0, <4>1, <4>2, <4>3, RequiredAssumption DEF Endpoints, required_satisfied
    <3>6. ~Crash(p)
      BY DEF Crash
    <3> QED BY <2>2, <3>1, <3>2, <3>3, <3>4, <3>5, <3>6 DEF ApplyStep, Proceed
  <2>3. CASE ~ \E p \in Appliers : ApplyStep(p)
    BY <2>3, Elsewhere DEF Trustworthy, Quiet, Endpoints
  <2> QED BY <2>1, <2>2, <2>3 DEF Trustworthy
<1> QED BY <1>1, <1>2, Inductive, PTL DEF Spec

(* toggle enters production only with every required endpoint in the chain *)
(* and in the hosts file, while runs are not killed and the status file is *)
(* written; whatever else fails, readiness is withdrawn in time.           *)
THEOREM ProductionReadyThm ==
    ASSUME Faults \cap {"crash", "status"} = {}
    PROVE  Spec => ProductionReady
<1>1. IInv /\ Trustworthy /\ [Next]_vars =>
         [state_file' = "production" /\ state_file # "production" => Endpoints]_vars
  <2> SUFFICES ASSUME IInv, Trustworthy, Next, state_file' = "production", state_file # "production"
               PROVE  Endpoints
    OBVIOUS
  <2>1. ToggleRelease
    <3>1. CASE \E p \in Appliers : ApplyStep(p)
      BY <3>1, ModeIsToggles
    <3>2. CASE ~ \E p \in Appliers : ApplyStep(p)
      BY <3>2, EnvironmentKeeps
    <3> QED BY <3>1, <3>2
  <2>2. status.required_satisfied
    BY <2>1 DEF ToggleRelease
  <2>3. Quiet
    BY <2>1, ToggleAlone DEF ToggleRelease, Quiet, Touching, Critical
  <2> QED BY <2>2, <2>3 DEF Trustworthy
<1>2. [][state_file' = "production" /\ state_file # "production" => Endpoints]_vars
         => ProductionReady
  BY DEF ProductionReady, Endpoints
<1> QED BY <1>1, <1>2, Inductive, TrustworthyInductive, PTL DEF Spec

-----------------------------------------------------------------------------
(* Refinement.                                                             *)

(* The instance of Policy has its own copy of Plan: the same operators.    *)
LEMMA SamePlan ==
    /\ P!EmptyMap = EmptyMap /\ P!NoResults = NoResults /\ P!Results = Results
    /\ \A r, p, m : P!compute(r, p, m) = compute(r, p, m)
<1>1. P!EmptyMap = EmptyMap /\ P!NoResults = NoResults /\ P!Results = Results
  BY DEF P!EmptyMap, EmptyMap, P!NoResults, NoResults, P!Results, Results
<1>2. ASSUME NEW r, NEW p, NEW m PROVE P!compute(r, p, m) = compute(r, p, m)
  <2>1. \A n : P!previous(p, n) = previous(p, n)
    BY DEF P!previous, previous
  <2>2. \A x : P!lkg(x) = lkg(x)
    BY DEF P!lkg, lkg
  <2>3. ASSUME NEW n PROVE P!name_state(r, p, n) = name_state(r, p, n)
    <3>1. P!Usable(r, n) <=> Usable(r, n)
      BY DEF P!Usable, Usable
    <3>2. P!Cleared(r, n) <=> Cleared(r, n)
      BY DEF P!Cleared, Cleared
    <3>3. P!lkg(P!previous(p, n)) = lkg(previous(p, n))
      BY <2>1, <2>2
    <3>4. CASE Usable(r, n)
      BY <3>1, <3>4 DEF P!name_state, name_state
    <3>5. CASE ~Usable(r, n) /\ Cleared(r, n)
      BY <3>1, <3>2, <3>5 DEF P!name_state, name_state
    <3>6. CASE ~Usable(r, n) /\ ~Cleared(r, n)
      BY <3>1, <3>2, <3>3, <3>6 DEF P!name_state, name_state
    <3> QED BY <3>4, <3>5, <3>6
  <2>4. P!names_from_kernel(p) = names_from_kernel(p)
    BY <2>1, <2>2 DEF P!names_from_kernel, names_from_kernel
  <2>5. \A x : P!Union(x) = Union(x)
    BY DEF P!Union, Union
  <2>6. \A x : P!TooMany(x) <=> TooMany(x)
    BY DEF P!TooMany, TooMany, P!Cardinality, Cardinality
  <2>7. \A x : P!Merge(m, x) = Merge(m, x)
    BY DEF P!Merge, Merge, P!At, At
  <2>8. [n \in Names |-> P!name_state(r, p, n)] = [n \in Names |-> name_state(r, p, n)]
    BY <2>3
  <2> DEFINE c == [n \in Names |-> name_state(r, p, n)]
  <2> HIDE DEF c
  <2>9. P!TooMany(P!Union(c)) <=> TooMany(Union(c))
    BY <2>5, <2>6
  <2>10. CASE TooMany(Union(c))
    BY <2>4, <2>7, <2>8, <2>9, <2>10 DEF P!compute, compute, c
  <2>11. CASE ~TooMany(Union(c))
    BY <2>5, <2>7, <2>8, <2>9, <2>11 DEF P!compute, compute, c
  <2> QED BY <2>10, <2>11
<1> QED BY <1>1, <1>2

(* A commit is the policy's only action.                                   *)
LEMMA CommitInstalls ==
    ASSUME IInv, NEW p \in Appliers, pc[p] = "firewall",
           prod' = job[p].production, maint' = job[p].maintenance, Land(job[p])
    PROVE  P!Next
<1>1. Planned(job[p]) /\ job[p] \in Job
  BY DEF IInv, Knows, TypeOK
<1>2. job[p].answers.results \in Results
  BY <1>1 DEF Job, Answers
<1>3. P!Install(job[p].answers.results)
  BY <1>1, SamePlan DEF P!Install, Planned, Land
<1> QED BY <1>2, <1>3, SamePlan DEF P!Next

(* Every step of the system is, for the chains, a whole installation of a  *)
(* plan computed from the chains' present contents, or nothing at all.     *)
THEOREM Refinement == Spec => ImplementsPolicy
<1>1. Init => P!Init
  BY SamePlan DEF Init, P!Init
<1>2. IInv /\ [Next]_vars => [P!Next]_(P!vars)
  <2> SUFFICES ASSUME IInv, [Next]_vars PROVE [P!Next]_(P!vars)
    OBVIOUS
  <2>1. CASE UNCHANGED <<prod, maint, landed, installed>>
    BY <2>1 DEF P!vars
  <2>2. CASE \E p \in Appliers : /\ pc[p] = "firewall" /\ Land(job[p])
                                 /\ prod' = job[p].production /\ maint' = job[p].maintenance
    BY <2>2, CommitInstalls
  <2> QED BY <2>1, <2>2, OnlyPlansLand
<1> QED BY <1>1, <1>2, Inductive, PTL DEF Spec, ImplementsPolicy, P!Spec

(* So are the words about answers.                                         *)
LEMMA SameAnswers ==
    \A r, p, n : /\ P!previous(p, n) = previous(p, n)
                 /\ P!Usable(r, n) <=> Usable(r, n)
                 /\ P!Cleared(r, n) <=> Cleared(r, n)
                 /\ P!Settled(r, n) <=> Settled(r, n)
<1>1. \A p, n : P!previous(p, n) = previous(p, n)
  BY DEF P!previous, previous
<1>2. \A r, n : P!Usable(r, n) <=> Usable(r, n)
  BY DEF P!Usable, Usable
<1>3. \A r, n : P!Cleared(r, n) <=> Cleared(r, n)
  BY DEF P!Cleared, Cleared
<1> QED BY <1>1, <1>2, <1>3 DEF P!Settled, Settled

(* A step changes the chains by a plan for them, or not at all.            *)
LEMMA StepInstalls ==
    ASSUME IInv, [Next]_vars
    PROVE  \/ UNCHANGED <<prod, maint, landed>>
           \/ \E r \in Results : /\ prod' = compute(r, prod, maint).production
                                 /\ maint' = compute(r, prod, maint).maintenance
                                 /\ landed' = r
<1>1. CASE UNCHANGED <<prod, maint, landed, installed>>
  BY <1>1
<1>2. CASE \E p \in Appliers : /\ pc[p] = "firewall" /\ Land(job[p])
                               /\ prod' = job[p].production /\ maint' = job[p].maintenance
  <2>1. P!Next
    BY <1>2, CommitInstalls
  <2>2. PICK r \in Results : P!Install(r)
    BY <2>1, SamePlan DEF P!Next
  <2> QED BY <2>2, SamePlan DEF P!Install
<1> QED BY <1>1, <1>2, OnlyPlansLand

(* However runs, resolvers, toggle and failures interleave, the chains are *)
(* within the limit and public, the seen set covers the allowed addresses, *)
(* an update lands whole or not at all and moves no name it has no answer  *)
(* for, and the seen set never shrinks (run_apply, plan.rs).               *)
THEOREM PolicyKept ==
    Spec => /\ [](P!BoundedChain /\ P!SeenCoversAllowed)
            /\ P!AllOrNothing /\ P!LkgIsolation /\ P!MaintenanceGrows
<1> DEFINE Whole == \/ prod' = prod
                    \/ \A n \in Names :
                          /\ P!Usable(landed', n) => P!previous(prod', n) = landed'[n].addrs
                          /\ P!Cleared(landed', n) => P!previous(prod', n) = {}
           Kept == \A n \in Names :
                      ~P!Settled(landed', n) => P!previous(prod', n) = P!previous(prod, n)
           Grows == \A a \in DOMAIN maint : a \in DOMAIN maint' /\ maint[a] \subseteq maint'[a]
<1>1. Init => Bounded(prod)
  BY EmptyIsBounded DEF Init
<1>2. IInv => prod \in AddrMap /\ maint \in AddrMap
  BY DEF IInv, TypeOK
<1>3. IInv /\ Bounded(prod) /\ [Next]_vars => Bounded(prod)'
  BY <1>2, StepInstalls, PlanIsBounded DEF Bounded
<1>4. IInv /\ [Next]_vars =>
         [Whole]_<<prod, maint, landed>> /\ [Kept]_<<prod, maint, landed>> /\ [Grows]_<<prod, maint, landed>>
  <2> SUFFICES ASSUME IInv, NEW r \in Results,
                      prod' = compute(r, prod, maint).production,
                      maint' = compute(r, prod, maint).maintenance, landed' = r
               PROVE  Whole /\ Kept /\ Grows
    BY StepInstalls
  <2>1. Whole
    BY <1>2, PlanIsWhole, SameAnswers
  <2>2. Kept
    BY <1>2, PlanIsolates, SameAnswers
  <2>3. Grows
    BY <1>2, PlanRecords
  <2> QED BY <2>1, <2>2, <2>3
<1>5. IInv => P!SeenCoversAllowed
  BY DEF IInv, Covered, P!SeenCoversAllowed
<1>6. Bounded(prod) => P!BoundedChain
  BY DEF Bounded, P!BoundedChain, P!Cardinality, Cardinality
<1> QED BY <1>1, <1>3, <1>4, <1>5, <1>6, Inductive, PTL
        DEF Spec, P!AllOrNothing, P!LkgIsolation, P!MaintenanceGrows, P!vars

=============================================================================
