------------------------------- MODULE Apply --------------------------------
(***************************************************************************)
(* One box running the tool: `resolve` processes that hand over answers in *)
(* a file, `apply` processes that reconcile the two kernel chains, the     *)
(* hosts file, the conntrack table and the status file under a lock, the   *)
(* operator's `toggle`, which shares the lock, and the container, which    *)
(* opens flows through the firewall at any moment.                         *)
(*                                                                         *)
(* An apply run is cut where another process can see or change what it     *)
(* uses: every external command and every file it writes is a step.        *)
(* Times are whole ticks of /proc/uptime, from 1; 0 stands for "never"     *)
(* (None in an Option<f64>).                                               *)
(***************************************************************************)
EXTENDS Plan

CONSTANTS
    Appliers,   \* processes that may run `apply`
    Resolvers,  \* processes that may run `resolve`
    MaxAge,     \* ANSWERS_MAX_AGE_SECS, in ticks
    MaxTime,    \* bound on the clock
    Faults      \* the kinds of failure that may happen

(* The failures a run can meet: killed, gives up on the lock, cannot read  *)
(* the clock, cannot list a chain, iptables-restore fails without effect   *)
(* or after its commit, a rule that is not ours appears, hosts file not    *)
(* written, a conntrack command fails, status file not written.            *)
FaultKinds == {"crash", "timeout", "clock", "read", "restore", "late",
               "foreign", "hosts", "kill", "status"}

Free == "free"
Toggle == "toggle"

ASSUME ProcessAssumption == Appliers \cap {Free, Toggle} = {}
ASSUME TimeAssumption == MaxAge \in Nat /\ MaxTime \in Nat \ {0}
ASSUME FaultsAssumption == Faults \subseteq FaultKinds

VARIABLES
    clock,      \* /proc/uptime
    prod,       \* kernel: the production chain
    maint,      \* kernel: the maintenance chain
    dirty,      \* kernel: a chain holds more than one rule per address
    flows,      \* kernel: destinations with a conntrack entry
    answers,    \* answers.json
    hosts,      \* the container's hosts file
    status,     \* status.json
    state_file, \* /etc/searcher-network.state
    lock,       \* the holder of the flock shared with toggle
    pc,         \* where each apply run stands
    job,        \* the local variables of each apply run
    started,    \* uptime each running `resolve` read when it began
    landed,     \* history: the answers whose plan the chains hold
    installed   \* history: the generation of the last file that landed

kernel == <<prod, maint, dirty>>
files  == <<answers, hosts, status, state_file>>
ghosts == <<landed, installed>>
vars   == <<clock, kernel, flows, files, lock, pc, job, started, ghosts>>

-----------------------------------------------------------------------------
(* The state.                                                              *)

Time == 0 .. MaxTime

Answers == [gen : Time, results : Results]

(* A missing file, and what load_answers returns for a rejected one.       *)
NoAnswers == [gen |-> 0, results |-> NoResults]

Modes == {"production", "maintenance"}

(* What later readers use of status.json: the two values the next run      *)
(* carries forward, whether the update was verified, and toggle's gate.    *)
Status == [applied            : Time,
           last_fresh         : [Names -> Time],
           apply_ok           : BOOLEAN,
           required_satisfied : BOOLEAN]

(* No status.json yet: PrevStatus::default().                              *)
NoStatus == [applied            |-> 0,
             last_fresh         |-> [n \in Names |-> 0],
             apply_ok           |-> FALSE,
             required_satisfied |-> FALSE]

Steps == {"idle", "lock", "clock", "plan", "firewall", "verify", "reread",
          "hosts", "mode", "kill", "killed"}

Job == [now         : Time,
        applied     : Time,              \* prev.applied_answers_uptime_secs
        last_fresh  : [Names -> Time],   \* prev.last_fresh_uptime_secs
        answers     : Answers,
        cur_prod    : AddrMap,
        cur_maint   : AddrMap,
        cur_dirty   : BOOLEAN,
        names       : [Names -> NameState],  \* the plan, then what is installed
        production  : AddrMap,
        maintenance : AddrMap,
        apply_ok    : BOOLEAN,
        hosts_ok    : BOOLEAN,
        to_kill     : SUBSET Addrs,
        kill_failed : SUBSET Addrs]

NoJob == [now         |-> 0,
          applied     |-> 0,
          last_fresh  |-> [n \in Names |-> 0],
          answers     |-> NoAnswers,
          cur_prod    |-> EmptyMap,
          cur_maint   |-> EmptyMap,
          cur_dirty   |-> FALSE,
          names       |-> names_from_kernel(EmptyMap),
          production  |-> EmptyMap,
          maintenance |-> EmptyMap,
          apply_ok    |-> FALSE,
          hosts_ok    |-> FALSE,
          to_kill     |-> {},
          kill_failed |-> {}]

(* Every variable holds a value of its kind.                               *)
TypeOK ==
    /\ clock \in 1 .. MaxTime
    /\ prod \in AddrMap /\ maint \in AddrMap /\ dirty \in BOOLEAN
    /\ flows \subseteq Addrs
    /\ answers \in Answers
    /\ hosts \in [Names -> SUBSET Addrs]
    /\ status \in Status
    /\ state_file \in Modes \cup {"absent"}
    /\ lock \in Appliers \cup {Free, Toggle}
    /\ pc \in [Appliers -> Steps]
    /\ job \in [Appliers -> Job]
    /\ started \in [Resolvers -> Time]
    /\ landed \in Results
    /\ installed \in Time

(* Boot: firewall-config has created both chains empty, /run is empty.     *)
Init ==
    /\ clock = 1
    /\ prod = EmptyMap /\ maint = EmptyMap /\ dirty = FALSE
    /\ flows = {}
    /\ answers = NoAnswers
    /\ hosts = [n \in Names |-> {}]
    /\ status = NoStatus
    /\ state_file = "absent"
    /\ lock = Free
    /\ pc = [p \in Appliers |-> "idle"]
    /\ job = [p \in Appliers |-> NoJob]
    /\ started = [r \in Resolvers |-> 0]
    /\ landed = NoResults
    /\ installed = 0

-----------------------------------------------------------------------------
(* The apply run.                                                          *)

(* The results of an operation that fails only under fault f.              *)
Succeeds(f) == {TRUE} \cup {ok \in {FALSE} : f \in Faults}

Goto(p, step) == pc' = [pc EXCEPT ![p] = step]

(* However a run ends, the FlockGuard or the kernel releases the flock.    *)
Release(p) == /\ job' = [job EXCEPT ![p] = NoJob]
              /\ lock' = IF lock = p THEN Free ELSE lock

Leave(p) == Goto(p, "idle") /\ Release(p)

(* The timer or an operator starts `apply`.                                *)
Start(p) == /\ pc[p] \in {"idle", "killed"}
            /\ Goto(p, "lock")
            /\ UNCHANGED <<clock, kernel, flows, files, lock, job, started, ghosts>>

(* Mutant: the run does not wait for the holder of the lock.               *)
Acquire_NoWait(p) == /\ pc[p] = "lock"
                     /\ lock' = p
                     /\ Goto(p, "clock")
                     /\ UNCHANGED <<clock, kernel, flows, files, job, started, ghosts>>

(* lock_exclusive: the deadline is looked at only after a failed flock.    *)
Acquire(p) == /\ pc[p] = "lock"
              /\ lock = Free
              /\ lock' = p
              /\ Goto(p, "clock")
              /\ UNCHANGED <<clock, kernel, flows, files, job, started, ghosts>>

LockTimeout(p) == /\ "timeout" \in Faults
                  /\ pc[p] = "lock"
                  /\ lock # Free
                  /\ Leave(p)
                  /\ UNCHANGED <<clock, kernel, flows, files, started, ghosts>>

(* clock() and PrevStatus::load.                                           *)
ReadClock(p) ==
    /\ pc[p] = "clock"
    /\ job' = [job EXCEPT ![p].now = clock,
                          ![p].applied = status.applied,
                          ![p].last_fresh = status.last_fresh]
    /\ Goto(p, "plan")
    /\ UNCHANGED <<clock, kernel, flows, files, lock, started, ghosts>>

(* The early returns: no clock, or a chain that cannot be listed.          *)
Abort(p) == /\ \/ pc[p] = "clock" /\ "clock" \in Faults
               \/ pc[p] = "plan" /\ "read" \in Faults
            /\ Leave(p)
            /\ UNCHANGED <<clock, kernel, flows, files, started, ghosts>>

(* Mutant: only the very file that is installed is rejected.               *)
load_answers_OnlySame(now, applied) ==
    IF /\ answers.gen # 0
       /\ now - answers.gen <= MaxAge
       /\ answers.gen # applied
    THEN answers
    ELSE NoAnswers

(* Missing, too old, or not newer than what is installed: no answers.      *)
load_answers(now, applied) ==
    IF /\ answers.gen # 0
       /\ now - answers.gen <= MaxAge
       /\ answers.gen > applied
    THEN answers
    ELSE NoAnswers

(* load_answers, read_chain twice and plan::compute.                       *)
ReadAndPlan(p) ==
    /\ pc[p] = "plan"
    /\ LET a    == load_answers(job[p].now, job[p].applied)
           plan == compute(a.results, prod, maint)
       IN  job' = [job EXCEPT ![p].answers = a,
                              ![p].cur_prod = prod,
                              ![p].cur_maint = maint,
                              ![p].cur_dirty = dirty,
                              ![p].names = plan.names,
                              ![p].production = plan.production,
                              ![p].maintenance = plan.maintenance]
    /\ Goto(p, "firewall")
    /\ UNCHANGED <<clock, kernel, flows, files, lock, started, ghosts>>

(* What the answers of j brought is now in the kernel.                     *)
Land(j) == /\ landed' = j.answers.results
           /\ installed' = IF j.answers.gen = 0 THEN installed ELSE j.answers.gen

InSync(j) == /\ ~j.cur_dirty
             /\ j.production = j.cur_prod
             /\ j.maintenance = j.cur_maint

(* "firewall chains unchanged".                                            *)
Unchanged(p) ==
    /\ pc[p] = "firewall"
    /\ InSync(job[p])
    /\ job' = [job EXCEPT ![p].apply_ok = TRUE]
    /\ Goto(p, "hosts")
    /\ Land(job[p])
    /\ UNCHANGED <<clock, kernel, flows, files, lock, started>>

(* Mutant: the batch leaves the maintenance chain out.                     *)
Commit_ProductionOnly(j) == /\ prod' = j.production
                            /\ maint' = maint
                            /\ dirty' = FALSE
                            /\ Land(j)

(* iptables-restore -n flushes both chains and fills them in one commit.   *)
Commit(j) == /\ prod' = j.production
             /\ maint' = j.maintenance
             /\ dirty' = FALSE
             /\ Land(j)

Restore(p) ==
    /\ pc[p] = "firewall"
    /\ ~InSync(job[p])
    /\ Commit(job[p])
    /\ Goto(p, "verify")
    /\ UNCHANGED <<clock, flows, files, lock, job, started>>

(* Mutant: a failed restore goes on with the plan.                         *)
RestoreFails_KeepsPlan(p) ==
    /\ pc[p] = "firewall"
    /\ ~InSync(job[p])
    /\ \/ "restore" \in Faults /\ UNCHANGED <<kernel, ghosts>>
       \/ "late" \in Faults /\ Commit(job[p])
    /\ Goto(p, "hosts")
    /\ UNCHANGED <<clock, flows, files, lock, job, started>>

(* apply_restore returns an error: nothing was committed, or the commit    *)
(* went through and only its report failed.                                *)
RestoreFails(p) ==
    /\ pc[p] = "firewall"
    /\ ~InSync(job[p])
    /\ \/ "restore" \in Faults /\ UNCHANGED <<kernel, ghosts>>
       \/ "late" \in Faults /\ Commit(job[p])
    /\ Goto(p, "reread")
    /\ UNCHANGED <<clock, flows, files, lock, job, started>>

Verified(j) == ~dirty /\ prod = j.production /\ maint = j.maintenance

(* verify_chains: read both chains back and compare them with the plan.    *)
Verify(p) ==
    /\ pc[p] = "verify"
    /\ \E ok \in Succeeds("read") :
          IF ok /\ Verified(job[p])
          THEN job' = [job EXCEPT ![p].apply_ok = TRUE] /\ Goto(p, "hosts")
          ELSE job' = job /\ Goto(p, "reread")
    /\ UNCHANGED <<clock, kernel, flows, files, lock, started, ghosts>>

(* Mutants: the chains are taken to be as they were; the per-name state    *)
(* of the plan is kept.                                                    *)
Reread_Skipped(p) ==
    /\ pc[p] = "reread"
    /\ job' = [job EXCEPT ![p].names = names_from_kernel(job[p].cur_prod),
                          ![p].production = job[p].cur_prod,
                          ![p].maintenance = job[p].cur_maint]
    /\ Goto(p, "hosts")
    /\ UNCHANGED <<clock, kernel, flows, files, lock, started, ghosts>>
Reread_KeepsNames(p) ==
    /\ pc[p] = "reread"
    /\ job' = [job EXCEPT ![p].production = prod, ![p].maintenance = maint]
    /\ Goto(p, "hosts")
    /\ UNCHANGED <<clock, kernel, flows, files, lock, started, ghosts>>

(* After a failed update the chains are listed once more; a chain that     *)
(* cannot be listed is taken to be as it was when the run began.           *)
Reread(p) ==
    /\ pc[p] = "reread"
    /\ \E okp, okm \in Succeeds("read") :
          LET ep == IF okp THEN prod ELSE job[p].cur_prod
              em == IF okm THEN maint ELSE job[p].cur_maint
          IN  job' = [job EXCEPT ![p].names = names_from_kernel(ep),
                                 ![p].production = ep,
                                 ![p].maintenance = em]
    /\ Goto(p, "hosts")
    /\ UNCHANGED <<clock, kernel, flows, files, lock, started, ghosts>>

(* Temporary file, fsync, rename: the old contents or the new ones, and    *)
(* nothing in between.                                                     *)
write_atomic(ok, old, new) == IF ok THEN new ELSE old

WriteHosts(p) ==
    /\ pc[p] = "hosts"
    /\ \E ok \in Succeeds("hosts") :
          /\ hosts' = write_atomic(ok, hosts, render(job[p].names))
          /\ job' = [job EXCEPT ![p].hosts_ok = ok]
    /\ Goto(p, "mode")
    /\ UNCHANGED <<clock, kernel, flows, answers, status, state_file, lock, started, ghosts>>

(* An absent state file means maintenance.                                 *)
read_mode(f) == IF f = "absent" THEN "maintenance" ELSE f

(* Mutant: only what this very run took off the allow list is swept.       *)
ReadMode_DiffOnly(p) ==
    /\ pc[p] = "mode"
    /\ job' = [job EXCEPT ![p].to_kill = DOMAIN job[p].cur_prod \ DOMAIN job[p].production]
    /\ Goto(p, "kill")
    /\ UNCHANGED <<clock, kernel, flows, files, lock, started, ghosts>>

ReadMode(p) ==
    /\ pc[p] = "mode"
    /\ job' = [job EXCEPT ![p].to_kill = kill_set(read_mode(state_file),
                                                  job[p].production,
                                                  job[p].maintenance)]
    /\ Goto(p, "kill")
    /\ UNCHANGED <<clock, kernel, flows, files, lock, started, ghosts>>

(* One `conntrack -D -d a`; a failure does not stop the sweep.             *)
Kill(p) ==
    /\ pc[p] = "kill"
    /\ \E a \in job[p].to_kill, ok \in Succeeds("kill") :
          /\ flows' = IF ok THEN flows \ {a} ELSE flows
          /\ job' = [job EXCEPT ![p].to_kill = @ \ {a},
                                ![p].kill_failed = IF ok THEN @ ELSE @ \cup {a}]
    /\ UNCHANGED <<clock, kernel, files, lock, pc, started, ghosts>>

(* Mutant: the marker moves after a failed update too.                     *)
next_applied_Always(j) == IF j.answers.gen # 0 THEN j.answers.gen ELSE j.applied

(* The marker moves only when this run's answers were installed.           *)
next_applied(j) == IF j.apply_ok /\ j.answers.gen # 0 THEN j.answers.gen ELSE j.applied

(* Mutant: readiness does not ask for the hosts file.                      *)
report_NoHosts(j, t) ==
    [applied            |-> next_applied(j),
     last_fresh         |-> [n \in Names |-> IF j.names[n].source \in {"fresh", "empty"}
                                             THEN t ELSE j.last_fresh[n]],
     apply_ok           |-> j.apply_ok,
     required_satisfied |-> j.apply_ok /\ required_satisfied(j.names)]

report(j, t) ==
    [applied            |-> next_applied(j),
     last_fresh         |-> [n \in Names |-> IF j.names[n].source \in {"fresh", "empty"}
                                             THEN t ELSE j.last_fresh[n]],
     apply_ok           |-> j.apply_ok,
     required_satisfied |-> j.apply_ok /\ j.hosts_ok /\ required_satisfied(j.names)]

(* The end of the run: a status file that cannot be written is only        *)
(* warned about.                                                           *)
Publish(p) ==
    /\ pc[p] = "kill"
    /\ job[p].to_kill = {}
    /\ \E okc \in Succeeds("clock"), oks \in Succeeds("status") :
          LET t == IF okc THEN clock ELSE job[p].now
          IN  status' = write_atomic(oks, status, report(job[p], t))
    /\ Leave(p)
    /\ UNCHANGED <<clock, kernel, flows, answers, hosts, state_file, started, ghosts>>

(* Killed at any point: files and chains stay as the completed steps left  *)
(* them.                                                                   *)
Crash(p) == /\ "crash" \in Faults
            /\ pc[p] \notin {"idle", "killed"}
            /\ Goto(p, "killed")
            /\ Release(p)
            /\ UNCHANGED <<clock, kernel, flows, files, started, ghosts>>

(* The run goes on from where it stands, well or badly.                    *)
Proceed(p) ==
    \/ ReadClock(p) \/ Abort(p) \/ ReadAndPlan(p)
    \/ Unchanged(p) \/ Restore(p) \/ RestoreFails(p) \/ Verify(p) \/ Reread(p)
    \/ WriteHosts(p) \/ ReadMode(p) \/ Kill(p) \/ Publish(p)

ApplyStep(p) == Start(p) \/ Acquire(p) \/ LockTimeout(p) \/ Proceed(p) \/ Crash(p)

-----------------------------------------------------------------------------
(* The resolve run: the uptime is read before any name is queried, the     *)
(* file is replaced at the end, whatever has been written meanwhile.       *)

ResolveStart(r) == /\ started[r] = 0
                   /\ started' = [started EXCEPT ![r] = clock]
                   /\ UNCHANGED <<clock, kernel, flows, files, lock, pc, job, ghosts>>

ResolveWrite(r) ==
    /\ started[r] # 0
    /\ \E res \in [Names -> Replies] : answers' = [gen |-> started[r], results |-> res]
    /\ started' = [started EXCEPT ![r] = 0]
    /\ UNCHANGED <<clock, kernel, flows, hosts, status, state_file, lock, pc, job, ghosts>>

(* Killed, or unable to write its file.                                    *)
ResolveDie(r) == /\ "crash" \in Faults
                 /\ started[r] # 0
                 /\ started' = [started EXCEPT ![r] = 0]
                 /\ UNCHANGED <<clock, kernel, flows, files, lock, pc, job, ghosts>>

-----------------------------------------------------------------------------
(* The environment: time, the operator's toggle, the container's flows,    *)
(* and other users of iptables.                                            *)

Tick == /\ clock < MaxTime
        /\ clock' = clock + 1
        /\ UNCHANGED <<kernel, flows, files, lock, pc, job, started, ghosts>>

ToggleAcquire == /\ lock = Free
                 /\ lock' = Toggle
                 /\ UNCHANGED <<clock, kernel, flows, files, pc, job, started, ghosts>>

(* toggle enters production only while the status says the required        *)
(* endpoints are there; on the way to maintenance it tears down every flow *)
(* to an address of the seen set.  Otherwise it leaves things as they are. *)
ToggleRelease ==
    /\ lock = Toggle
    /\ lock' = Free
    /\ \/ UNCHANGED <<flows, state_file>>
       \/ /\ status.required_satisfied
          /\ state_file' = "production"
          /\ flows' = flows
       \/ /\ state_file' = "maintenance"
          /\ flows' = flows \ DOMAIN maint
    /\ UNCHANGED <<clock, kernel, answers, hosts, status, pc, job, started, ghosts>>

(* What the firewall lets the container open: in production the allowed    *)
(* addresses, otherwise anything but the seen ones.                        *)
Allows(a) == IF read_mode(state_file) = "production"
             THEN a \in DOMAIN prod
             ELSE a \notin DOMAIN maint

OpenFlow(a) == /\ a \notin flows
               /\ Allows(a)
               /\ flows' = flows \cup {a}
               /\ UNCHANGED <<clock, kernel, files, lock, pc, job, started, ghosts>>

CloseFlow(a) == /\ a \in flows
                /\ flows' = flows \ {a}
                /\ UNCHANGED <<clock, kernel, files, lock, pc, job, started, ghosts>>

(* Someone adds a rule that is not ours, or doubles one, without the lock. *)
Foreign == /\ "foreign" \in Faults
           /\ ~dirty
           /\ dirty' = TRUE
           /\ UNCHANGED <<clock, prod, maint, flows, files, lock, pc, job, started, ghosts>>

-----------------------------------------------------------------------------

Next == \/ \E p \in Appliers : ApplyStep(p)
        \/ \E r \in Resolvers : ResolveStart(r) \/ ResolveWrite(r) \/ ResolveDie(r)
        \/ \E a \in Global : OpenFlow(a) \/ CloseFlow(a)
        \/ ToggleAcquire \/ ToggleRelease \/ Foreign \/ Tick

Spec == Init /\ [][Next]_vars

(* The timer keeps starting runs, a process that can go on does, toggle    *)
(* gives the lock back, a waiting run is not passed over for ever, and     *)
(* iptables-restore does not fail for ever.                                *)
Fairness == /\ \A p \in Appliers : /\ WF_vars(Start(p))
                                   /\ SF_vars(Acquire(p))
                                   /\ WF_vars(Proceed(p))
                                   /\ SF_vars(Restore(p))
            /\ WF_vars(ToggleRelease)

FairSpec == Spec /\ Fairness

-----------------------------------------------------------------------------
(* Correctness.                                                            *)

(* The steps in which a run acts on the policy it believes is installed.   *)
Reporting == {"hosts", "mode", "kill"}

(* Known addresses that the firewall would not let the container reach.    *)
Forbidden == {a \in DOMAIN maint : ~Allows(a)}

(* What j says of the policy is what the kernel enforces.                  *)
Describes(j) == /\ j.production = prod
                /\ j.maintenance = maint
                /\ \A n \in Names : j.names[n].addrs = previous(prod, n)

(* The container can never learn an address that was not installed for     *)
(* that very name: whatever fails, crashes or overlaps, each published     *)
(* address is in the seen set under its name (hosts.rs, run_apply 2).      *)
PublishedWasInstalled ==
    \A n \in Names : \A a \in hosts[n] : a \in DOMAIN maint /\ n \in maint[a]

(* A run that reports apply_ok publishes, sweeps and reports exactly what  *)
(* the kernel holds, although resolvers, a toggle, another apply and other *)
(* iptables users ran since it planned (run_apply, verify_chains).         *)
VerifiedDescribesInstalled ==
    \A p \in Appliers : pc[p] \in Reporting /\ job[p].apply_ok => Describes(job[p])

(* "Everything below describes the policy that is actually installed": the *)
(* same without apply_ok, that is, after a failed update too (run_apply).  *)
DescribesInstalled ==
    \A p \in Appliers : pc[p] \in Reporting => Describes(job[p])

(* While a verified run sweeps, every flow that must not exist in the      *)
(* present mode is still on its list or has failed: at the end, none is    *)
(* left unless conntrack_ok is false, whatever the container opened        *)
(* meanwhile and whichever earlier run died before its sweep (conntrack).  *)
SweptClean ==
    \A p \in Appliers : pc[p] = "kill" /\ job[p].apply_ok
        => flows \cap Forbidden \subseteq job[p].to_kill \cup job[p].kill_failed

(* The already-applied marker never goes back, whatever order answer files *)
(* and runs come in (load_answers, applied_answers_uptime_secs).           *)
MarkerMonotone == [][status'.applied >= status.applied]_vars

(* A name's last_fresh time moves only when the chain holds exactly the    *)
(* authenticated answer for that name (run_apply, freshness bookkeeping).  *)
FreshMeansInstalled ==
    [][\A n \in Names : status'.last_fresh[n] # status.last_fresh[n] =>
          /\ status'.apply_ok
          /\ \/ Usable(landed, n) /\ previous(prod, n) = landed[n].addrs
             \/ Cleared(landed, n) /\ previous(prod, n) = {}]_vars

(* When toggle enters production, every required endpoint is allowed by    *)
(* the firewall and the hosts file lists the very same addresses: the      *)
(* status toggle reads is not stale with respect to the kernel             *)
(* (Status::required_satisfied).                                           *)
ProductionReady ==
    [][state_file' = "production" /\ state_file # "production" =>
          \A n \in Required : hosts[n] # {} /\ hosts[n] = previous(prod, n)]_vars

(* An older generation of answers never replaces a newer one in the        *)
(* kernel, even when two resolves overlap and the later one to start       *)
(* writes first (load_answers).                                            *)
NoRollback == [][installed' >= installed]_vars

(* Between runs the hosts file is the production chain and no flow exists  *)
(* that the present mode forbids (run_apply as a whole, with toggle).      *)
AtRestConsistent ==
    lock = Free => /\ \A n \in Names : hosts[n] = previous(prod, n)
                   /\ flows \cap Forbidden = {}

P == INSTANCE Policy WITH input <- landed

(* Whatever happens, the chains change only as the abstract policy allows: *)
(* one whole plan at a time, computed from what the chains hold at that    *)
(* very moment (run_apply under the lock).                                 *)
ImplementsPolicy == P!Spec

(* From some point on nobody kills the runs.                               *)
CrashesEnd == <>[](\A p \in Appliers : pc[p] # "killed")

(* A file newer than what is installed lands, unless it is replaced or     *)
(* grows too old first: an update that failed or was killed is retried,    *)
(* never rejected as already applied (load_answers, the marker).           *)
FreshAnswersLand ==
    CrashesEnd => \A g \in 1 .. MaxTime :
        (answers.gen = g /\ installed < g)
            ~> (installed >= g \/ answers.gen # g \/ clock - g > MaxAge)

(* A flow that the chains and the mode forbid does not live on, even when  *)
(* the run that retired its address died before its sweep: the next run    *)
(* derives the sweep from the kernel and the mode (conntrack.rs).          *)
RetiredFlowsDie ==
    CrashesEnd => \A a \in Addrs : (a \in flows \cap Forbidden) ~> (a \notin flows \cap Forbidden)

=============================================================================
