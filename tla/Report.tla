------------------------------- MODULE Report --------------------------------
(***************************************************************************)
(* What an apply run tells the world: status.json in full, the Prometheus  *)
(* file derived from it, and the exit code.  The readers are the next run, *)
(* `toggle`, an alerting system and the service manager; each sees only    *)
(* its own channel, and each file may fail to be written.                  *)
(*                                                                         *)
(* A run is one step here: it holds the lock from its first reading to     *)
(* its last write, and what others do meanwhile is the subject of Apply,   *)
(* as are chains that cannot be listed and the already-applied marker.     *)
(* Times are ticks of /proc/uptime from 1; 0 stands for None.              *)
(***************************************************************************)
EXTENDS Plan

CONSTANTS
    MaxTime,    \* bound on the clock
    Inputs      \* the results that runs find in answers.json

ASSUME TimeAssumption == MaxTime \in Nat \ {0}
ASSUME InputsAssumption == Inputs \subseteq Results

VARIABLES
    clock,      \* /proc/uptime
    mode,       \* the searcher network state
    prod, maint,\* the two chains
    flows,      \* destinations with a conntrack entry
    hosts,      \* the hosts file
    status,     \* status.json: what the next run and toggle read of it
    out,        \* the status of the run that has just ended, from which its
                \* metrics file and its exit code are made
    fresh_at    \* history: when a fresh answer for a name was last installed

vars == <<clock, mode, prod, maint, flows, hosts, status, out, fresh_at>>

Modes == {"production", "maintenance", "stopped"}
Time == 0 .. MaxTime

-----------------------------------------------------------------------------
(* The code.                                                               *)

(* What later readers keep of a status; kill_failed is there for           *)
(* operators, no run reads it.                                             *)
Saved(s) == [last_fresh         |-> s.last_fresh,
             required_satisfied |-> s.required_satisfied,
             kill_failed        |-> s.kill_failed]

(* No status.json yet: PrevStatus::default().                              *)
NoStatus == [last_fresh         |-> [n \in Names |-> 0],
             required_satisfied |-> FALSE,
             kill_failed        |-> {}]

required_fresh(names) == \A n \in Required : names[n].source = "fresh"

(* Mutant: the planned rules, even if they were not installed.             *)
Effective_PlannedRules(plan, ok, p, m) ==
    [apply_ok    |-> ok,
     names       |-> IF ok THEN plan.names ELSE names_from_kernel(p),
     production  |-> plan.production,
     maintenance |-> plan.maintenance]

(* The policy a run describes from here on: its plan if the update was     *)
(* verified, and what the chains hold otherwise.                           *)
Effective(plan, ok, p, m) ==
    [apply_ok    |-> ok,
     names       |-> IF ok THEN plan.names ELSE names_from_kernel(p),
     production  |-> p,
     maintenance |-> m]

IsFresh(s) == s.source \in {"fresh", "empty"}

(* Mutant: every name that the plan counts as fresh is booked.             *)
last_fresh_Planned(plan, e, t) ==
    [n \in Names |-> IF IsFresh(plan.names[n]) THEN t ELSE status.last_fresh[n]]

last_fresh(plan, e, t) ==
    [n \in Names |-> IF IsFresh(e.names[n]) THEN t ELSE status.last_fresh[n]]

killed(to_kill, failed) == to_kill \ failed

(* The status of a run that describes policy e at time t; `failed` are the *)
(* destinations whose deletion failed.                                     *)
Status(plan, e, okh, failed, t) ==
        [generated          |-> t,
         mode               |-> mode,
         apply_ok           |-> e.apply_ok,
         hosts_ok           |-> okh,
         conntrack_ok       |-> failed = {},
         required_satisfied |-> e.apply_ok /\ okh /\ required_satisfied(e.names),
         required_fresh     |-> e.apply_ok /\ required_fresh(e.names),
         last_fresh         |-> last_fresh(plan, e, t),
         endpoints          |-> e.names,
         production         |-> DOMAIN e.production,
         maintenance        |-> DOMAIN e.maintenance,
         added              |-> IF e.apply_ok THEN DOMAIN plan.production \ DOMAIN prod ELSE {},
         removed            |-> IF e.apply_ok THEN DOMAIN prod \ DOMAIN plan.production ELSE {},
         killed             |-> killed(kill_set(mode, e.production, e.maintenance), failed),
         kill_failed        |-> failed]

(* Mutant: a failed sweep does not count.                                  *)
all_ok_NoConntrack(s) == s.apply_ok /\ s.hosts_ok

all_ok(s) == s.apply_ok /\ s.hosts_ok /\ s.conntrack_ok

bool_f(b) == IF b THEN 1 ELSE 0

(* The families and their samples (all but the number of errors); an age   *)
(* is absent until there is one.                                           *)
to_metrics(s) ==
    [last_run             |-> s.generated,
     apply_ok             |-> bool_f(s.apply_ok),
     hosts_ok             |-> bool_f(s.hosts_ok),
     conntrack_ok         |-> bool_f(s.conntrack_ok),
     required_satisfied   |-> bool_f(s.required_satisfied),
     required_fresh       |-> bool_f(s.required_fresh),
     production_addresses |-> Cardinality(s.production),
     maintenance_addresses |-> Cardinality(s.maintenance),
     kill_failed          |-> Cardinality(s.kill_failed),
     mode                 |-> [m \in Modes |-> bool_f(s.mode = m)],
     endpoint_addresses   |-> [n \in Names |-> Cardinality(s.endpoints[n].addrs)],
     endpoint_fresh       |-> [n \in Names |-> bool_f(IsFresh(s.endpoints[n]))],
     endpoint_fresh_age   |-> [n \in {k \in Names : s.last_fresh[k] # 0} |->
                                  IF s.generated >= s.last_fresh[n]
                                  THEN s.generated - s.last_fresh[n] ELSE 0]]

-----------------------------------------------------------------------------

(* Nobody has run since the box last changed.                              *)
NoOutput == <<>>

Ended == out # NoOutput
Reported == out[1]
Metrics == to_metrics(Reported)

(* The chain holds for n what the authenticated answer said.               *)
Brought(res, n, p) == \/ Usable(res, n) /\ previous(p, n) = res[n].addrs
                      \/ Cleared(res, n) /\ previous(p, n) = {}

Init == /\ clock = 1
        /\ mode = "maintenance"
        /\ prod = EmptyMap /\ maint = EmptyMap
        /\ flows = {}
        /\ hosts = [n \in Names |-> {}]
        /\ status = NoStatus
        /\ out = NoOutput
        /\ fresh_at = [n \in Names |-> 0]

(* run_apply and cmd_apply.  The update is verified, has no effect, or is  *)
(* committed and reported as failed; hosts file, deletions and status fail *)
(* independently; a tick may pass before the status, and the second        *)
(* reading of the clock may fail, so that the first is used.               *)
Run(res, update, okh, oks) ==
    \E plan \in {compute(res, prod, maint)} :
    LET newp == IF update = "failed" THEN prod ELSE plan.production
        newm == IF update = "failed" THEN maint ELSE plan.maintenance
    IN  \E e \in {Effective(plan, update = "ok", newp, newm)} :
        /\ plan.production = prod /\ plan.maintenance = maint => update = "ok"
        /\ prod' = newp /\ maint' = newm
        /\ hosts' = IF okh THEN render(e.names) ELSE hosts
        /\ clock' \in {clock, clock + 1} \cap Time
        /\ \E t \in {clock, clock'}, failed \in SUBSET kill_set(mode, newp, newm) :
           \E s \in {Status(plan, e, okh, failed, t)} :
              /\ flows' = flows \ s.killed
              /\ status' = IF oks THEN Saved(s) ELSE status
              /\ out' = <<s>>
        /\ fresh_at' = [n \in Names |-> IF e.apply_ok /\ Brought(res, n, newp)
                                        THEN clock' ELSE fresh_at[n]]
        /\ mode' = mode

AnyRun == \E res \in Inputs, update \in {"ok", "failed", "late"}, okh, oks \in BOOLEAN :
             Run(res, update, okh, oks)

Tick == /\ clock < MaxTime
        /\ clock' = clock + 1
        /\ out' = NoOutput
        /\ UNCHANGED <<mode, prod, maint, flows, hosts, status, fresh_at>>

(* toggle: production only if the status allows it; every other mode tears *)
(* down the flows to known addresses.                                      *)
ToggleTo(m) == /\ m # mode
               /\ m = "production" => status.required_satisfied
               /\ mode' = m
               /\ flows' = IF m = "production" THEN flows ELSE flows \ DOMAIN maint
               /\ out' = NoOutput
               /\ UNCHANGED <<clock, prod, maint, hosts, status, fresh_at>>

Allowed(a) == IF mode = "production" THEN a \in DOMAIN prod ELSE a \notin DOMAIN maint

OpenFlow(a) == /\ a \notin flows
               /\ Allowed(a)
               /\ flows' = flows \cup {a}
               /\ out' = NoOutput
               /\ UNCHANGED <<clock, mode, prod, maint, hosts, status, fresh_at>>

Next == AnyRun \/ Tick \/ (\E m \in {"production", "maintenance"} : ToggleTo(m)) \/ (\E a \in Global : OpenFlow(a))

Spec == Init /\ [][Next]_vars

-----------------------------------------------------------------------------
(* Correctness.                                                            *)

(* The service manager sees success only if the whole box is in step: the  *)
(* hosts file is the production chain, and no flow to a known address      *)
(* lives that the mode forbids (Status::all_ok, cmd_apply).                *)
ExitZeroMeansReconciled ==
    Ended /\ all_ok(Reported) => /\ \A n \in Names : hosts[n] = previous(prod, n)
                                 /\ \A a \in flows \cap DOMAIN maint : Allowed(a)

(* A reader is never told that an endpoint is fresher than it is, in       *)
(* status.json or in the metrics, however many updates and status files    *)
(* were lost (run_apply 4, to_metrics).                                    *)
AgeNeverUnderstated ==
    /\ \A n \in Names : status.last_fresh[n] <= fresh_at[n]
    /\ Ended => \A n \in DOMAIN Metrics.endpoint_fresh_age :
          Metrics.last_run - Metrics.endpoint_fresh_age[n] <= fresh_at[n]

(* The readiness samples agree with the per-endpoint samples: if required  *)
(* endpoints are reported fresh, each has addresses, is marked fresh and   *)
(* has age zero; if they are reported satisfied, each has an address       *)
(* (required_fresh, required_satisfied, to_metrics).                       *)
ReadinessIsConsistent ==
    Ended =>
      LET m == Metrics
      IN  /\ m.required_fresh = 1 =>
                \A n \in Required : /\ m.endpoint_addresses[n] > 0
                                    /\ m.endpoint_fresh[n] = 1
                                    /\ n \in DOMAIN m.endpoint_fresh_age
                                    /\ m.endpoint_fresh_age[n] = 0
          /\ m.required_satisfied = 1 =>
                \A n \in Required : m.endpoint_addresses[n] > 0

(* The metrics of a run describe the chains as the run leaves them, after  *)
(* failed updates too: the number of rules of each, and for each name the  *)
(* number of its addresses, with readiness that agrees with them           *)
(* (to_metrics, run_apply).                                                *)
MetricsDescribeKernel ==
    Ended => /\ ReadinessIsConsistent
             /\ Metrics.production_addresses = Cardinality(DOMAIN prod)
             /\ Metrics.maintenance_addresses = Cardinality(DOMAIN maint)
             /\ \A n \in Names :
                   Metrics.endpoint_addresses[n] = Cardinality(previous(prod, n))

(* "Destinations whose deletion failed; retried on the next run": each is  *)
(* deleted or reported again by the next run, unless by then the mode and  *)
(* the chain allow it (kill_failed, kill_set).                             *)
FailedKillsRetried ==
    [][Ended' /\ out' # out =>
          \A a \in status.kill_failed :
              \/ a \in Reported'.killed \cup Reported'.kill_failed
              \/ mode = "production" /\ a \in DOMAIN prod']_vars

=============================================================================
