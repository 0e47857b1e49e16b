---------------------------- MODULE ReportProofs ----------------------------
(***************************************************************************)
(* Safety of Report for every configuration and every input: the status,   *)
(* the metrics made from it and the exit code against the kernel, whatever *)
(* fails.                                                                  *)
(*                                                                         *)
(* A run is one step, so the proofs go through what one run promises       *)
(* (Delivers); the invariants say that nothing later takes it back while   *)
(* its output is the latest.                                               *)
(***************************************************************************)
EXTENDS Report, PlanProofs

StatusFile == [last_fresh         : [Names -> Time],
               required_satisfied : BOOLEAN,
               kill_failed        : SUBSET Addrs]

(* The parts of a status that the properties use.                          *)
ReportOK(s) ==
    /\ s.generated \in Time \ {0}
    /\ s.last_fresh \in [Names -> Time]
    /\ s.endpoints \in [Names -> NameState]
    /\ s.required_satisfied \in BOOLEAN
    /\ s.kill_failed \subseteq Addrs

TypeOK ==
    /\ clock \in 1 .. MaxTime
    /\ mode \in Modes
    /\ prod \in AddrMap /\ maint \in AddrMap
    /\ hosts \in [Names -> SUBSET Addrs]
    /\ status \in StatusFile
    /\ fresh_at \in [Names -> Time]

-----------------------------------------------------------------------------
(* What one run promises of the status s it ends with.                     *)

(* The chains, as the run leaves them.                                     *)
DescribesChains(s) ==
    /\ s.production = DOMAIN prod' /\ s.maintenance = DOMAIN maint'
    /\ \A n \in Names : s.endpoints[n].addrs = previous(prod', n)
    /\ s.hosts_ok => \A n \in Names : hosts'[n] = previous(prod', n)

(* What was swept, and what could not be.                                  *)
DescribesSweep(s) ==
    /\ s.killed \cup s.kill_failed = kill_set(mode, prod', maint')
    /\ flows' = flows \ s.killed
    /\ s.conntrack_ok => s.kill_failed = {}

(* When the names were last fresh, and whether the required ones are.      *)
DescribesNames(s) ==
    /\ s.generated \in {clock, clock'}
    /\ \A n \in Names :
          IF IsFresh(s.endpoints[n])
          THEN s.last_fresh[n] = s.generated /\ fresh_at'[n] = clock'
          ELSE s.last_fresh[n] = status.last_fresh[n] /\ fresh_at'[n] \in {fresh_at[n], clock'}
    /\ \A n \in Names : s.endpoints[n].source = "fresh" => s.endpoints[n].addrs # {}
    /\ s.required_fresh => \A n \in Required : s.endpoints[n].source = "fresh"
    /\ s.required_satisfied => \A n \in Required : s.endpoints[n].addrs # {}

Delivers(s) ==
    /\ out' = <<s>>
    /\ mode' = mode
    /\ clock' \in {clock, clock + 1} \cap Time
    /\ DOMAIN maint \subseteq DOMAIN maint'
    /\ status' \in {status, Saved(s)}
    /\ DescribesChains(s)
    /\ DescribesSweep(s)
    /\ DescribesNames(s)

(* The contract of run_apply and cmd_apply: every run delivers, whether    *)
(* its update was verified, had no effect or went through unnoticed, and   *)
(* whatever else failed.                                                   *)
LEMMA RunDelivers ==
    ASSUME TypeOK, AnyRun
    PROVE  TypeOK' /\ \E s : ReportOK(s) /\ Delivers(s)
<1>1. PICK res \in Inputs, update \in {"ok", "failed", "late"}, okh \in BOOLEAN, oks \in BOOLEAN :
         Run(res, update, okh, oks)
  BY DEF AnyRun
<1> DEFINE plan == compute(res, prod, maint)
           newp == IF update = "failed" THEN prod ELSE plan.production
           newm == IF update = "failed" THEN maint ELSE plan.maintenance
           e    == Effective(plan, update = "ok", newp, newm)
<1>2. /\ prod' = newp /\ maint' = newm
      /\ hosts' = IF okh THEN render(e.names) ELSE hosts
      /\ clock' \in {clock, clock + 1} \cap Time
      /\ fresh_at' = [n \in Names |-> IF e.apply_ok /\ Brought(res, n, newp)
                                      THEN clock' ELSE fresh_at[n]]
      /\ mode' = mode
  BY <1>1 DEF Run
<1>3. PICK t \in {clock, clock'}, failed \in SUBSET kill_set(mode, newp, newm) :
         LET s == Status(plan, e, okh, failed, t)
         IN  /\ flows' = flows \ s.killed
             /\ status' = IF oks THEN Saved(s) ELSE status
             /\ out' = <<s>>
  BY <1>1 DEF Run
<1> DEFINE s == Status(plan, e, okh, failed, t)
<1>4. /\ plan.names \in [Names -> NameState]
      /\ plan.production \in AddrMap /\ plan.maintenance \in AddrMap
      /\ \A n \in Names : plan.names[n].addrs = previous(plan.production, n)
      /\ \A n \in Names : BroughtBy(plan.names, res, n)
      /\ plan.maintenance = Merge(maint, plan.production)
  <2>1. res \in Results
    BY InputsAssumption
  <2> QED BY <2>1, PlanAgrees, PlanBrings, ComputeCases DEF TypeOK
<1> HIDE DEF plan
<1>5. /\ newp \in AddrMap /\ newm \in AddrMap
      /\ DOMAIN maint \subseteq DOMAIN newm
  <2>1. CASE update = "failed"
    BY <2>1 DEF TypeOK
  <2>2. CASE update # "failed"
    BY <1>4, <2>2, MergeType DEF TypeOK
  <2> QED BY <2>1, <2>2
<1>6. /\ e.apply_ok = (update = "ok")
      /\ e.names = IF update = "ok" THEN plan.names ELSE names_from_kernel(newp)
      /\ e.production = newp /\ e.maintenance = newm
  BY DEF Effective
<1>7. /\ e.names \in [Names -> NameState]
      /\ \A n \in Names : e.names[n].addrs = previous(newp, n)
  <2>1. CASE update = "ok"
    BY <1>4, <1>6, <2>1
  <2>2. CASE update # "ok"
    BY <1>5, <1>6, <2>2, NamesFromKernelType
  <2> QED BY <2>1, <2>2
<1>8. ASSUME NEW n \in Names, IsFresh(e.names[n])
      PROVE  /\ update = "ok" /\ Brought(res, n, newp)
             /\ e.names[n].source = "fresh" => e.names[n].addrs # {}
  <2>1. update = "ok"
    BY <1>6, <1>8, KernelIsNotFresh DEF IsFresh
  <2>2. BroughtBy(plan.names, res, n) /\ e.names[n] = plan.names[n]
    BY <1>4, <1>6, <2>1
  <2> QED BY <1>7, <1>8, <2>1, <2>2 DEF BroughtBy, Brought, IsFresh, Usable
<1> HIDE DEF newp, newm, e
<1>9. /\ s.generated = t /\ s.hosts_ok = okh /\ s.conntrack_ok = (failed = {})
      /\ s.last_fresh = [n \in Names |-> IF IsFresh(e.names[n]) THEN t ELSE status.last_fresh[n]]
      /\ s.endpoints = e.names
      /\ s.production = DOMAIN newp /\ s.maintenance = DOMAIN newm
      /\ s.killed = kill_set(mode, newp, newm) \ failed /\ s.kill_failed = failed
  BY <1>6 DEF Status, last_fresh, killed
<1>10. /\ s.required_satisfied = (e.apply_ok /\ okh /\ required_satisfied(e.names))
       /\ s.required_fresh = (e.apply_ok /\ required_fresh(e.names))
  BY DEF Status
<1>11. out' = <<s>> /\ flows' = flows \ s.killed /\ status' \in {status, Saved(s)}
  BY <1>3
<1> HIDE DEF s
<1>12. clock \in Time \ {0} /\ clock' \in Time \ {0} /\ clock' \in 1 .. MaxTime /\ t \in Time \ {0}
  BY <1>2, TimeAssumption DEF TypeOK, Time
<1>13. ReportOK(s)
  <2>1. failed \subseteq Addrs
    BY <1>5, AddrMapFacts DEF kill_set
  <2>2. s.last_fresh \in [Names -> Time]
    BY <1>9, <1>12 DEF TypeOK, StatusFile
  <2>3. s.required_satisfied \in BOOLEAN
    BY <1>10
  <2> QED BY <1>7, <1>9, <1>12, <2>1, <2>2, <2>3 DEF ReportOK
<1>14. DescribesChains(s)
  BY <1>2, <1>7, <1>9 DEF DescribesChains, render
<1>15. DescribesSweep(s)
  BY <1>2, <1>9, <1>11 DEF DescribesSweep
<1>16. DescribesNames(s)
  <2>1. s.required_fresh => \A n \in Required : s.endpoints[n].source = "fresh"
    BY <1>9, <1>10 DEF required_fresh
  <2>2. s.required_satisfied => \A n \in Required : s.endpoints[n].addrs # {}
    BY <1>9, <1>10 DEF required_satisfied
  <2>3. ASSUME NEW n \in Names
        PROVE  IF IsFresh(s.endpoints[n])
               THEN s.last_fresh[n] = s.generated /\ fresh_at'[n] = clock'
               ELSE s.last_fresh[n] = status.last_fresh[n] /\ fresh_at'[n] \in {fresh_at[n], clock'}
    BY <1>2, <1>6, <1>8, <1>9
  <2>4. \A n \in Names : s.endpoints[n].source = "fresh" => s.endpoints[n].addrs # {}
    BY <1>8, <1>9 DEF IsFresh
  <2> QED BY <1>3, <1>9, <2>1, <2>2, <2>3, <2>4 DEF DescribesNames
<1>17. TypeOK'
  <2>1. hosts' \in [Names -> SUBSET Addrs]
    BY <1>2, <1>7 DEF TypeOK, render, NameState
  <2>2. status' \in StatusFile
    BY <1>11, <1>13 DEF TypeOK, StatusFile, Saved, ReportOK
  <2>3. fresh_at' \in [Names -> Time]
    BY <1>2, <1>12 DEF TypeOK
  <2> QED BY <1>2, <1>5, <1>12, <2>1, <2>2, <2>3 DEF TypeOK
<1> QED BY <1>2, <1>5, <1>11, <1>13, <1>14, <1>15, <1>16, <1>17 DEF Delivers

-----------------------------------------------------------------------------
(* The invariant.                                                          *)

(* What remains true of the latest status until the box next changes.      *)
Stands(s) ==
    /\ ReportOK(s)
    /\ s.production = DOMAIN prod /\ s.maintenance = DOMAIN maint
    /\ \A n \in Names : s.endpoints[n].addrs = previous(prod, n)
    /\ s.hosts_ok => \A n \in Names : hosts[n] = previous(prod, n)
    /\ s.conntrack_ok => \A a \in flows \cap DOMAIN maint : Allowed(a)
    /\ \A n \in Names : s.last_fresh[n] <= fresh_at[n]
    /\ s.required_fresh => \A n \in Required : /\ s.endpoints[n].source = "fresh"
                                               /\ s.endpoints[n].addrs # {}
                                               /\ s.last_fresh[n] = s.generated
    /\ s.required_satisfied => \A n \in Required : s.endpoints[n].addrs # {}

IInv ==
    /\ TypeOK
    /\ \A n \in Names : status.last_fresh[n] <= fresh_at[n] /\ fresh_at[n] <= clock
    /\ status.kill_failed \subseteq DOMAIN maint
    /\ Ended => Stands(Reported)

(* The first state: no run has reported.                                   *)
LEMMA InitIInv == Init => IInv
<1> SUFFICES ASSUME Init PROVE IInv
  OBVIOUS
<1>1. clock \in 1 .. MaxTime /\ 0 \in Time
  BY TimeAssumption DEF Init, Time
<1>2. status \in StatusFile
  BY <1>1 DEF Init, NoStatus, StatusFile
<1>3. TypeOK
  BY <1>1, <1>2, EmptyMapType DEF Init, TypeOK, Modes
<1>4. status.kill_failed = {} /\ ~Ended
  BY DEF Init, NoStatus, Ended
<1>5. \A n \in Names : status.last_fresh[n] <= fresh_at[n] /\ fresh_at[n] <= clock
  BY DEF Init, NoStatus
<1> QED BY <1>3, <1>4, <1>5 DEF IInv

(* A run upholds the invariant by what it delivers.                        *)
LEMMA RunStands ==
    ASSUME IInv, AnyRun
    PROVE  IInv'
<1>1. PICK s : ReportOK(s) /\ Delivers(s)
  BY RunDelivers DEF IInv
<1>2. TypeOK'
  BY RunDelivers DEF IInv
<1>3. Ended' /\ Reported' = s
  BY <1>1 DEF Delivers, Ended, Reported, NoOutput
<1>4. clock \in Int /\ clock' \in {clock, clock + 1} /\ s.generated \in {clock, clock'}
  BY <1>1 DEF Delivers, DescribesNames, IInv, TypeOK
<1>5. ASSUME NEW n \in Names
      PROVE  s.last_fresh[n] <= fresh_at'[n] /\ fresh_at'[n] <= clock'
  <2>1. /\ status.last_fresh[n] \in Int /\ fresh_at[n] \in Int
        /\ status.last_fresh[n] <= fresh_at[n] /\ fresh_at[n] <= clock
    BY DEF IInv, TypeOK, StatusFile, Time
  <2>2. CASE IsFresh(s.endpoints[n])
    BY <1>1, <1>4, <2>2 DEF Delivers, DescribesNames
  <2>3. CASE ~IsFresh(s.endpoints[n])
    BY <1>1, <1>4, <2>1, <2>3 DEF Delivers, DescribesNames
  <2> QED BY <2>2, <2>3
<1>6. \A n \in Names : status'.last_fresh[n] <= fresh_at'[n]
  <2>1. CASE status' = Saved(s)
    BY <1>5, <2>1 DEF Saved
  <2>2. CASE status' = status
    <3>1. ASSUME NEW n \in Names
          PROVE  status.last_fresh[n] <= fresh_at'[n]
      <4>1. fresh_at'[n] \in {fresh_at[n], clock'}
        BY <1>1 DEF Delivers, DescribesNames
      <4> QED BY <1>4, <4>1 DEF IInv, TypeOK, StatusFile, Time
    <3> QED BY <2>2, <3>1
  <2> QED BY <1>1, <2>1, <2>2 DEF Delivers
<1>7. s.kill_failed \subseteq DOMAIN maint' /\ status'.kill_failed \subseteq DOMAIN maint'
  <2>1. s.kill_failed \subseteq DOMAIN maint'
    BY <1>1 DEF Delivers, DescribesSweep, kill_set
  <2> QED BY <1>1, <2>1 DEF Delivers, Saved, IInv
<1>8. s.conntrack_ok => \A a \in flows' \cap DOMAIN maint' : Allowed(a)'
  <2> SUFFICES ASSUME s.conntrack_ok, NEW a \in flows', a \in DOMAIN maint' PROVE Allowed(a)'
    OBVIOUS
  <2>1. a \notin kill_set(mode, prod', maint')
    BY <1>1 DEF Delivers, DescribesSweep
  <2> QED BY <1>1, <2>1 DEF Delivers, kill_set, Allowed
<1>9. s.required_fresh => \A n \in Required : /\ s.endpoints[n].source = "fresh"
                                             /\ s.endpoints[n].addrs # {}
                                             /\ s.last_fresh[n] = s.generated
  BY <1>1, RequiredAssumption DEF Delivers, DescribesNames, IsFresh
<1>10. Stands(s)'
  BY <1>1, <1>5, <1>8, <1>9 DEF Delivers, DescribesChains, DescribesNames, Stands, ReportOK
<1> QED BY <1>2, <1>3, <1>5, <1>6, <1>7, <1>10 DEF IInv

(* The invariant holds all along.                                          *)
LEMMA Inductive == Spec => []IInv
<1>1. IInv /\ [Next]_vars => IInv'
  <2> SUFFICES ASSUME IInv, [Next]_vars PROVE IInv'
    OBVIOUS
  <2>1. CASE AnyRun
    BY <2>1, RunStands
  <2>2. CASE Tick
    <3>1. clock' \in 1 .. MaxTime /\ clock \in Int /\ clock' = clock + 1
      BY <2>2, TimeAssumption DEF Tick, IInv, TypeOK
    <3>2. \A n \in Names : fresh_at[n] <= clock'
      BY <3>1 DEF IInv, TypeOK, Time
    <3> QED BY <2>2, <3>1, <3>2 DEF Tick, IInv, TypeOK, Ended
  <2>3. ASSUME NEW m \in {"production", "maintenance"}, ToggleTo(m) PROVE IInv'
    BY <2>3 DEF ToggleTo, IInv, TypeOK, Modes, Ended
  <2>4. ASSUME NEW a \in Global, OpenFlow(a) PROVE IInv'
    BY <2>4 DEF OpenFlow, IInv, TypeOK, Ended
  <2>5. CASE UNCHANGED vars
    BY <2>5 DEF vars, IInv, TypeOK, Ended, Reported, Stands, Allowed
  <2> QED BY <2>1, <2>2, <2>3, <2>4, <2>5 DEF Next
<1> QED BY <1>1, InitIInv, PTL DEF Spec

-----------------------------------------------------------------------------
(* The theorems.                                                           *)

(* Exit code 0 is told only of a box in step with the kernel.              *)
THEOREM ExitZeroMeansReconciledThm == Spec => []ExitZeroMeansReconciled
<1>1. IInv => ExitZeroMeansReconciled
  BY DEF IInv, Stands, ExitZeroMeansReconciled, all_ok
<1> QED BY <1>1, Inductive, PTL

(* No reader is told of a time later than that of the last fresh answer.   *)
THEOREM AgeNeverUnderstatedThm == Spec => []AgeNeverUnderstated
<1>1. IInv => AgeNeverUnderstated
  <2> SUFFICES ASSUME IInv, Ended, NEW n \in DOMAIN Metrics.endpoint_fresh_age
               PROVE  Metrics.last_run - Metrics.endpoint_fresh_age[n] <= fresh_at[n]
    BY DEF IInv, AgeNeverUnderstated
  <2> DEFINE s == Reported
  <2>1. n \in Names
    BY DEF Metrics, to_metrics
  <2>2. /\ s.generated \in Int /\ s.last_fresh[n] \in Int /\ fresh_at[n] \in Int
        /\ s.last_fresh[n] <= fresh_at[n]
    BY <2>1 DEF IInv, TypeOK, Stands, ReportOK, Time
  <2>3. /\ Metrics.last_run = s.generated
        /\ Metrics.endpoint_fresh_age[n] = IF s.generated >= s.last_fresh[n]
                                           THEN s.generated - s.last_fresh[n] ELSE 0
    BY <2>1 DEF Metrics, to_metrics
  <2> HIDE DEF s
  <2> QED BY <2>2, <2>3
<1> QED BY <1>1, Inductive, PTL

(* A set of addresses has a positive number of them unless it is empty.    *)
LEMMA SomeAddress ==
    ASSUME NEW S \in SUBSET Addrs, S # {}
    PROVE  Cardinality(S) > 0
<1>1. IsFiniteSet(S)
  BY AddrsAssumption, FS_Subset
<1>2. Cardinality(S) \in Nat /\ Cardinality(S) # 0
  BY <1>1, FS_CardinalityType, FS_EmptySet
<1> QED BY <1>2

(* The samples of the metrics file are those of the kernel, and readiness  *)
(* agrees with the samples it stands for.                                  *)
THEOREM MetricsDescribeKernelThm == Spec => []MetricsDescribeKernel
<1>1. IInv => MetricsDescribeKernel
  <2> SUFFICES ASSUME IInv, Ended PROVE MetricsDescribeKernel
    BY DEF MetricsDescribeKernel
  <2> DEFINE s == Reported
  <2>0. Stands(s)
    BY DEF IInv
  <2>1. /\ Metrics.production_addresses = Cardinality(s.production)
        /\ Metrics.maintenance_addresses = Cardinality(s.maintenance)
        /\ Metrics.required_fresh = bool_f(s.required_fresh)
        /\ Metrics.required_satisfied = bool_f(s.required_satisfied)
        /\ Metrics.last_run = s.generated
    BY DEF Metrics, to_metrics
  <2>2. \A n \in Names : /\ Metrics.endpoint_addresses[n] = Cardinality(s.endpoints[n].addrs)
                         /\ Metrics.endpoint_fresh[n] = bool_f(IsFresh(s.endpoints[n]))
    BY DEF Metrics, to_metrics
  <2>3. ASSUME NEW n \in Names, s.last_fresh[n] = s.generated
        PROVE  n \in DOMAIN Metrics.endpoint_fresh_age /\ Metrics.endpoint_fresh_age[n] = 0
    <3>1. s.generated \in Int /\ s.generated # 0
      BY <2>0 DEF Stands, ReportOK, Time
    <3>2. Metrics.endpoint_fresh_age =
             [k \in {k \in Names : s.last_fresh[k] # 0} |->
                 IF s.generated >= s.last_fresh[k] THEN s.generated - s.last_fresh[k] ELSE 0]
      BY DEF Metrics, to_metrics
    <3> HIDE DEF s
    <3> QED BY <2>3, <3>1, <3>2
  <2> HIDE DEF s
  <2>4. \A n \in Names : s.endpoints[n].addrs \subseteq Addrs
    BY <2>0 DEF Stands, ReportOK, NameState
  <2>5. ASSUME s.required_fresh, NEW n \in Required
        PROVE  /\ Metrics.endpoint_addresses[n] > 0
               /\ Metrics.endpoint_fresh[n] = 1
               /\ n \in DOMAIN Metrics.endpoint_fresh_age
               /\ Metrics.endpoint_fresh_age[n] = 0
    <3>1. /\ n \in Names /\ s.endpoints[n].source = "fresh" /\ s.endpoints[n].addrs # {}
          /\ s.last_fresh[n] = s.generated
      BY <2>0, <2>5, RequiredAssumption DEF Stands
    <3> QED BY <2>2, <2>3, <2>4, <3>1, SomeAddress DEF IsFresh, bool_f
  <2>6. ASSUME s.required_satisfied, NEW n \in Required
        PROVE  Metrics.endpoint_addresses[n] > 0
    <3>1. n \in Names /\ s.endpoints[n].addrs # {}
      BY <2>0, <2>6, RequiredAssumption DEF Stands
    <3> QED BY <2>2, <2>4, <3>1, SomeAddress
  <2>7. ReadinessIsConsistent
    BY <2>1, <2>5, <2>6 DEF ReadinessIsConsistent, bool_f
  <2>8. \A n \in Names : Metrics.endpoint_addresses[n] = Cardinality(previous(prod, n))
    BY <2>0, <2>2 DEF Stands
  <2> QED BY <2>0, <2>1, <2>7, <2>8 DEF MetricsDescribeKernel, Stands
<1> QED BY <1>1, Inductive, PTL

(* A deletion that failed is tried again by the next run, unless the flow  *)
(* is allowed by then.                                                     *)
THEOREM FailedKillsRetriedThm == Spec => FailedKillsRetried
<1> DEFINE Retried == Ended' /\ out' # out =>
                         \A a \in status.kill_failed :
                            \/ a \in Reported'.killed \cup Reported'.kill_failed
                            \/ mode = "production" /\ a \in DOMAIN prod'
<1>1. IInv /\ [Next]_vars => [Retried]_vars
  <2> SUFFICES ASSUME IInv, Next, Ended', out' # out, NEW a \in status.kill_failed
               PROVE  \/ a \in Reported'.killed \cup Reported'.kill_failed
                      \/ mode = "production" /\ a \in DOMAIN prod'
    OBVIOUS
  <2>1. AnyRun
    BY DEF Next, Tick, ToggleTo, OpenFlow, Ended
  <2>2. PICK s : Delivers(s)
    BY <2>1, RunDelivers DEF IInv
  <2>3. Reported' = s /\ a \in DOMAIN maint'
    BY <2>2 DEF Delivers, Reported, IInv
  <2>4. s.killed \cup s.kill_failed = kill_set(mode, prod', maint')
    BY <2>2 DEF Delivers, DescribesSweep
  <2> QED BY <2>3, <2>4 DEF kill_set
<1> QED BY <1>1, Inductive, PTL DEF Spec, FailedKillsRetried

=============================================================================
