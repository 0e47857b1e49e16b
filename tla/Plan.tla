-------------------------------- MODULE Plan --------------------------------
(***************************************************************************)
(* The pure planning logic (plan.rs, with the kill set of conntrack.rs and *)
(* the host list of hosts.rs): how one set of DNS answers and the contents *)
(* of the two kernel chains give the next contents of the chains and the   *)
(* per-name state that the hosts file and the status report.               *)
(*                                                                         *)
(* A chain is an AddrMap: a function from the addresses that have a rule   *)
(* to the set of names in the rule's comment.  The kernel is the only      *)
(* store: a name's last-known-good addresses are read back from there.     *)
(***************************************************************************)
EXTENDS Integers, FiniteSets

CONSTANTS
    Names,          \* the configured endpoints
    Required,       \* those with `required = true`
    Addrs,          \* IPv4 addresses that occur in answers
    Global,         \* those that is_global_unicast accepts
    MaxAddresses,   \* firewall.max_addresses
    Replies         \* the per-name results that occur in answers

ASSUME RequiredAssumption == Required \subseteq Names
ASSUME GlobalAssumption == Global \subseteq Addrs
ASSUME AddrsAssumption == IsFiniteSet(Addrs)
ASSUME MaxAddressesAssumption == MaxAddresses \in Nat

(* One name's entry in answers.json.  `resolve` never writes an `ok` with  *)
(* no address or with a non-global one, but `apply` runs privileged and    *)
(* does not rely on that: any set of these can be the possible replies.    *)
NameResult == [outcome : {"ok", "empty", "transient"}, addrs : SUBSET Addrs]

ASSUME RepliesAssumption == Replies \subseteq NameResult

(* Answers::results as a partial function; its domain is empty when        *)
(* `apply` found no usable answers file.                                   *)
Results == UNION {[S -> Replies] : S \in SUBSET Names}

NoResults == [n \in {} |-> [outcome |-> "transient", addrs |-> {}]]

AddrMap == UNION {[S -> SUBSET Names] : S \in SUBSET Addrs}

EmptyMap == [a \in {} |-> {}]

NameState == [source : {"fresh", "last_known_good", "empty", "missing"},
              addrs  : SUBSET Addrs]

-----------------------------------------------------------------------------

(* Every address whose rule comment mentions n.                            *)
previous(m, n) == {a \in DOMAIN m : n \in m[a]}

lkg(prev) == [source |-> IF prev = {} THEN "missing" ELSE "last_known_good",
              addrs  |-> prev]

(* An answer is all or nothing: one non-global address spoils it.          *)
Usable(r, n) == /\ n \in DOMAIN r
                /\ r[n].outcome = "ok"
                /\ r[n].addrs # {}
                /\ r[n].addrs \subseteq Global

(* An authenticated negative answer.                                       *)
Cleared(r, n) == n \in DOMAIN r /\ r[n].outcome = "empty"

Settled(r, n) == Usable(r, n) \/ Cleared(r, n)

(* Mutant: fresh addresses are added to the known ones.                    *)
name_state_Accumulates(r, prod, n) ==
    IF Usable(r, n) THEN [source |-> "fresh", addrs |-> r[n].addrs \cup previous(prod, n)]
    ELSE IF Cleared(r, n) THEN [source |-> "empty", addrs |-> {}]
    ELSE lkg(previous(prod, n))

(* The per-name match of compute().                                        *)
name_state(r, prod, n) ==
    IF Usable(r, n) THEN [source |-> "fresh", addrs |-> r[n].addrs]
    ELSE IF Cleared(r, n) THEN [source |-> "empty", addrs |-> {}]
    ELSE lkg(previous(prod, n))

names_from_kernel(prod) == [n \in Names |-> lkg(previous(prod, n))]

(* Mutant: the last name to mention an address owns it.                    *)
Union_OneOwner(names) == [a \in UNION {names[n].addrs : n \in Names} |->
                             {CHOOSE n \in Names : a \in names[n].addrs}]

(* The production set is the union over all names; an address shared by    *)
(* several names carries all of them.                                      *)
Union(names) == [a \in UNION {names[n].addrs : n \in Names} |->
                    {n \in Names : a \in names[n].addrs}]

At(m, a) == IF a \in DOMAIN m THEN m[a] ELSE {}

(* Mutant: a known address keeps its comment.                              *)
Merge_KeepsComment(maint, prod) == [a \in DOMAIN maint \cup DOMAIN prod |->
                                       IF a \in DOMAIN maint THEN maint[a] ELSE prod[a]]

(* The maintenance set only ever gains addresses and names.                *)
Merge(maint, prod) == [a \in DOMAIN maint \cup DOMAIN prod |->
                          At(maint, a) \cup At(prod, a)]

TooMany(m) == Cardinality(DOMAIN m) > MaxAddresses

(* The whole plan.  Over the limit, the previous chain stays and the names *)
(* describe that chain.                                                    *)
compute(r, prod, maint) ==
    LET candidate == [n \in Names |-> name_state(r, prod, n)]
        over      == TooMany(Union(candidate))
        next      == IF over THEN prod ELSE Union(candidate)
    IN  [names       |-> IF over THEN names_from_kernel(prod) ELSE candidate,
         production  |-> next,
         maintenance |-> Merge(maint, next)]

required_satisfied(names) == \A n \in Required : names[n].addrs # {}

(* Mutant: retired addresses only, whatever the mode.                      *)
kill_set_AnyMode(mode, prod, maint) == {a \in DOMAIN maint : a \notin DOMAIN prod}

(* Mutant: in production nothing is torn down.                             *)
kill_set_NeverInProduction(mode, prod, maint) ==
    {a \in DOMAIN maint : mode # "production"}

(* The addresses whose flows must not exist, given the mode.               *)
kill_set(mode, prod, maint) ==
    {a \in DOMAIN maint : mode # "production" \/ a \notin DOMAIN prod}

(* The dynamic part of the hosts file: name -> published addresses.        *)
render(names) == [n \in Names |-> names[n].addrs]

=============================================================================
