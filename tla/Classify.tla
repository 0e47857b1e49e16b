------------------------------ MODULE Classify ------------------------------
(***************************************************************************)
(* classify() of resolve.rs: how one DNS response to an A query is ranked. *)
(* A response has header bits and an answer section, a sequence of A and   *)
(* CNAME records.  Names are compared without regard to case, so a name is *)
(* an atom here.  The module has one step, classifying a message; the      *)
(* properties compare the verdict with definitions that look at the        *)
(* section as a graph instead of chasing the chain.                        *)
(***************************************************************************)
EXTENDS Integers, Sequences, FiniteSets

CONSTANTS
    Owners,     \* domain names
    Query,      \* the one that was asked for
    Ips,        \* addresses in A records
    Public,     \* those that is_global_unicast accepts
    MaxHops,    \* MAX_CNAME_HOPS
    Messages,   \* the responses to consider
    Pending     \* no verdict yet

ASSUME QueryAssumption == Query \in Owners
ASSUME OwnersAssumption == IsFiniteSet(Owners)
ASSUME HopsAssumption == MaxHops \in Nat

Record == [type : {"A"}, owner : Owners, addr : Ips]
          \cup [type : {"CNAME"}, owner : Owners, target : Owners]

Rcode == {"noerror", "nxdomain", "servfail"}

Message == [truncated : BOOLEAN, rcode : Rcode, ad : BOOLEAN, answers : Seq(Record)]

ASSUME MessagesAssumption == Messages \subseteq Message

-----------------------------------------------------------------------------

Records(msg) == {msg.answers[i] : i \in DOMAIN msg.answers}

CNames(msg, owner) ==
    {i \in DOMAIN msg.answers : msg.answers[i].type = "CNAME" /\ msg.answers[i].owner = owner}

(* The first CNAME record of owner.                                        *)
NextTarget(msg, owner) ==
    msg.answers[CHOOSE i \in CNames(msg, owner) : \A j \in CNames(msg, owner) : i <= j].target

(* One round of the loop that follows the chain.                           *)
follow(msg, c) ==
    LET t == NextTarget(msg, c.owner)
    IN  IF c.loop \/ CNames(msg, c.owner) = {} THEN c
        ELSE IF t \in c.seen THEN [c EXCEPT !.loop = TRUE]
        ELSE [c EXCEPT !.owner = t, !.seen = @ \cup {t}]

(* Mutant: one hop fewer.                                                  *)
chase_OneShort(msg, qname) ==
    LET hop[k \in 0 .. MaxHops] ==
          IF k = 0 THEN [owner |-> qname, seen |-> {qname}, loop |-> FALSE]
          ELSE IF k = MaxHops THEN hop[k - 1]
          ELSE follow(msg, hop[k - 1])
    IN  hop[MaxHops]

(* From the queried name, at most MaxHops rounds.                          *)
chase(msg, qname) ==
    LET hop[k \in 0 .. MaxHops] ==
          IF k = 0 THEN [owner |-> qname, seen |-> {qname}, loop |-> FALSE]
          ELSE follow(msg, hop[k - 1])
    IN  hop[MaxHops]

(* Mutant: addresses of other names are no reason to doubt the answer.     *)
collect_IgnoresUnrelated(msg, owner) ==
    LET related == {r \in Records(msg) : r.type = "A" /\ r.owner = owner}
        addrs   == {r.addr : r \in related}
    IN  IF ~(addrs \subseteq Public) THEN [class |-> "permanent"]
        ELSE IF addrs # {} THEN [class |-> "ok", addrs |-> addrs]
        ELSE [class |-> "empty"]

(* The A records at the end of the chain: one non-global address spoils    *)
(* the answer, and none at all is a negative answer only if the section    *)
(* holds no A record of another name.                                      *)
collect(msg, owner) ==
    LET as      == {r \in Records(msg) : r.type = "A"}
        addrs   == {r.addr : r \in {x \in as : x.owner = owner}}
    IN  IF ~(addrs \subseteq Public) THEN [class |-> "permanent"]
        ELSE IF addrs # {} THEN [class |-> "ok", addrs |-> addrs]
        ELSE IF as # {} THEN [class |-> "permanent"]
        ELSE [class |-> "empty"]

classify(msg, qname, require) ==
    LET unauthentic == require /\ ~msg.ad
        chain       == chase(msg, qname)
    IN  IF msg.truncated THEN [class |-> "transient"]
        ELSE IF msg.rcode = "nxdomain"
             THEN [class |-> IF unauthentic THEN "permanent" ELSE "empty"]
        ELSE IF msg.rcode # "noerror" THEN [class |-> "transient"]
        ELSE IF unauthentic \/ chain.loop THEN [class |-> "permanent"]
        ELSE collect(msg, chain.owner)

-----------------------------------------------------------------------------

VARIABLES
    msg,        \* the response
    require,    \* resolver.require_authenticated
    verdict     \* what classify returned

classifyVars == <<msg, require, verdict>>

ClassifyInit == /\ msg \in Messages
                /\ require \in BOOLEAN
                /\ verdict = Pending

Judge == /\ verdict = Pending
         /\ verdict' = classify(msg, Query, require)
         /\ UNCHANGED <<msg, require>>

ClassifyNext == Judge

ClassifySpec == ClassifyInit /\ [][ClassifyNext]_classifyVars

-----------------------------------------------------------------------------
(* The answer section as a graph.                                          *)

Edge(m, x, y) == [type |-> "CNAME", owner |-> x, target |-> y] \in Records(m)

(* Names that hold the targets of all their CNAME records.                 *)
Closed(m, S) == \A x \in S, y \in Owners : Edge(m, x, y) => y \in S

(* The names that CNAME records lead to from the queried name.             *)
Reached(m) == {y \in Owners : \A S \in SUBSET Owners : Query \in S /\ Closed(m, S) => y \in S}

(* From every reached name at most one CNAME leads on, none leads back,    *)
(* and the chain is not longer than the limit.                             *)
PlainChain(m) ==
    /\ \A x \in Reached(m) : Cardinality({y \in Owners : Edge(m, x, y)}) <= 1
    /\ \E x \in Reached(m) : \A y \in Owners : ~Edge(m, x, y)
    /\ Cardinality(Reached(m)) <= MaxHops + 1

Authentic == require => msg.ad

AddrsOf(m, S) == {r.addr : r \in {x \in Records(m) : x.type = "A" /\ x.owner \in S}}

(* Addresses come only from an intact, authenticated answer, belong to the *)
(* queried name or to a name its CNAME records lead to, and are all global *)
(* (classify: "unrelated records never contribute addresses").             *)
AddressesBelong ==
    verdict # Pending /\ verdict.class = "ok" =>
        /\ ~msg.truncated /\ msg.rcode = "noerror" /\ Authentic
        /\ verdict.addrs # {}
        /\ verdict.addrs \subseteq AddrsOf(msg, Reached(msg)) \cap Public

(* A name is cleared only by authenticated proof: NXDOMAIN, or an answer   *)
(* section without any A record whatsoever (Classified::Empty).            *)
NegativeIsProof ==
    verdict # Pending /\ verdict.class = "empty" =>
        /\ ~msg.truncated /\ Authentic
        /\ \/ msg.rcode = "nxdomain"
           \/ msg.rcode = "noerror" /\ AddrsOf(msg, Owners) = {}

(* What apply acts on is justified by the response: addresses that enter   *)
(* the chain, and the negative answer that clears a name (classify).       *)
VerdictJustified == AddressesBelong /\ NegativeIsProof

(* A well-formed authenticated answer is never turned down: on a plain     *)
(* chain within the limit the verdict is all the addresses of its end.     *)
GoodAnswerAccepted ==
    /\ verdict # Pending
    /\ ~msg.truncated /\ msg.rcode = "noerror" /\ Authentic
    /\ PlainChain(msg)
    => LET last == {x \in Reached(msg) : \A y \in Owners : ~Edge(msg, x, y)}
           good == AddrsOf(msg, last)
       IN  good # {} /\ good \subseteq Public
              => verdict = [class |-> "ok", addrs |-> good]

=============================================================================
