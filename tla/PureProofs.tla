----------------------------- MODULE PureProofs ------------------------------
(***************************************************************************)
(* Proofs about the parts of the resolver that run alone, for every value  *)
(* of the constants:                                                       *)
(*                                                                         *)
(*   - the promises of the abstract policy, for every set of names,        *)
(*     addresses and replies and every limit.  The inductive invariant is  *)
(*     the type invariant with the two state invariants; the action        *)
(*     properties follow from it step by step;                             *)
(*   - the verdict on a response, for every message: by induction on the   *)
(*     rounds of the CNAME loop;                                           *)
(*   - the address check, for every address and every network: octet by    *)
(*     octet, from what the mask leaves of each;                           *)
(*   - the command line, of any length: by induction on the words.         *)
(***************************************************************************)
EXTENDS Policy, PlanProofs, TextProofs, Classify, Validate, Cli

-----------------------------------------------------------------------------
(* The abstract policy.                                                    *)

IInv == TypeOK /\ SeenCoversAllowed /\ BoundedChain

(* The first state: nothing installed, nothing seen.                       *)
LEMMA InitIInv == Init => IInv
<1> SUFFICES ASSUME Init PROVE IInv
  OBVIOUS
<1>1. TypeOK
  BY EmptyMapType, NoResultsType DEF Init, TypeOK
<1>2. DOMAIN prod = {}
  BY DEF Init, EmptyMap
<1>3. SeenCoversAllowed
  BY <1>2 DEF SeenCoversAllowed
<1>4. BoundedChain
  BY <1>2, FS_EmptySet, MaxAddressesAssumption DEF BoundedChain
<1> QED BY <1>1, <1>3, <1>4 DEF IInv

(* One update keeps the invariant.                                         *)
LEMMA InstallIInv ==
    ASSUME IInv, NEW r \in Results, Install(r)
    PROVE  IInv'
<1>1. prod \in AddrMap /\ maint \in AddrMap
  BY DEF IInv, TypeOK
<1>2. TypeOK'
  BY <1>1, PlanRecords DEF Install, TypeOK
<1>3. SeenCoversAllowed'
  BY <1>1, PlanRecords DEF Install, SeenCoversAllowed
<1>4. BoundedChain'
  BY <1>1, PlanIsBounded DEF IInv, BoundedChain, Bounded, Install
<1> QED BY <1>2, <1>3, <1>4 DEF IInv

(* The invariant holds all along.                                          *)
LEMMA Inductive == Spec => []IInv
<1>1. IInv /\ [Next]_vars => IInv'
  <2> SUFFICES ASSUME IInv, [Next]_vars PROVE IInv'
    OBVIOUS
  <2>1. CASE Next
    BY <2>1, InstallIInv DEF Next
  <2>2. CASE UNCHANGED vars
    BY <2>2 DEF vars, IInv, TypeOK, SeenCoversAllowed, BoundedChain
  <2> QED BY <2>1, <2>2
<1> QED BY <1>1, InitIInv, PTL DEF Spec

(* The chains always are maps from known addresses to configured names.    *)
THEOREM TypeCorrect == Spec => []TypeOK
BY Inductive, PTL DEF IInv

(* Everything the production chain allows is in the seen set.              *)
THEOREM SeenCoversAllowedThm == Spec => []SeenCoversAllowed
BY Inductive, PTL DEF IInv

(* The allow list respects the limit and public address space.             *)
THEOREM BoundedChainThm == Spec => []BoundedChain
BY Inductive, PTL DEF IInv

-----------------------------------------------------------------------------

(* The seen set never loses an address or a name.                          *)
THEOREM MaintenanceGrowsThm == Spec => MaintenanceGrows
<1> DEFINE Grows == \A a \in DOMAIN maint : a \in DOMAIN maint' /\ maint[a] \subseteq maint'[a]
<1>1. IInv /\ [Next]_vars => [Grows]_vars
  BY PlanRecords DEF IInv, TypeOK, Next, Install
<1> QED BY <1>1, Inductive, PTL DEF Spec, MaintenanceGrows

(* A name that an update does not settle keeps its addresses.              *)
THEOREM LkgIsolationThm == Spec => LkgIsolation
<1> DEFINE Kept == \A n \in Names :
                      ~Settled(input', n) => previous(prod', n) = previous(prod, n)
<1>1. IInv /\ [Next]_vars => [Kept]_vars
  BY PlanIsolates DEF IInv, TypeOK, Next, Install
<1> QED BY <1>1, Inductive, PTL DEF Spec, LkgIsolation

(* An update lands whole or not at all.                                    *)
THEOREM AllOrNothingThm == Spec => AllOrNothing
<1> DEFINE Whole == \/ prod' = prod
                    \/ \A n \in Names :
                          /\ Usable(input', n) => previous(prod', n) = input'[n].addrs
                          /\ Cleared(input', n) => previous(prod', n) = {}
<1>1. IInv /\ [Next]_vars => [Whole]_vars
  <2> SUFFICES ASSUME IInv, NEW r \in Results, Install(r) PROVE Whole
    BY DEF Next
  <2>1. prod \in AddrMap
    BY DEF IInv, TypeOK
  <2>2. prod' = compute(r, prod, maint).production /\ input' = r
    BY DEF Install
  <2> QED BY <2>1, <2>2, PlanIsWhole
<1> QED BY <1>1, Inductive, PTL DEF Spec, AllOrNothing

-----------------------------------------------------------------------------
(* What the loop over the chain keeps.                                     *)
Chase == [owner : Owners, seen : SUBSET Owners, loop : BOOLEAN]

(* The first CNAME of a name, if there is one, leads to a name.            *)
LEMMA TargetIsEdge ==
    ASSUME NEW m \in Message, NEW x \in Owners, CNames(m, x) # {}
    PROVE  NextTarget(m, x) \in Owners /\ Edge(m, x, NextTarget(m, x))
  <1>1. m.answers \in Seq(Record)
    BY DEF Message
  <1>2. CNames(m, x) \subseteq Nat
    BY <1>1 DEF CNames
  <1>3. \E i \in CNames(m, x) : \A j \in CNames(m, x) : i <= j
    BY <1>2, LeastNatural
  <1>4. PICK i \in CNames(m, x) : NextTarget(m, x) = m.answers[i].target
    BY <1>3 DEF NextTarget
  <1>5. /\ i \in DOMAIN m.answers
        /\ m.answers[i] \in Record
        /\ m.answers[i].type = "CNAME" /\ m.answers[i].owner = x
    BY <1>1 DEF CNames
  <1>6. m.answers[i] \in [type : {"CNAME"}, owner : Owners, target : Owners]
    BY <1>5 DEF Record
  <1>7. m.answers[i] = [type |-> "CNAME", owner |-> x, target |-> NextTarget(m, x)]
    BY <1>4, <1>5, <1>6
  <1> QED
    BY <1>4, <1>5, <1>6, <1>7 DEF Edge, Records

(* An edge is a CNAME of its first end.                                    *)
LEMMA EdgeIsCName ==
    ASSUME NEW m \in Message, NEW x \in Owners, NEW y \in Owners, Edge(m, x, y)
    PROVE  CNames(m, x) # {}
  <1>1. PICK i \in DOMAIN m.answers :
            m.answers[i] = [type |-> "CNAME", owner |-> x, target |-> y]
    BY DEF Edge, Records
  <1>2. m.answers[i].type = "CNAME" /\ m.answers[i].owner = x
    BY <1>1
  <1> QED
    BY <1>2 DEF CNames

(* A round leaves the chase well-formed.                                   *)
LEMMA FollowType ==
    ASSUME NEW m \in Message, NEW c \in Chase PROVE follow(m, c) \in Chase
  BY TargetIsEdge DEF Chase, follow

(* The chain is followed round by round.                                   *)
LEMMA ChaseRounds ==
    ASSUME NEW m \in Message, NEW q \in Owners
    PROVE  \E hop \in [0 .. MaxHops -> Chase] :
              /\ hop[0] = [owner |-> q, seen |-> {q}, loop |-> FALSE]
              /\ \A k \in 0 .. MaxHops - 1 : hop[k + 1] = follow(m, hop[k])
              /\ chase(m, q) = hop[MaxHops]
  <1> DEFINE start == [owner |-> q, seen |-> {q}, loop |-> FALSE]
             Round == [c \in Chase |-> follow(m, c)]
             Hops(h) == h = [k \in 0 .. MaxHops |-> IF k = 0 THEN start ELSE follow(m, h[k - 1])]
  <1> USE HopsAssumption
  <1>1. start \in Chase
    BY DEF Chase
  <1>2. Round \in [Chase -> Chase]
    BY FollowType
  <1> HIDE DEF start, Round
  <1>3. PICK f \in [0 .. MaxHops -> Chase] :
            f[0] = start /\ \A k \in 1 .. MaxHops : f[k] = Round[f[k - 1]]
    <2>1. MaxHops \in Nat
      BY HopsAssumption
    <2>2. \A S, F : start \in S /\ F \in [S -> S] =>
             \E f \in [0 .. MaxHops -> S] : f[0] = start /\ \A k \in 1 .. MaxHops : f[k] = F[f[k - 1]]
      BY <2>1, Recursion
    <2> QED
      BY <1>1, <1>2, <2>2, SMT
  <1>4. Hops(f)
    <2>1. ASSUME NEW k \in 1 .. MaxHops PROVE f[k] = follow(m, f[k - 1])
      <3>1. f[k] = Round[f[k - 1]]
        BY <1>3
      <3>2. k - 1 \in 0 .. MaxHops
        OBVIOUS
      <3>3. f[k - 1] \in Chase
        BY <3>2
      <3> QED
        BY <3>1, <3>3, Zenon DEF Round
    <2>2. \A k \in 0 .. MaxHops : f[k] = IF k = 0 THEN start ELSE follow(m, f[k - 1])
      BY <1>3, <2>1
    <2> QED
      BY <2>2
  <1> USE DEF start
  <1>5. PICK hop : Hops(hop) /\ chase(m, q) = hop[MaxHops]
    BY <1>4, Zenon DEF chase
  <1>6. /\ hop[0] = start
        /\ \A k \in 0 .. MaxHops - 1 : hop[k + 1] = follow(m, hop[k])
    <2> HIDE DEF start
    <2>1. \A k \in 0 .. MaxHops : hop[k] = IF k = 0 THEN start ELSE follow(m, hop[k - 1])
      BY <1>5
    <2>2. hop[0] = start
      BY <2>1
    <2>3. ASSUME NEW k \in 0 .. MaxHops - 1 PROVE hop[k + 1] = follow(m, hop[k])
      <3>1. k + 1 \in 0 .. MaxHops /\ k + 1 # 0 /\ k + 1 - 1 = k
        OBVIOUS
      <3> QED
        BY <2>1, <3>1
    <2> QED
      BY <2>2, <2>3
  <1>7. hop \in [0 .. MaxHops -> Chase]
    <2> DEFINE P == {k \in 0 .. MaxHops : hop[k] \in Chase}
    <2>1. 0 \in P
      BY <1>1, <1>6
    <2>2. \A k \in 0 .. MaxHops - 1 : k \in P => k + 1 \in P
      BY <1>6, FollowType
    <2> HIDE DEF P
    <2>3. \A k \in 0 .. MaxHops : k \in P
      BY <2>1, <2>2, Induction
    <2> QED
      BY <2>3, <1>5 DEF P
  <1> QED
    BY <1>5, <1>6, <1>7

(* After k rounds: the names that were seen are reached, each leads on to  *)
(* another of them but the last, and if the last leads on too, then either *)
(* to one of them, or it is the end of k edges.                            *)
Followed(m, c, k) ==
    /\ c \in Chase /\ c.owner \in c.seen /\ Query \in c.seen
    /\ c.seen \subseteq Reached(m)
    /\ \A x \in c.seen : x # c.owner \/ c.loop => CNames(m, x) # {} /\ NextTarget(m, x) \in c.seen
    /\ c.loop \/ CNames(m, c.owner) = {} \/ Cardinality(c.seen) = k + 1

(* The names that are reached lead only to such.                           *)
LEMMA ReachedClosed ==
    ASSUME NEW m PROVE Reached(m) \subseteq Owners /\ Query \in Reached(m) /\ Closed(m, Reached(m))
  BY QueryAssumption DEF Reached, Closed

(* One more round, one more edge.                                          *)
LEMMA FollowedStep ==
    ASSUME NEW m \in Message, NEW c, NEW k \in Nat, Followed(m, c, k)
    PROVE  Followed(m, follow(m, c), k + 1)
  <1> DEFINE t == NextTarget(m, c.owner)
  <1>1. /\ c \in Chase /\ c.owner \in Owners /\ c.seen \subseteq Owners
        /\ c.owner \in c.seen /\ Query \in c.seen /\ c.seen \subseteq Reached(m)
    BY DEF Followed, Chase
  <1>2. CASE c.loop \/ CNames(m, c.owner) = {}
    BY <1>2 DEF Followed, follow
  <1>3. CASE ~c.loop /\ CNames(m, c.owner) # {}
    <2>1. t \in Owners /\ Edge(m, c.owner, t)
      BY <1>1, <1>3, TargetIsEdge
    <2>2. t \in Reached(m)
      BY <1>1, <2>1, ReachedClosed DEF Closed
    <2>3. CASE t \in c.seen
      <3>1. follow(m, c) = [c EXCEPT !.loop = TRUE]
        BY <1>3, <2>3 DEF follow
      <3>2. follow(m, c) = [owner |-> c.owner, seen |-> c.seen, loop |-> TRUE]
        BY <1>1, <3>1 DEF Chase
      <3> HIDE DEF t
      <3>3. \A x \in c.seen : CNames(m, x) # {} /\ NextTarget(m, x) \in c.seen
        BY <1>3, <2>3 DEF Followed, t
      <3> QED
        BY <1>1, <3>2, <3>3 DEF Followed, Chase
    <2>4. CASE t \notin c.seen
      <3> DEFINE d == [owner |-> t, seen |-> c.seen \cup {t}, loop |-> FALSE]
      <3>1. follow(m, c) = [c EXCEPT !.owner = t, !.seen = @ \cup {t}]
        BY <1>3, <2>4 DEF follow
      <3>2. follow(m, c) = d
        BY <1>1, <1>3, <3>1 DEF Chase
      <3>3. IsFiniteSet(c.seen) /\ Cardinality(c.seen) = k + 1
        BY <1>1, <1>3, OwnersAssumption, FS_Subset DEF Followed
      <3>4. Cardinality(c.seen \cup {t}) = k + 2
        BY <2>4, <3>3, FS_AddElement
      <3>5. ASSUME NEW x \in c.seen
            PROVE  CNames(m, x) # {} /\ NextTarget(m, x) \in c.seen \cup {t}
        BY <1>3 DEF Followed
      <3> HIDE DEF t
      <3>6. d \in Chase /\ d.owner \in d.seen /\ Query \in d.seen /\ d.seen \subseteq Reached(m)
        BY <1>1, <2>1, <2>2 DEF Chase
      <3>7. \A x \in d.seen : x # d.owner \/ d.loop => CNames(m, x) # {} /\ NextTarget(m, x) \in d.seen
        BY <3>5
      <3>8. Cardinality(d.seen) = (k + 1) + 1
        BY <3>4
      <3> HIDE DEF d
      <3> QED
        BY <3>2, <3>6, <3>7, <3>8 DEF Followed
    <2> QED
      BY <2>3, <2>4
  <1> QED
    BY <1>2, <1>3

(* What the chase comes to.                                                *)
LEMMA ChaseFollowed ==
    ASSUME NEW m \in Message PROVE Followed(m, chase(m, Query), MaxHops)
  <1> USE QueryAssumption, HopsAssumption
  <1>1. PICK hop \in [0 .. MaxHops -> Chase] :
            /\ hop[0] = [owner |-> Query, seen |-> {Query}, loop |-> FALSE]
            /\ \A k \in 0 .. MaxHops - 1 : hop[k + 1] = follow(m, hop[k])
            /\ chase(m, Query) = hop[MaxHops]
    BY ChaseRounds
  <1> DEFINE P == {k \in 0 .. MaxHops : Followed(m, hop[k], k)}
  <1>2. 0 \in P
    <2>1. Cardinality({Query}) = 1
      BY FS_Singleton
    <2>2. {Query} \subseteq Reached(m)
      BY ReachedClosed
    <2>3. /\ hop[0] \in Chase
          /\ hop[0].owner = Query /\ hop[0].seen = {Query} /\ hop[0].loop = FALSE
      BY <1>1 DEF Chase
    <2>4. Followed(m, hop[0], 0)
      BY <2>1, <2>2, <2>3 DEF Followed
    <2> QED
      BY <2>4
  <1>3. \A k \in 0 .. MaxHops - 1 : k \in P => k + 1 \in P
    BY <1>1, FollowedStep
  <1> HIDE DEF P
  <1>4. \A k \in 0 .. MaxHops : k \in P
    BY <1>2, <1>3, Induction
  <1> QED
    BY <1>1, <1>4 DEF P

(* On a plain chain the chase ends at the one name that leads no further.  *)
LEMMA PlainChainEnds ==
    ASSUME NEW m \in Message, PlainChain(m)
    PROVE  /\ ~chase(m, Query).loop
           /\ {x \in Reached(m) : \A y \in Owners : ~Edge(m, x, y)} = {chase(m, Query).owner}
  <1> DEFINE c == chase(m, Query)
  <1>1. Followed(m, c, MaxHops)
    BY ChaseFollowed
  <1> HIDE DEF c
  <1>2. /\ Reached(m) \subseteq Owners /\ Query \in Reached(m) /\ Closed(m, Reached(m))
        /\ IsFiniteSet(Reached(m))
    BY ReachedClosed, OwnersAssumption, FS_Subset
  <1>3. c.owner \in c.seen /\ Query \in c.seen /\ c.seen \subseteq Reached(m)
    BY <1>1 DEF Followed
  <1>4. ASSUME NEW x \in Reached(m), NEW y \in Owners, Edge(m, x, y)
        PROVE  CNames(m, x) # {} /\ y = NextTarget(m, x)
    <2> DEFINE t == NextTarget(m, x)
               S == {z \in Owners : Edge(m, x, z)}
    <2>1. CNames(m, x) # {}
      BY <1>2, <1>4, EdgeIsCName
    <2>2. t \in S /\ y \in S
      BY <1>2, <1>4, <2>1, TargetIsEdge
    <2>3. IsFiniteSet(S) /\ Cardinality(S) <= 1
      BY OwnersAssumption, FS_Subset DEF PlainChain
    <2> HIDE DEF S, t
    <2>4. ASSUME y # t PROVE FALSE
      <3>1. IsFiniteSet({y}) /\ Cardinality({y}) = 1
        BY FS_Singleton
      <3>2. Cardinality({y} \cup {t}) = 2
        BY <2>4, <3>1, FS_AddElement
      <3>3. Cardinality({y} \cup {t}) <= Cardinality(S)
        BY <2>2, <2>3, FS_Subset
      <3> QED
        BY <2>3, <3>2, <3>3, FS_CardinalityType
    <2> QED
      BY <2>1, <2>4 DEF t
  <1>5. Closed(m, c.seen)
    <2> SUFFICES ASSUME NEW x \in c.seen, NEW y \in Owners, Edge(m, x, y) PROVE y \in c.seen
      BY DEF Closed
    <2>1. CNames(m, x) # {} /\ y = NextTarget(m, x)
      BY <1>3, <1>4
    <2>2. CASE x # c.owner \/ c.loop
      BY <1>1, <2>1, <2>2 DEF Followed
    <2>3. CASE x = c.owner /\ ~c.loop
      <3>1. Cardinality(c.seen) = MaxHops + 1
        BY <1>1, <2>1, <2>3 DEF Followed
      <3>2. Cardinality(Reached(m)) <= MaxHops + 1
        BY DEF PlainChain
      <3>3. c.seen = Reached(m)
        BY <1>2, <1>3, <3>1, <3>2, FS_Subset, FS_CardinalityType, HopsAssumption
      <3> QED
        BY <1>2, <3>3 DEF Closed
    <2> QED
      BY <2>2, <2>3
  <1>6. c.seen = Reached(m)
    BY <1>2, <1>3, <1>5 DEF Reached
  <1>7. ASSUME NEW x \in Reached(m), \A y \in Owners : ~Edge(m, x, y)
        PROVE  x = c.owner /\ ~c.loop
    <2>1. CNames(m, x) = {}
      BY <1>2, <1>7, TargetIsEdge
    <2> QED
      BY <1>1, <1>6, <2>1 DEF Followed
  <1>8. PICK x \in Reached(m) : \A y \in Owners : ~Edge(m, x, y)
    BY DEF PlainChain
  <1>9. x = c.owner /\ ~c.loop
    BY <1>7, <1>8
  <1>10. {z \in Reached(m) : \A y \in Owners : ~Edge(m, z, y)} = {c.owner}
    BY <1>7, <1>8, <1>9
  <1> QED
    BY <1>9, <1>10 DEF c

-----------------------------------------------------------------------------

Judged == /\ msg \in Messages /\ require \in BOOLEAN
          /\ verdict = Pending \/ verdict = classify(msg, Query, require)

(* A verdict is the one of classify, for the message that is still there.  *)
LEMMA JudgedInvariance == ClassifySpec => []Judged
  <1>1. ClassifyInit => Judged
    BY DEF ClassifyInit, Judged
  <1>2. Judged /\ [ClassifyNext]_classifyVars => Judged'
    BY DEF Judged, ClassifyNext, Judge, classifyVars
  <1> QED
    BY <1>1, <1>2, PTL DEF ClassifySpec

(* What collect makes of the addresses at the end of the chain.            *)
LEMMA Collected ==
    ASSUME NEW m, NEW x \in Owners
    PROVE  LET addrs == AddrsOf(m, {x})
               r     == collect(m, x)
           IN  /\ r.class = "ok" => r.addrs = addrs
               /\ r.class = "ok" <=> addrs # {} /\ addrs \subseteq Public
               /\ r.class = "ok" => r = [class |-> "ok", addrs |-> addrs]
               /\ r.class = "empty" => \A y \in Records(m) : y.type # "A"
  <1> DEFINE addrs == AddrsOf(m, {x})
             as == {r \in Records(m) : r.type = "A"}
  <1>1. {r.addr : r \in {y \in as : y.owner = x}} = addrs
    BY DEF AddrsOf
  <1>2. collect(m, x) = IF ~(addrs \subseteq Public) THEN [class |-> "permanent"]
                        ELSE IF addrs # {} THEN [class |-> "ok", addrs |-> addrs]
                        ELSE IF as # {} THEN [class |-> "permanent"]
                        ELSE [class |-> "empty"]
    BY <1>1, Zenon DEF collect
  <1> HIDE DEF addrs
  <1>3. CASE ~(addrs \subseteq Public)
    BY <1>2, <1>3 DEF addrs
  <1>4. CASE addrs \subseteq Public /\ addrs # {}
    BY <1>2, <1>4 DEF addrs
  <1>5. CASE addrs \subseteq Public /\ addrs = {}
    BY <1>2, <1>5 DEF addrs
  <1> QED
    BY <1>3, <1>4, <1>5

(* Whatever a response holds, its addresses are taken only from the end of *)
(* the CNAME chain of an intact, authenticated answer, and a name is       *)
(* cleared only by authenticated proof (classify).                         *)
THEOREM VerdictJustifiedThm == ClassifySpec => []VerdictJustified
  <1> DEFINE x == chase(msg, Query).owner
  <1>1. ASSUME Judged, verdict # Pending
        PROVE  AddressesBelong /\ NegativeIsProof
    <2>1. msg \in Message /\ verdict = classify(msg, Query, require)
      BY <1>1, MessagesAssumption DEF Judged
    <2>2. x \in Owners /\ x \in Reached(msg)
      BY <2>1, ChaseFollowed DEF Followed, Chase
    <2> HIDE DEF x
    <2>3. CASE verdict = [class |-> "transient"] \/ verdict = [class |-> "permanent"]
      BY <2>3 DEF AddressesBelong, NegativeIsProof
    <2>4. CASE /\ verdict = [class |-> "empty"] /\ Authentic
               /\ ~msg.truncated /\ msg.rcode = "nxdomain"
      BY <2>4 DEF AddressesBelong, NegativeIsProof
    <2>5. CASE /\ verdict = collect(msg, x) /\ Authentic
               /\ ~msg.truncated /\ msg.rcode = "noerror"
      <3>1. verdict.class = "ok" => verdict.addrs = AddrsOf(msg, {x})
        BY <2>2, <2>5, Collected
      <3>2. AddrsOf(msg, {x}) \subseteq AddrsOf(msg, Reached(msg))
        BY <2>2 DEF AddrsOf
      <3>3. verdict.class = "ok" => AddrsOf(msg, {x}) # {} /\ AddrsOf(msg, {x}) \subseteq Public
        BY <2>2, <2>5, Collected
      <3>4. AddressesBelong
        BY <2>5, <3>1, <3>2, <3>3 DEF AddressesBelong
      <3>5. verdict.class = "empty" => AddrsOf(msg, Owners) = {}
        BY <2>2, <2>5, Collected DEF AddrsOf
      <3> QED
        BY <2>5, <3>4, <3>5 DEF NegativeIsProof
    <2> QED
      BY <2>1, <2>3, <2>4, <2>5 DEF classify, Authentic, x
  <1>2. Judged => VerdictJustified
    BY <1>1 DEF VerdictJustified, AddressesBelong, NegativeIsProof
  <1> QED
    BY JudgedInvariance, <1>2, PTL

(* A well-formed authenticated answer is never turned down, whatever the   *)
(* order of its records and the length of its chain (classify).            *)
THEOREM GoodAnswerAcceptedThm == ClassifySpec => []GoodAnswerAccepted
  <1> DEFINE x == chase(msg, Query).owner
             last == {z \in Reached(msg) : \A y \in Owners : ~Edge(msg, z, y)}
             good == AddrsOf(msg, last)
  <1>1. ASSUME Judged, verdict # Pending, PlainChain(msg),
               ~msg.truncated, msg.rcode = "noerror", Authentic,
               good # {}, good \subseteq Public
        PROVE  verdict = [class |-> "ok", addrs |-> good]
    <2>1. msg \in Message /\ verdict = classify(msg, Query, require)
      BY <1>1, MessagesAssumption DEF Judged
    <2>2. x \in Owners
      BY <2>1, ChaseFollowed DEF Followed, Chase
    <2>3. ~chase(msg, Query).loop /\ last = {x}
      BY <1>1, <2>1, PlainChainEnds
    <2>4. verdict = collect(msg, x)
      BY <1>1, <2>1, <2>3 DEF classify, Authentic
    <2> HIDE DEF x, last
    <2> QED
      BY <1>1, <2>2, <2>3, <2>4, Collected
  <1>2. Judged => GoodAnswerAccepted
    BY <1>1, Zenon DEF GoodAnswerAccepted
  <1> QED
    BY JudgedInvariance, <1>2, PTL

-----------------------------------------------------------------------------
(* The address check.                                                      *)

IsAddress(a) == \A k \in 1 .. 4 : a[k] \in Octet

(* The powers of two that occur.                                           *)
LEMMA Powers ==
    /\ 2 ^ 0 = 1 /\ 2 ^ 1 = 2 /\ 2 ^ 2 = 4 /\ 2 ^ 3 = 8 /\ 2 ^ 4 = 16
    /\ 2 ^ 5 = 32 /\ 2 ^ 6 = 64 /\ 2 ^ 7 = 128 /\ 2 ^ 8 = 256
  OBVIOUS

(* The same, for an exponent that is not known.                            *)
LEMMA PowerValues == \A i \in 0 .. 8 : 2 ^ i \in {1, 2, 4, 8, 16, 32, 64, 128, 256}
  <1> DEFINE Power(i) == 2 ^ i
  <1>1. /\ Power(0) = 1 /\ Power(1) = 2 /\ Power(2) = 4 /\ Power(3) = 8 /\ Power(4) = 16
        /\ Power(5) = 32 /\ Power(6) = 64 /\ Power(7) = 128 /\ Power(8) = 256
    BY Powers
  <1> HIDE DEF Power
  <1>2. \A i \in 0 .. 8 : Power(i) \in {1, 2, 4, 8, 16, 32, 64, 128, 256}
    BY <1>1
  <1> QED
    BY <1>2 DEF Power

(* What the bits of an octet from bit s upwards say.                       *)
LEMMA OctetBits ==
    ASSUME NEW o \in Octet, NEW p \in Octet, NEW s \in 0 .. 8
    PROVE  (\A j \in 0 .. 7 : j >= s => (o \div 2 ^ j) % 2 = (p \div 2 ^ j) % 2)
              <=> o \div 2 ^ s = p \div 2 ^ s
  <1> DEFINE SameBit(j) == (o \div 2 ^ j) % 2 = (p \div 2 ^ j) % 2
             Same(j) == o \div 2 ^ j = p \div 2 ^ j
  <1>1. Same(8)
    BY Powers DEF Octet
  <1>2. Same(7) <=> Same(8) /\ SameBit(7)
    BY Powers DEF Octet
  <1>3. Same(6) <=> Same(7) /\ SameBit(6)
    BY Powers DEF Octet
  <1>4. Same(5) <=> Same(6) /\ SameBit(5)
    BY Powers DEF Octet
  <1>5. Same(4) <=> Same(5) /\ SameBit(4)
    BY Powers DEF Octet
  <1>6. Same(3) <=> Same(4) /\ SameBit(3)
    BY Powers DEF Octet
  <1>7. Same(2) <=> Same(3) /\ SameBit(2)
    BY Powers DEF Octet
  <1>8. Same(1) <=> Same(2) /\ SameBit(1)
    BY Powers DEF Octet
  <1>9. Same(0) <=> Same(1) /\ SameBit(0)
    BY Powers DEF Octet
  <1> HIDE DEF Same, SameBit
  <1>10. (\A j \in 0 .. 7 : j >= s => SameBit(j)) <=> Same(s)
    BY <1>1, <1>2, <1>3, <1>4, <1>5, <1>6, <1>7, <1>8, <1>9
  <1> QED
    BY <1>10 DEF Same, SameBit

(* Bit j of octet k is bit 8 * (4 - k) + j of the number.                  *)
LEMMA BitOfOctet ==
    ASSUME NEW a, NEW k \in 1 .. 4, NEW j \in 0 .. 7
    PROVE  Bit(a, 8 * (4 - k) + j) = (a[k] \div 2 ^ j) % 2
  <1>1. (8 * (4 - k) + j) \div 8 = 4 - k /\ (8 * (4 - k) + j) % 8 = j
    OBVIOUS
  <1>2. 4 - (4 - k) = k
    OBVIOUS
  <1> QED
    BY <1>1, <1>2 DEF Bit

(* How many low bits of octet k a prefix leaves to the hosts.              *)
HostBits(len, k) == IF len >= 8 * k THEN 0 ELSE IF len <= 8 * (k - 1) THEN 8 ELSE 8 * k - len

(* Host is a power of two.                                                 *)
LEMMA HostIsPower ==
    ASSUME NEW len \in PrefixLen, NEW k \in 1 .. 4
    PROVE  HostBits(len, k) \in 0 .. 8 /\ Host(len, k) = 2 ^ HostBits(len, k)
  <1>1. HostBits(len, k) \in 0 .. 8
    BY DEF HostBits, PrefixLen
  <1>2. CASE len >= 8 * k
    BY <1>2, Powers DEF HostBits, Host, PrefixLen
  <1>3. CASE len <= 8 * (k - 1)
    BY <1>3, Powers DEF HostBits, Host, PrefixLen
  <1>4. CASE 8 * (k - 1) < len /\ len < 8 * k
    <2>1. Host(len, k) = 2 ^ (8 * k - len)
      BY <1>4 DEF Host, PrefixLen
    <2>2. HostBits(len, k) = 8 * k - len
      BY <1>4 DEF HostBits, PrefixLen
    <2> QED
      BY <1>1, <2>1, <2>2
  <1> QED
    BY <1>1, <1>2, <1>3, <1>4 DEF PrefixLen

(* The mask compares the addresses octet by octet, without their host bits.*)
LEMMA InRangeByOctet ==
    ASSUME NEW a, NEW net, NEW len \in PrefixLen, IsAddress(a), IsAddress(net)
    PROVE  in_range(a, net, len) <=>
              \A k \in 1 .. 4 : a[k] \div Host(len, k) = net[k] \div Host(len, k)
  <1> DEFINE Agree(i) == Shifted(32 - len, i) * Bit(a, i) = Shifted(32 - len, i) * Bit(net, i)
             SameBit(k, j) == (a[k] \div 2 ^ j) % 2 = (net[k] \div 2 ^ j) % 2
             Same(k) == a[k] \div Host(len, k) = net[k] \div Host(len, k)
  <1>1. ASSUME NEW k \in 1 .. 4, NEW j \in 0 .. 7
        PROVE  len # 0 => (Agree(8 * (4 - k) + j) <=> (j >= HostBits(len, k) => SameBit(k, j)))
    <2> DEFINE i == 8 * (4 - k) + j
    <2>1. len # 0 => (i >= 32 - len <=> j >= HostBits(len, k))
      BY DEF HostBits, PrefixLen
    <2>2. Bit(a, i) \in Int /\ Bit(net, i) \in Int
      <3>1. 2 ^ j \in Nat \ {0}
        <4>1. j \in 0 .. 8
          OBVIOUS
        <4>2. 2 ^ j \in {1, 2, 4, 8, 16, 32, 64, 128, 256}
          BY <4>1, PowerValues, Zenon
        <4> QED
          BY <4>2
      <3>2. \A q \in Octet, d \in Nat \ {0} : (q \div d) % 2 \in Int
        BY DEF Octet
      <3>3. a[k] \in Octet /\ net[k] \in Octet
        BY DEF IsAddress
      <3> HIDE DEF i
      <3>4. Bit(a, i) = (a[k] \div 2 ^ j) % 2 /\ Bit(net, i) = (net[k] \div 2 ^ j) % 2
        BY BitOfOctet DEF i
      <3> QED
        BY <3>1, <3>2, <3>3, <3>4
    <2>3. Bit(a, i) = Bit(net, i) <=> SameBit(k, j)
      BY BitOfOctet
    <2>4. Agree(i) <=> (i >= 32 - len => Bit(a, i) = Bit(net, i))
      <3> HIDE DEF i
      <3> QED
        BY <2>2 DEF Shifted
    <2> HIDE DEF i, SameBit, Agree
    <2> QED
      BY <2>1, <2>3, <2>4 DEF i
  <1>2. ASSUME NEW k \in 1 .. 4
        PROVE  (\A j \in 0 .. 7 : j >= HostBits(len, k) => SameBit(k, j)) <=> Same(k)
    <2>1. a[k] \in Octet /\ net[k] \in Octet
      BY DEF IsAddress
    <2>2. HostBits(len, k) \in 0 .. 8 /\ Host(len, k) = 2 ^ HostBits(len, k)
      BY HostIsPower
    <2> DEFINE s == HostBits(len, k)
               o == a[k]
               p == net[k]
    <2>3. o \in Octet /\ p \in Octet /\ s \in 0 .. 8
      BY <2>1, <2>2
    <2> HIDE DEF s, o, p
    <2>4. (\A j \in 0 .. 7 : j >= s => (o \div 2 ^ j) % 2 = (p \div 2 ^ j) % 2)
             <=> o \div 2 ^ s = p \div 2 ^ s
      BY <2>3, OctetBits
    <2> QED
      BY <2>2, <2>4 DEF s, o, p
  <1>3. \A i \in 0 .. 31 : \E k \in 1 .. 4, j \in 0 .. 7 : i = 8 * (4 - k) + j
    <2> SUFFICES ASSUME NEW i \in 0 .. 31 PROVE \E k \in 1 .. 4, j \in 0 .. 7 : i = 8 * (4 - k) + j
      OBVIOUS
    <2>1. 4 - (i \div 8) \in 1 .. 4 /\ i % 8 \in 0 .. 7 /\ i = 8 * (4 - (4 - (i \div 8))) + (i % 8)
      OBVIOUS
    <2> QED
      BY <2>1
  <1>4. \A k \in 1 .. 4, j \in 0 .. 7 : 8 * (4 - k) + j \in 0 .. 31
    OBVIOUS
  <1>5. CASE len = 0
    <2>1. \A k \in 1 .. 4 : HostBits(len, k) = 8
      BY <1>5 DEF HostBits
    <2>2. \A k \in 1 .. 4 : Same(k)
      BY <1>2, <2>1
    <2> QED
      BY <1>5, <2>2 DEF in_range
  <1>6. CASE len # 0
    <2> HIDE DEF Agree, SameBit, Same
    <2>1. (\A i \in 0 .. 31 : Agree(i)) <=> \A k \in 1 .. 4, j \in 0 .. 7 : Agree(8 * (4 - k) + j)
      BY <1>3, <1>4, Zenon
    <2>2. (\A k \in 1 .. 4, j \in 0 .. 7 : Agree(8 * (4 - k) + j)) <=> \A k \in 1 .. 4 : Same(k)
      BY <1>1, <1>2, <1>6, Zenon
    <2> QED
      BY <1>6, <2>1, <2>2 DEF in_range, Agree, Same
  <1> QED
    BY <1>5, <1>6

(* Octet by octet, a block is a range.                                     *)
LEMMA InRangeByBounds ==
    ASSUME NEW a, NEW net, NEW len \in PrefixLen, IsAddress(a), IsAddress(net)
    PROVE  in_range(a, net, len) <=>
              \A k \in 1 .. 4 : FirstOf(net, len)[k] <= a[k] /\ a[k] <= LastOf(net, len)[k]
  <1>1. ASSUME NEW k \in 1 .. 4
        PROVE  a[k] \div Host(len, k) = net[k] \div Host(len, k)
                  <=> FirstOf(net, len)[k] <= a[k] /\ a[k] <= LastOf(net, len)[k]
    <2> DEFINE o == a[k]
               p == net[k]
               h == Host(len, k)
    <2>1. o \in Octet /\ p \in Octet
      BY DEF IsAddress
    <2>2. h \in {1, 2, 4, 8, 16, 32, 64, 128, 256}
      <3>1. HostBits(len, k) \in 0 .. 8 /\ h = 2 ^ HostBits(len, k)
        BY HostIsPower
      <3>2. 2 ^ HostBits(len, k) \in {1, 2, 4, 8, 16, 32, 64, 128, 256}
        BY <3>1, PowerValues, Zenon
      <3> HIDE DEF h
      <3> QED
        BY <3>1, <3>2
    <2>3. FirstOf(net, len)[k] = p - (p % h) /\ LastOf(net, len)[k] = p - (p % h) + h - 1
      BY DEF FirstOf, LastOf
    <2> HIDE DEF o, p, h
    <2>4. o \div h = p \div h <=> p - (p % h) <= o /\ o <= p - (p % h) + h - 1
      BY <2>1, <2>2 DEF Octet
    <2> QED
      BY <2>3, <2>4 DEF o, p, h
  <1> QED
    BY <1>1, InRangeByOctet

-----------------------------------------------------------------------------

(* Below compares the octets from the most significant one on.             *)
LEMMA BelowOctets ==
    ASSUME NEW a, NEW b
    PROVE  Below(a, b) <=> \/ a[1] < b[1]
                           \/ a[1] = b[1] /\ a[2] < b[2]
                           \/ a[1] = b[1] /\ a[2] = b[2] /\ a[3] < b[3]
                           \/ a[1] = b[1] /\ a[2] = b[2] /\ a[3] = b[3] /\ a[4] < b[4]
  <1> DEFINE Same(k) == \A j \in 1 .. k - 1 : a[j] = b[j]
  <1>1. /\ Same(1)
        /\ Same(2) <=> a[1] = b[1]
        /\ Same(3) <=> a[1] = b[1] /\ a[2] = b[2]
        /\ Same(4) <=> a[1] = b[1] /\ a[2] = b[2] /\ a[3] = b[3]
    OBVIOUS
  <1> DEFINE First(k) == a[k] < b[k] /\ Same(k)
  <1>2. Below(a, b) <=> \E k \in 1 .. 4 : First(k)
    BY DEF Below
  <1> HIDE DEF First
  <1>3. (\E k \in 1 .. 4 : First(k)) <=> First(1) \/ First(2) \/ First(3) \/ First(4)
    OBVIOUS
  <1> HIDE DEF Same
  <1> QED
    BY <1>1, <1>2, <1>3, Zenon DEF First

(* What a prefix leaves of its four octets: none, some or all of the bits. *)
LEMMA HostValues ==
    ASSUME NEW len \in PrefixLen, NEW k \in 1 .. 4
    PROVE  /\ Host(len, k) \in 1 .. 256
           /\ len >= 8 * k => Host(len, k) = 1
           /\ len <= 8 * (k - 1) => Host(len, k) = 256
  <1>1. HostBits(len, k) \in 0 .. 8 /\ Host(len, k) = 2 ^ HostBits(len, k)
    BY HostIsPower
  <1>2. 2 ^ HostBits(len, k) \in {1, 2, 4, 8, 16, 32, 64, 128, 256}
    BY <1>1, PowerValues, Zenon
  <1>3. Host(len, k) \in 1 .. 256
    BY <1>1, <1>2
  <1>4. len >= 8 * k => Host(len, k) = 1
    BY DEF Host, PrefixLen
  <1>5. len <= 8 * (k - 1) => Host(len, k) = 256
    BY DEF Host, PrefixLen
  <1> QED
    BY <1>3, <1>4, <1>5

(* The first and the last octets: the network's own, or 0 and 255.         *)
LEMMA BoundValues ==
    ASSUME NEW net, NEW len \in PrefixLen, NEW k \in 1 .. 4, IsAddress(net)
    PROVE  LET f == FirstOf(net, len)[k]
               l == LastOf(net, len)[k]
           IN  /\ f \in Int /\ l \in Int /\ f <= l
               /\ len >= 8 * k => f = net[k] /\ l = net[k]
               /\ len <= 8 * (k - 1) => f = 0 /\ l = 255
  <1> DEFINE h == Host(len, k)
             p == net[k]
  <1>1. FirstOf(net, len)[k] = p - (p % h) /\ LastOf(net, len)[k] = p - (p % h) + h - 1
    BY DEF FirstOf, LastOf
  <1>2. p \in Octet
    BY DEF IsAddress
  <1>3. h \in 1 .. 256 /\ (len >= 8 * k => h = 1) /\ (len <= 8 * (k - 1) => h = 256)
    BY HostValues
  <1>4. p % h \in Int /\ (h = 1 => p % h = 0) /\ (h = 256 => p % h = p)
    <2> HIDE DEF h, p
    <2> QED
      BY <1>2, <1>3 DEF Octet
  <1> HIDE DEF h, p
  <1>5. /\ FirstOf(net, len)[k] \in Int /\ LastOf(net, len)[k] \in Int
        /\ FirstOf(net, len)[k] <= LastOf(net, len)[k]
    BY <1>1, <1>2, <1>3, <1>4 DEF Octet
  <1>6. len >= 8 * k => FirstOf(net, len)[k] = p /\ LastOf(net, len)[k] = p
    BY <1>1, <1>2, <1>3, <1>4 DEF Octet
  <1>7. len <= 8 * (k - 1) => FirstOf(net, len)[k] = 0 /\ LastOf(net, len)[k] = 255
    BY <1>1, <1>2, <1>3, <1>4 DEF Octet
  <1> QED
    BY <1>5, <1>6, <1>7 DEF p

(* A block is an interval of the addresses.                                *)
LEMMA InRangeInterval ==
    ASSUME NEW a, NEW net, NEW len \in PrefixLen, IsAddress(a), IsAddress(net)
    PROVE  in_range(a, net, len) <=>
              ~Below(a, FirstOf(net, len)) /\ ~Below(LastOf(net, len), a)
  <1> DEFINE f == FirstOf(net, len)
             l == LastOf(net, len)
             Inside(k) == f[k] <= a[k] /\ a[k] <= l[k]
  <1>1. in_range(a, net, len) <=> Inside(1) /\ Inside(2) /\ Inside(3) /\ Inside(4)
    BY InRangeByBounds
  <1>2. \A k \in 1 .. 4 : /\ a[k] \in Octet /\ f[k] \in Int /\ l[k] \in Int /\ f[k] <= l[k]
                          /\ len >= 8 * k => f[k] = l[k]
                          /\ len <= 8 * (k - 1) => f[k] = 0 /\ l[k] = 255
    BY BoundValues DEF IsAddress
  <1>3. /\ Below(a, f) <=> \/ a[1] < f[1]
                           \/ a[1] = f[1] /\ a[2] < f[2]
                           \/ a[1] = f[1] /\ a[2] = f[2] /\ a[3] < f[3]
                           \/ a[1] = f[1] /\ a[2] = f[2] /\ a[3] = f[3] /\ a[4] < f[4]
        /\ Below(l, a) <=> \/ l[1] < a[1]
                           \/ l[1] = a[1] /\ l[2] < a[2]
                           \/ l[1] = a[1] /\ l[2] = a[2] /\ l[3] < a[3]
                           \/ l[1] = a[1] /\ l[2] = a[2] /\ l[3] = a[3] /\ l[4] < a[4]
    BY BelowOctets
  <1> HIDE DEF f, l
  <1>4. /\ Inside(1) <=> f[1] <= a[1] /\ a[1] <= l[1]
        /\ Inside(2) <=> f[2] <= a[2] /\ a[2] <= l[2]
        /\ Inside(3) <=> f[3] <= a[3] /\ a[3] <= l[3]
        /\ Inside(4) <=> f[4] <= a[4] /\ a[4] <= l[4]
    OBVIOUS
  <1>5. /\ a[1] \in 0 .. 255 /\ a[2] \in 0 .. 255 /\ a[3] \in 0 .. 255 /\ a[4] \in 0 .. 255
        /\ f[1] \in Int /\ f[2] \in Int /\ f[3] \in Int /\ f[4] \in Int
        /\ l[1] \in Int /\ l[2] \in Int /\ l[3] \in Int /\ l[4] \in Int
        /\ f[1] <= l[1] /\ f[2] <= l[2] /\ f[3] <= l[3] /\ f[4] <= l[4]
    BY <1>2 DEF Octet
  <1>6. \/ f[2] = 0 /\ l[2] = 255 /\ f[3] = 0 /\ l[3] = 255 /\ f[4] = 0 /\ l[4] = 255
        \/ f[1] = l[1] /\ f[3] = 0 /\ l[3] = 255 /\ f[4] = 0 /\ l[4] = 255
        \/ f[1] = l[1] /\ f[2] = l[2] /\ f[4] = 0 /\ l[4] = 255
        \/ f[1] = l[1] /\ f[2] = l[2] /\ f[3] = l[3]
    BY <1>2 DEF PrefixLen
  <1> DEFINE In == Inside(1) /\ Inside(2) /\ Inside(3) /\ Inside(4)
             Out == Below(a, f) \/ Below(l, a)
  <1> SUFFICES In <=> ~Out
    BY <1>1 DEF f, l
  <1>7. CASE f[2] = 0 /\ l[2] = 255 /\ f[3] = 0 /\ l[3] = 255 /\ f[4] = 0 /\ l[4] = 255
    <2>1. In <=> f[1] <= a[1] /\ a[1] <= l[1]
      BY <1>4, <1>5, <1>7
    <2>2. Below(a, f) <=> a[1] < f[1]
      BY <1>3, <1>5, <1>7
    <2>3. Below(l, a) <=> l[1] < a[1]
      BY <1>3, <1>5, <1>7
    <2> HIDE DEF Inside
    <2> QED
      BY <1>5, <2>1, <2>2, <2>3
  <1>8. CASE f[1] = l[1] /\ f[3] = 0 /\ l[3] = 255 /\ f[4] = 0 /\ l[4] = 255
    <2>1. In <=> a[1] = f[1] /\ f[2] <= a[2] /\ a[2] <= l[2]
      BY <1>4, <1>5, <1>8
    <2>2. Below(a, f) <=> a[1] < f[1] \/ (a[1] = f[1] /\ a[2] < f[2])
      BY <1>3, <1>5, <1>8
    <2>3. Below(l, a) <=> l[1] < a[1] \/ (l[1] = a[1] /\ l[2] < a[2])
      BY <1>3, <1>5, <1>8
    <2> HIDE DEF Inside
    <2> QED
      BY <1>5, <1>8, <2>1, <2>2, <2>3
  <1>9. CASE f[1] = l[1] /\ f[2] = l[2] /\ f[4] = 0 /\ l[4] = 255
    <2>1. In <=> a[1] = f[1] /\ a[2] = f[2] /\ f[3] <= a[3] /\ a[3] <= l[3]
      BY <1>4, <1>5, <1>9
    <2>2. Below(a, f) <=> \/ a[1] < f[1]
                          \/ a[1] = f[1] /\ a[2] < f[2]
                          \/ a[1] = f[1] /\ a[2] = f[2] /\ a[3] < f[3]
      BY <1>3, <1>5, <1>9
    <2>3. Below(l, a) <=> \/ l[1] < a[1]
                          \/ l[1] = a[1] /\ l[2] < a[2]
                          \/ l[1] = a[1] /\ l[2] = a[2] /\ l[3] < a[3]
      BY <1>3, <1>5, <1>9
    <2> HIDE DEF Inside
    <2> QED
      BY <1>5, <1>9, <2>1, <2>2, <2>3
  <1>10. CASE f[1] = l[1] /\ f[2] = l[2] /\ f[3] = l[3]
    <2>1. In <=> a[1] = f[1] /\ a[2] = f[2] /\ a[3] = f[3] /\ f[4] <= a[4] /\ a[4] <= l[4]
      BY <1>4, <1>5, <1>10
    <2> HIDE DEF Inside
    <2>2. CASE a[1] = f[1] /\ a[2] = f[2] /\ a[3] = f[3]
      BY <1>3, <1>5, <1>10, <2>1, <2>2
    <2>3. CASE ~(a[1] = f[1] /\ a[2] = f[2] /\ a[3] = f[3])
      BY <1>3, <1>5, <1>10, <2>1, <2>3
    <2> QED
      BY <2>2, <2>3
  <1> QED
    BY <1>6, <1>7, <1>8, <1>9, <1>10

-----------------------------------------------------------------------------

(* The addresses of one last octet that agree in its upper r bits.         *)
Span(r) == 2 ^ (8 - r)

(* A prefix of 8 * n + r bits fixes n octets and the upper r bits of the   *)
(* next one.                                                               *)
LEMMA InRangePrefix ==
    ASSUME NEW a, NEW net, NEW n \in 0 .. 3, NEW r \in 0 .. 7, IsAddress(a), IsAddress(net)
    PROVE  in_range(a, net, 8 * n + r) <=>
              /\ \A k \in 1 .. n : a[k] = net[k]
              /\ a[n + 1] \div Span(r) = net[n + 1] \div Span(r)
  <1> DEFINE len == 8 * n + r
             Same(k) == a[k] \div Host(len, k) = net[k] \div Host(len, k)
  <1>1. len \in PrefixLen
    BY DEF PrefixLen
  <1>2. in_range(a, net, len) <=> \A k \in 1 .. 4 : Same(k)
    BY <1>1, InRangeByOctet
  <1>3. ASSUME NEW k \in 1 .. 4 PROVE a[k] \in Octet /\ net[k] \in Octet
    BY DEF IsAddress
  <1>4. ASSUME NEW k \in 1 .. n PROVE Same(k) <=> a[k] = net[k]
    <2>1. k \in 1 .. 4 /\ len >= 8 * k
      OBVIOUS
    <2>2. Host(len, k) = 1
      BY <1>1, <2>1, HostValues
    <2>3. \A o \in Octet : o \div 1 = o
      BY DEF Octet
    <2> HIDE DEF len
    <2> QED
      BY <1>3, <2>1, <2>2, <2>3
  <1>5. ASSUME NEW k \in n + 2 .. 4 PROVE Same(k)
    <2>1. k \in 1 .. 4 /\ len <= 8 * (k - 1)
      OBVIOUS
    <2>2. Host(len, k) = 256
      BY <1>1, <2>1, HostValues
    <2> QED
      BY <1>3, <2>1, <2>2 DEF Octet
  <1>6. Host(len, n + 1) = Span(r)
    <2>1. CASE r = 0
      <3>1. n + 1 \in 1 .. 4 /\ len <= 8 * ((n + 1) - 1)
        BY <2>1
      <3>2. Host(len, n + 1) = 256
        BY <1>1, <3>1, HostValues
      <3> QED
        BY <2>1, <3>2, Powers DEF Span
    <2>2. CASE r # 0
      <3>1. ~(len >= 8 * (n + 1)) /\ ~(len <= 8 * ((n + 1) - 1)) /\ 8 * (n + 1) - len = 8 - r
        BY <2>2
      <3> QED
        BY <3>1 DEF Host, Span
    <2> QED
      BY <2>1, <2>2
  <1> DEFINE Partial == a[n + 1] \div Span(r) = net[n + 1] \div Span(r)
  <1>7. Same(n + 1) <=> Partial
    BY <1>6
  <1>8. 1 .. 4 = (1 .. n) \cup {n + 1} \cup (n + 2 .. 4)
    OBVIOUS
  <1> HIDE DEF Same, Partial
  <1>9. (\A k \in 1 .. 4 : Same(k)) <=> (\A k \in 1 .. n : a[k] = net[k]) /\ Partial
    BY <1>4, <1>5, <1>7, <1>8, Zenon
  <1> QED
    BY <1>2, <1>9 DEF Partial

(* The lengths that end with an octet.                                     *)
LEMMA InRangeWhole ==
    ASSUME NEW a, NEW x \in Octet, NEW y \in Octet, NEW z \in Octet, IsAddress(a)
    PROVE  /\ in_range(a, <<x, 0, 0, 0>>, 8) <=> a[1] = x
           /\ in_range(a, <<x, y, 0, 0>>, 16) <=> a[1] = x /\ a[2] = y
           /\ in_range(a, <<x, y, z, 0>>, 24) <=> a[1] = x /\ a[2] = y /\ a[3] = z
  <1>1. /\ IsAddress(<<x, 0, 0, 0>>) /\ IsAddress(<<x, y, 0, 0>>) /\ IsAddress(<<x, y, z, 0>>)
        /\ a[2] \in Octet /\ a[3] \in Octet /\ a[4] \in Octet
    BY DEF IsAddress, Octet
  <1>2. \A net : \A n \in 1 .. 3 : IsAddress(net) =>
           (in_range(a, net, 8 * n + 0) <=>
              /\ \A k \in 1 .. n : a[k] = net[k]
              /\ a[n + 1] \div 256 = net[n + 1] \div 256)
    <2> SUFFICES ASSUME NEW net, NEW n \in 1 .. 3, IsAddress(net)
                 PROVE  in_range(a, net, 8 * n + 0) <=>
                           /\ \A k \in 1 .. n : a[k] = net[k]
                           /\ a[n + 1] \div 256 = net[n + 1] \div 256
      OBVIOUS
    <2>1. n \in 0 .. 3 /\ 0 \in 0 .. 7 /\ Span(0) = 256
      BY Powers DEF Span
    <2> QED
      BY <2>1, InRangePrefix
  <1>3. \A o \in Octet : o \div 256 = 0
    BY DEF Octet
  <1>4. in_range(a, <<x, 0, 0, 0>>, 8) <=> a[1] = x
    <2> DEFINE net == <<x, 0, 0, 0>>
    <2>1. net[1] = x /\ net[2] = 0 /\ IsAddress(net)
      BY <1>1
    <2> HIDE DEF net
    <2> DEFINE n == 1
    <2>2. n \in 1 .. 3
      OBVIOUS
    <2> HIDE DEF n
    <2>3. in_range(a, net, 8 * n + 0) <=> /\ \A k \in 1 .. n : a[k] = net[k]
                                          /\ a[n + 1] \div 256 = net[n + 1] \div 256
      BY <1>2, <2>1, <2>2
    <2>4. in_range(a, net, 8) <=> a[1] = x
      BY <1>1, <1>3, <2>1, <2>3 DEF n
    <2> QED
      BY <2>4 DEF net
  <1>5. in_range(a, <<x, y, 0, 0>>, 16) <=> a[1] = x /\ a[2] = y
    <2> DEFINE net == <<x, y, 0, 0>>
    <2>1. net[1] = x /\ net[2] = y /\ net[3] = 0 /\ IsAddress(net)
      BY <1>1
    <2> HIDE DEF net
    <2> DEFINE n == 2
    <2>2. n \in 1 .. 3
      OBVIOUS
    <2> HIDE DEF n
    <2>3. in_range(a, net, 8 * n + 0) <=> /\ \A k \in 1 .. n : a[k] = net[k]
                                          /\ a[n + 1] \div 256 = net[n + 1] \div 256
      BY <1>2, <2>1, <2>2
    <2>4. in_range(a, net, 16) <=> a[1] = x /\ a[2] = y
      BY <1>1, <1>3, <2>1, <2>3 DEF n
    <2> QED
      BY <2>4 DEF net
  <1>6. in_range(a, <<x, y, z, 0>>, 24) <=> a[1] = x /\ a[2] = y /\ a[3] = z
    <2> DEFINE net == <<x, y, z, 0>>
    <2>1. net[1] = x /\ net[2] = y /\ net[3] = z /\ net[4] = 0 /\ IsAddress(net)
      BY <1>1
    <2> HIDE DEF net
    <2> DEFINE n == 3
    <2>2. n \in 1 .. 3
      OBVIOUS
    <2> HIDE DEF n
    <2>3. in_range(a, net, 8 * n + 0) <=> /\ \A k \in 1 .. n : a[k] = net[k]
                                          /\ a[n + 1] \div 256 = net[n + 1] \div 256
      BY <1>2, <2>1, <2>2
    <2>4. in_range(a, net, 24) <=> a[1] = x /\ a[2] = y /\ a[3] = z
      BY <1>1, <1>3, <2>1, <2>3 DEF n
    <2> QED
      BY <2>4 DEF net
  <1> QED
    BY <1>4, <1>5, <1>6

(* The lengths that end within the first or the second octet: the octet    *)
(* ranges over the h values that share its upper r bits.                   *)
LEMMA InRangeFirst ==
    ASSUME NEW a, NEW net, NEW r \in 0 .. 7, NEW h, h = Span(r), net[1] % h = 0,
           IsAddress(a), IsAddress(net)
    PROVE  in_range(a, net, r) <=> a[1] \in net[1] .. net[1] + h - 1
  <1> DEFINE n == 0
  <1>1. n \in 0 .. 3 /\ a[1] \in Octet /\ net[1] \in Octet
    BY DEF IsAddress
  <1> HIDE DEF n
  <1>2. in_range(a, net, 8 * n + r) <=> /\ \A k \in 1 .. n : a[k] = net[k]
                                        /\ a[n + 1] \div h = net[n + 1] \div h
    BY <1>1, InRangePrefix
  <1>3. in_range(a, net, r) <=> a[1] \div h = net[1] \div h
    BY <1>1, <1>2 DEF n
  <1>4. h \in {1, 2, 4, 8, 16, 32, 64, 128, 256}
    <2>1. 8 - r \in 0 .. 8
      OBVIOUS
    <2> QED
      BY <2>1, PowerValues, Zenon DEF Span
  <1>5. a[1] \div h = net[1] \div h <=> a[1] \in net[1] .. net[1] + h - 1
    <2> DEFINE o == a[1]
               p == net[1]
    <2>1. o \in Octet /\ p \in Octet /\ p % h = 0
      BY <1>1
    <2> HIDE DEF o, p
    <2>2. o \div h = p \div h <=> o \in p .. p + h - 1
      BY <1>4, <2>1 DEF Octet
    <2> QED
      BY <2>2 DEF o, p
  <1> QED
    BY <1>3, <1>5

(* Likewise for the second octet.                                          *)
LEMMA InRangeSecond ==
    ASSUME NEW a, NEW net, NEW r \in 0 .. 7, NEW h, h = Span(r), net[2] % h = 0,
           NEW len, len = 8 + r, IsAddress(a), IsAddress(net)
    PROVE  in_range(a, net, len) <=> a[1] = net[1] /\ a[2] \in net[2] .. net[2] + h - 1
  <1> DEFINE n == 1
  <1>1. n \in 0 .. 3 /\ a[2] \in Octet /\ net[2] \in Octet
    BY DEF IsAddress
  <1> HIDE DEF n
  <1>2. in_range(a, net, 8 * n + r) <=> /\ \A k \in 1 .. n : a[k] = net[k]
                                        /\ a[n + 1] \div h = net[n + 1] \div h
    BY <1>1, InRangePrefix
  <1>3. in_range(a, net, len) <=> a[1] = net[1] /\ a[2] \div h = net[2] \div h
    BY <1>1, <1>2 DEF n
  <1>4. h \in {1, 2, 4, 8, 16, 32, 64, 128, 256}
    <2>1. 8 - r \in 0 .. 8
      OBVIOUS
    <2> QED
      BY <2>1, PowerValues, Zenon DEF Span
  <1>5. a[2] \div h = net[2] \div h <=> a[2] \in net[2] .. net[2] + h - 1
    <2> DEFINE o == a[2]
               p == net[2]
    <2>1. o \in Octet /\ p \in Octet /\ p % h = 0
      BY <1>1
    <2> HIDE DEF o, p
    <2>2. o \div h = p \div h <=> o \in p .. p + h - 1
      BY <1>4, <2>1 DEF Octet
    <2> QED
      BY <2>2 DEF o, p
  <1> QED
    BY <1>3, <1>5

(* The entries of the table whose length is no whole number of octets.     *)
LEMMA SplitBlocks ==
    ASSUME NEW a, IsAddress(a)
    PROVE  /\ in_range(a, <<100, 64, 0, 0>>, 10) <=> a[1] = 100 /\ a[2] \in 64 .. 127
           /\ in_range(a, <<172, 16, 0, 0>>, 12) <=> a[1] = 172 /\ a[2] \in 16 .. 31
           /\ in_range(a, <<198, 18, 0, 0>>, 15) <=> a[1] = 198 /\ a[2] \in 18 .. 19
           /\ in_range(a, <<224, 0, 0, 0>>, 4) <=> a[1] \in 224 .. 239
           /\ in_range(a, <<240, 0, 0, 0>>, 4) <=> a[1] \in 240 .. 255
  <1>1. in_range(a, <<100, 64, 0, 0>>, 10) <=> a[1] = 100 /\ a[2] \in 64 .. 127
    <2> DEFINE net == <<100, 64, 0, 0>>
               len == 10
               r == 2
               h == 64
    <2>1. /\ net[1] = 100 /\ net[2] = 64 /\ IsAddress(net) /\ net[2] % h = 0
          /\ r \in 0 .. 7 /\ len = 8 + r /\ h = Span(r)
      BY Powers DEF IsAddress, Octet, Span
    <2> HIDE DEF net, len, r, h
    <2>2. in_range(a, net, len) <=> a[1] = net[1] /\ a[2] \in net[2] .. net[2] + h - 1
      BY <2>1, InRangeSecond
    <2>3. in_range(a, net, len) <=> a[1] = 100 /\ a[2] \in 64 .. 127
      BY <2>1, <2>2 DEF h
    <2> QED
      BY <2>3 DEF net, len
  <1>2. in_range(a, <<172, 16, 0, 0>>, 12) <=> a[1] = 172 /\ a[2] \in 16 .. 31
    <2> DEFINE net == <<172, 16, 0, 0>>
               len == 12
               r == 4
               h == 16
    <2>1. /\ net[1] = 172 /\ net[2] = 16 /\ IsAddress(net) /\ net[2] % h = 0
          /\ r \in 0 .. 7 /\ len = 8 + r /\ h = Span(r)
      BY Powers DEF IsAddress, Octet, Span
    <2> HIDE DEF net, len, r, h
    <2>2. in_range(a, net, len) <=> a[1] = net[1] /\ a[2] \in net[2] .. net[2] + h - 1
      BY <2>1, InRangeSecond
    <2>3. in_range(a, net, len) <=> a[1] = 172 /\ a[2] \in 16 .. 31
      BY <2>1, <2>2 DEF h
    <2> QED
      BY <2>3 DEF net, len
  <1>3. in_range(a, <<198, 18, 0, 0>>, 15) <=> a[1] = 198 /\ a[2] \in 18 .. 19
    <2> DEFINE net == <<198, 18, 0, 0>>
               len == 15
               r == 7
               h == 2
    <2>1. /\ net[1] = 198 /\ net[2] = 18 /\ IsAddress(net) /\ net[2] % h = 0
          /\ r \in 0 .. 7 /\ len = 8 + r /\ h = Span(r)
      BY Powers DEF IsAddress, Octet, Span
    <2> HIDE DEF net, len, r, h
    <2>2. in_range(a, net, len) <=> a[1] = net[1] /\ a[2] \in net[2] .. net[2] + h - 1
      BY <2>1, InRangeSecond
    <2>3. in_range(a, net, len) <=> a[1] = 198 /\ a[2] \in 18 .. 19
      BY <2>1, <2>2 DEF h
    <2> QED
      BY <2>3 DEF net, len
  <1>4. in_range(a, <<224, 0, 0, 0>>, 4) <=> a[1] \in 224 .. 239
    <2> DEFINE net == <<224, 0, 0, 0>>
               r == 4
               h == 16
    <2>1. /\ net[1] = 224 /\ IsAddress(net) /\ net[1] % h = 0
          /\ r \in 0 .. 7 /\ h = Span(r)
      BY Powers DEF IsAddress, Octet, Span
    <2> HIDE DEF net, r, h
    <2>2. in_range(a, net, r) <=> a[1] \in net[1] .. net[1] + h - 1
      BY <2>1, InRangeFirst
    <2>3. in_range(a, net, r) <=> a[1] \in 224 .. 239
      BY <2>1, <2>2 DEF h
    <2> QED
      BY <2>3 DEF net, r
  <1>5. in_range(a, <<240, 0, 0, 0>>, 4) <=> a[1] \in 240 .. 255
    <2> DEFINE net == <<240, 0, 0, 0>>
               r == 4
               h == 16
    <2>1. /\ net[1] = 240 /\ IsAddress(net) /\ net[1] % h = 0
          /\ r \in 0 .. 7 /\ h = Span(r)
      BY Powers DEF IsAddress, Octet, Span
    <2> HIDE DEF net, r, h
    <2>2. in_range(a, net, r) <=> a[1] \in net[1] .. net[1] + h - 1
      BY <2>1, InRangeFirst
    <2>3. in_range(a, net, r) <=> a[1] \in 240 .. 255
      BY <2>1, <2>2 DEF h
    <2> QED
      BY <2>3 DEF net, r
  <1> QED
    BY <1>1, <1>2, <1>3, <1>4, <1>5

(* The table, entry by entry, is the registry of special-purpose blocks.   *)
LEMMA TableIsRegistry ==
    ASSUME NEW a, IsAddress(a)
    PROVE  is_global_unicast(a) <=> ~SpecialPurpose(a)
  <1> DEFINE Refused == \E r \in SPECIAL_RANGES : in_range(a, r.net, r.len)
  <1>1. Refused <=>
           \/ in_range(a, <<0, 0, 0, 0>>, 8) \/ in_range(a, <<10, 0, 0, 0>>, 8)
           \/ in_range(a, <<100, 64, 0, 0>>, 10) \/ in_range(a, <<127, 0, 0, 0>>, 8)
           \/ in_range(a, <<169, 254, 0, 0>>, 16) \/ in_range(a, <<172, 16, 0, 0>>, 12)
           \/ in_range(a, <<192, 0, 0, 0>>, 24) \/ in_range(a, <<192, 0, 2, 0>>, 24)
           \/ in_range(a, <<192, 88, 99, 0>>, 24) \/ in_range(a, <<192, 168, 0, 0>>, 16)
           \/ in_range(a, <<198, 18, 0, 0>>, 15) \/ in_range(a, <<198, 51, 100, 0>>, 24)
           \/ in_range(a, <<203, 0, 113, 0>>, 24) \/ in_range(a, <<224, 0, 0, 0>>, 4)
           \/ in_range(a, <<240, 0, 0, 0>>, 4)
    BY DEF SPECIAL_RANGES, Block
  <1>2. \A x, y, z \in Octet :
           /\ in_range(a, <<x, 0, 0, 0>>, 8) <=> a[1] = x
           /\ in_range(a, <<x, y, 0, 0>>, 16) <=> a[1] = x /\ a[2] = y
           /\ in_range(a, <<x, y, z, 0>>, 24) <=> a[1] = x /\ a[2] = y /\ a[3] = z
    <2> SUFFICES ASSUME NEW x \in Octet, NEW y \in Octet, NEW z \in Octet
                 PROVE  /\ in_range(a, <<x, 0, 0, 0>>, 8) <=> a[1] = x
                        /\ in_range(a, <<x, y, 0, 0>>, 16) <=> a[1] = x /\ a[2] = y
                        /\ in_range(a, <<x, y, z, 0>>, 24) <=> a[1] = x /\ a[2] = y /\ a[3] = z
      OBVIOUS
    <2> QED
      BY InRangeWhole
  <1>3. /\ in_range(a, <<0, 0, 0, 0>>, 8) <=> a[1] = 0
        /\ in_range(a, <<10, 0, 0, 0>>, 8) <=> a[1] = 10
        /\ in_range(a, <<127, 0, 0, 0>>, 8) <=> a[1] = 127
        /\ in_range(a, <<169, 254, 0, 0>>, 16) <=> a[1] = 169 /\ a[2] = 254
        /\ in_range(a, <<192, 168, 0, 0>>, 16) <=> a[1] = 192 /\ a[2] = 168
        /\ in_range(a, <<192, 0, 0, 0>>, 24) <=> a[1] = 192 /\ a[2] = 0 /\ a[3] = 0
        /\ in_range(a, <<192, 0, 2, 0>>, 24) <=> a[1] = 192 /\ a[2] = 0 /\ a[3] = 2
        /\ in_range(a, <<192, 88, 99, 0>>, 24) <=> a[1] = 192 /\ a[2] = 88 /\ a[3] = 99
        /\ in_range(a, <<198, 51, 100, 0>>, 24) <=> a[1] = 198 /\ a[2] = 51 /\ a[3] = 100
        /\ in_range(a, <<203, 0, 113, 0>>, 24) <=> a[1] = 203 /\ a[2] = 0 /\ a[3] = 113
    <2>1. /\ 0 \in Octet /\ 10 \in Octet /\ 127 \in Octet /\ 169 \in Octet /\ 254 \in Octet
          /\ 192 \in Octet /\ 168 \in Octet /\ 2 \in Octet /\ 88 \in Octet /\ 99 \in Octet
          /\ 198 \in Octet /\ 51 \in Octet /\ 100 \in Octet /\ 203 \in Octet /\ 113 \in Octet
      BY DEF Octet
    <2> DEFINE In8(x) == in_range(a, <<x, 0, 0, 0>>, 8)
               In16(x, y) == in_range(a, <<x, y, 0, 0>>, 16)
               In24(x, y, z) == in_range(a, <<x, y, z, 0>>, 24)
    <2>2. \A x, y, z \in Octet : /\ In8(x) <=> a[1] = x
                                 /\ In16(x, y) <=> a[1] = x /\ a[2] = y
                                 /\ In24(x, y, z) <=> a[1] = x /\ a[2] = y /\ a[3] = z
      BY <1>2, Zenon
    <2> HIDE DEF In8, In16, In24
    <2>3. /\ In8(0) <=> a[1] = 0
          /\ In8(10) <=> a[1] = 10
          /\ In8(127) <=> a[1] = 127
          /\ In16(169, 254) <=> a[1] = 169 /\ a[2] = 254
          /\ In16(192, 168) <=> a[1] = 192 /\ a[2] = 168
          /\ In24(192, 0, 0) <=> a[1] = 192 /\ a[2] = 0 /\ a[3] = 0
          /\ In24(192, 0, 2) <=> a[1] = 192 /\ a[2] = 0 /\ a[3] = 2
          /\ In24(192, 88, 99) <=> a[1] = 192 /\ a[2] = 88 /\ a[3] = 99
          /\ In24(198, 51, 100) <=> a[1] = 198 /\ a[2] = 51 /\ a[3] = 100
          /\ In24(203, 0, 113) <=> a[1] = 203 /\ a[2] = 0 /\ a[3] = 113
      BY <2>1, <2>2
    <2> QED
      BY <2>3, Zenon DEF In8, In16, In24
  <1> HIDE DEF Refused
  <1>4. Refused <=> SpecialPurpose(a)
    <2> DEFINE o == a[1]
               p == a[2]
               q == a[3]
    <2>1. o \in 0 .. 255
      BY DEF IsAddress, Octet
    <2>0. /\ in_range(a, <<100, 64, 0, 0>>, 10) <=> o = 100 /\ p \in 64 .. 127
          /\ in_range(a, <<172, 16, 0, 0>>, 12) <=> o = 172 /\ p \in 16 .. 31
          /\ in_range(a, <<198, 18, 0, 0>>, 15) <=> o = 198 /\ p \in 18 .. 19
          /\ in_range(a, <<224, 0, 0, 0>>, 4) <=> o \in 224 .. 239
          /\ in_range(a, <<240, 0, 0, 0>>, 4) <=> o \in 240 .. 255
      BY SplitBlocks
    <2>2. Refused <=> \/ o = 0 \/ o = 10 \/ (o = 100 /\ p \in 64 .. 127) \/ o = 127
                      \/ (o = 169 /\ p = 254) \/ (o = 172 /\ p \in 16 .. 31)
                      \/ (o = 192 /\ p = 0 /\ q = 0) \/ (o = 192 /\ p = 0 /\ q = 2)
                      \/ (o = 192 /\ p = 88 /\ q = 99) \/ (o = 192 /\ p = 168)
                      \/ (o = 198 /\ p \in 18 .. 19) \/ (o = 198 /\ p = 51 /\ q = 100)
                      \/ (o = 203 /\ p = 0 /\ q = 113)
                      \/ o \in 224 .. 239 \/ o \in 240 .. 255
      BY <1>1, <1>3, <2>0
    <2> HIDE DEF o, p, q
    <2>3. o \in {0, 10, 127} \cup 224 .. 255 <=>
             \/ o = 0 \/ o = 10 \/ o = 127 \/ o \in 224 .. 239 \/ o \in 240 .. 255
      BY <2>1
    <2>4. Refused <=>
             \/ o \in {0, 10, 127} \cup 224 .. 255
             \/ o = 100 /\ p \in 64 .. 127
             \/ o = 172 /\ p \in 16 .. 31
             \/ o = 169 /\ p = 254
             \/ o = 192 /\ p = 168
             \/ o = 198 /\ p \in 18 .. 19
             \/ o = 192 /\ p = 0 /\ q \in {0, 2}
             \/ o = 192 /\ p = 88 /\ q = 99
             \/ o = 198 /\ p = 51 /\ q = 100
             \/ o = 203 /\ p = 0 /\ q = 113
      BY <2>2, <2>3
    <2> QED
      BY <2>4 DEF SpecialPurpose, o, p, q
  <1> QED
    BY <1>4 DEF is_global_unicast, Refused

-----------------------------------------------------------------------------

(* What is judged is an address.                                           *)
AddressOK == ip = None \/ (ip \in [1 .. 4 -> Octet] /\ IsAddress(ip))

(* The check is exact for every address: what it refuses, mask by mask, is *)
(* an interval, and the table adds up to the special-purpose blocks        *)
(* (in_range, is_global_unicast).                                          *)
THEOREM AddressCheckExactThm == ValidateSpec => []AddressCheckExact
  <1>1. ValidateInit => AddressOK
    BY DEF ValidateInit, AddressOK
  <1>2. AddressOK /\ [ValidateNext]_ip => AddressOK'
    <2> SUFFICES ASSUME AddressOK, ValidateNext PROVE AddressOK'
      BY DEF AddressOK
    <2>1. CASE ip' = <<0, 0, 0, 0>>
      BY <2>1 DEF IsAddress, AddressOK, Octet
    <2>2. CASE ip # None /\ \E k \in 1 .. 4 : \E o \in Octets[k] : ip' = [ip EXCEPT ![k] = o]
      BY <2>2, OctetsAssumption DEF IsAddress, AddressOK
    <2> QED
      BY <2>1, <2>2 DEF ValidateNext
  <1>3. AddressOK => AddressCheckExact
    <2> SUFFICES ASSUME AddressOK, ip # None PROVE AddressCheckExact
      BY DEF AddressCheckExact, InRangeIsInterval, ExactlyTheSpecialBlocks
    <2>1. IsAddress(ip)
      BY DEF AddressOK
    <2>2. InRangeIsInterval
      BY <2>1, InRangeInterval, NetworksAssumption DEF InRangeIsInterval, IsAddress, Octet
    <2>3. ExactlyTheSpecialBlocks
      BY <2>1, TableIsRegistry DEF ExactlyTheSpecialBlocks
    <2> QED
      BY <2>2, <2>3 DEF AddressCheckExact
  <1> QED
    BY <1>1, <1>2, <1>3, PTL DEF ValidateSpec

-----------------------------------------------------------------------------
(* The command line.                                                       *)

(* The values of a recursive function up to n.                             *)
Runs(n, S, F, start) ==
    \E f \in [0 .. n -> S] : f[0] = start /\ \A k \in 1 .. n : f[k] = F[f[k - 1]]

(* Every recursive function has them: Recursion for all of them at once.   *)
LEMMA RecursionForAll ==
    \A n \in Nat : \A S, F, start : start \in S /\ F \in [S -> S] => Runs(n, S, F, start)
  BY Recursion DEF Runs

(* The first word is no value; the next one is the value of a word that is *)
(* an option and no value itself.                                          *)
LEMMA ValuesAlternate ==
    ASSUME NEW a
    PROVE  /\ ~IsValue(a, 1)
           /\ \A k \in Nat \ {0} : IsValue(a, k + 1) <=> a[k] \in ValueOptions /\ ~IsValue(a, k)
  <1>1. ~IsValue(a, 1)
    <2>1. RunBefore(a, 1) = {}
      BY DEF RunBefore
    <2> QED
      BY <2>1, FS_EmptySet DEF IsValue
  <1>2. ASSUME NEW k \in Nat \ {0}
        PROVE  IsValue(a, k + 1) <=> a[k] \in ValueOptions /\ ~IsValue(a, k)
    <2> DEFINE R == RunBefore(a, k)
    <2>1. IsFiniteSet(R) /\ k \notin R
      <3>1. IsFiniteSet(1 .. k - 1)
        BY FS_Interval
      <3>2. R \subseteq 1 .. k - 1
        BY DEF RunBefore
      <3> QED
        BY <3>1, <3>2, FS_Subset
    <2>2. CASE a[k] \in ValueOptions
      <3>1. RunBefore(a, k + 1) = R \cup {k}
        <4>1. ASSUME NEW j \in 1 .. k
              PROVE  j .. k = (j .. k - 1) \cup {k}
          OBVIOUS
        <4>2. \A j \in 1 .. k : (\A h \in j .. k : a[h] \in ValueOptions)
                                   <=> \A h \in j .. k - 1 : a[h] \in ValueOptions
          BY <2>2, <4>1
        <4>3. 1 .. k = (1 .. k - 1) \cup {k} /\ (k + 1) - 1 = k /\ k .. k - 1 = {}
          OBVIOUS
        <4> QED
          BY <4>2, <4>3 DEF RunBefore
      <3>2. Cardinality(R \cup {k}) = Cardinality(R) + 1 /\ Cardinality(R) \in Nat
        BY <2>1, FS_AddElement, FS_CardinalityType
      <3>3. IsValue(a, k + 1) <=> Cardinality(R \cup {k}) % 2 = 1
        BY <3>1, Zenon DEF IsValue
      <3>4. IsValue(a, k) <=> Cardinality(R) % 2 = 1
        BY Zenon DEF IsValue
      <3> HIDE DEF R
      <3>5. Cardinality(R \cup {k}) % 2 = 1 <=> ~(Cardinality(R) % 2 = 1)
        BY <3>2
      <3> QED
        BY <2>2, <3>3, <3>4, <3>5
    <2>3. CASE a[k] \notin ValueOptions
      <3>1. RunBefore(a, k + 1) = {}
        <4>1. \A j \in 1 .. (k + 1) - 1 : k \in j .. (k + 1) - 1
          OBVIOUS
        <4> QED
          BY <2>3, <4>1 DEF RunBefore
      <3>2. Cardinality(RunBefore(a, k + 1)) = 0
        BY <3>1, FS_EmptySet, Zenon
      <3>3. ~IsValue(a, k + 1)
        BY <3>2 DEF IsValue
      <3> QED
        BY <2>3, <3>3
    <2> QED
      BY <2>2, <2>3
  <1> QED
    BY <1>1, <1>2

(* The words before position i that are no values.                         *)
Before(a, i) == {k \in Keywords(a) : k < i}
Plain(a, i) == {k \in Before(a, i) : a[k] \notin ValueOptions}

(* The value of the last such option before position i.                    *)
LastValue(a, i, option, value) ==
    LET at == {k \in Before(a, i) : a[k] = option}
    IN  IF at = {} THEN value = "default"
        ELSE \E k \in at : (\A j \in at : j <= k) /\ value = a[k + 1]

Opts == [config : {"default"} \cup CliWords, lock_timeout : {"default"} \cup CliWords]
Loop == [at : Nat \ {0}, command : {"none"} \cup CliWords, opts : Opts, usage : BOOLEAN]

(* What the loop knows of the words before position i.                     *)
Known(a, i, command, opts) ==
    /\ ~IsValue(a, i)
    /\ \A j \in Before(a, i) :
          /\ a[j] \notin OtherOptions
          /\ a[j] \in ValueOptions => j + 1 < i
          /\ a[j] = "--lock-timeout" => a[j + 1] \in Numbers
    /\ IF command = "none" THEN Plain(a, i) = {}
       ELSE \E j \in Keywords(a) : Plain(a, i) = {j} /\ command = a[j]
    /\ LastValue(a, i, "--config", opts.config)
    /\ LastValue(a, i, "--lock-timeout", opts.lock_timeout)

(* The loop after k iterations.                                            *)
Looped(a, s, k) ==
    /\ s \in Loop
    /\ s.usage => ~WellFormed(a)
    /\ ~s.usage => /\ s.at <= Len(a) + 1 /\ (s.at > k \/ s.at > Len(a))
                   /\ Known(a, s.at, s.command, s.opts)

(* An option with its value brings two words, and the first is no value.   *)
LEMMA BeforeOption ==
    ASSUME NEW a \in Seq(CliWords), NEW i \in 1 .. Len(a) - 1, ~IsValue(a, i), a[i] \in ValueOptions
    PROVE  /\ ~IsValue(a, i + 2) /\ i \in Keywords(a)
           /\ Before(a, i + 2) = Before(a, i) \cup {i}
  <1>1. i \in Nat \ {0} /\ i + 1 \in Nat \ {0} /\ (i + 1) + 1 = i + 2
    OBVIOUS
  <1>2. IsValue(a, i + 1) /\ ~IsValue(a, i + 2)
    BY <1>1, ValuesAlternate
  <1>3. i \in Keywords(a) /\ i + 1 \notin Keywords(a)
    BY <1>2 DEF Keywords
  <1>4. \A k \in Keywords(a) : k < i + 2 <=> k < i \/ k = i
    <2>1. Keywords(a) \subseteq Nat
      BY DEF Keywords
    <2> QED
      BY <1>3, <2>1
  <1> QED
    BY <1>2, <1>3, <1>4 DEF Before

(* A plain word is followed by one that is no value either.                *)
LEMMA BeforePlain ==
    ASSUME NEW a \in Seq(CliWords), NEW i \in 1 .. Len(a), ~IsValue(a, i), a[i] \notin ValueOptions
    PROVE  /\ ~IsValue(a, i + 1) /\ i \in Keywords(a)
           /\ Before(a, i + 1) = Before(a, i) \cup {i}
  <1>1. ~IsValue(a, i + 1)
    BY ValuesAlternate
  <1>2. i \in Keywords(a)
    BY DEF Keywords
  <1>3. \A k \in Keywords(a) : k < i + 1 <=> k < i \/ k = i
    <2>1. Keywords(a) \subseteq Nat
      BY DEF Keywords
    <2> QED
      BY <2>1
  <1> QED
    BY <1>1, <1>2, <1>3 DEF Before

(* The last value of an option: replaced by a later one, kept otherwise.   *)
LEMMA LastValueStep ==
    ASSUME NEW a, NEW i \in Nat, NEW i2 \in Nat, NEW option, NEW value,
           i \in Keywords(a), Keywords(a) \subseteq Nat, Before(a, i2) = Before(a, i) \cup {i}
    PROVE  /\ a[i] = option => LastValue(a, i2, option, a[i + 1])
           /\ a[i] # option /\ LastValue(a, i, option, value) => LastValue(a, i2, option, value)
  <1>1. ASSUME a[i] = option PROVE LastValue(a, i2, option, a[i + 1])
    <2> DEFINE at == {k \in Before(a, i2) : a[k] = option}
    <2>1. i \in at /\ \A j \in at : j <= i
      BY <1>1 DEF Before
    <2> QED
      BY <2>1 DEF LastValue
  <1>2. ASSUME a[i] # option, LastValue(a, i, option, value) PROVE LastValue(a, i2, option, value)
    <2>1. {k \in Before(a, i2) : a[k] = option} = {k \in Before(a, i) : a[k] = option}
      BY <1>2
    <2> QED
      BY <1>2, <2>1, Zenon DEF LastValue
  <1> QED
    BY <1>1, <1>2

(* An iteration, by the word it is at.                                     *)
LEMMA IterateCases ==
    ASSUME NEW a, NEW s, ~s.usage, ~(s.at > Len(a)), a[s.at] \in CliWords
    PROVE  /\ a[s.at] \in OtherOptions => iterate(a, s) = [s EXCEPT !.usage = TRUE]
           /\ a[s.at] \in ValueOptions /\ s.at = Len(a) => iterate(a, s) = [s EXCEPT !.usage = TRUE]
           /\ a[s.at] = "--config" /\ s.at # Len(a) /\ s.at < Len(a) =>
                 iterate(a, s) = [s EXCEPT !.at = After(@), !.opts.config = a[s.at + 1]]
           /\ a[s.at] = "--lock-timeout" /\ s.at # Len(a) /\ s.at < Len(a) =>
                 iterate(a, s) = IF a[s.at + 1] \notin Numbers THEN [s EXCEPT !.usage = TRUE]
                                 ELSE [s EXCEPT !.at = After(@), !.opts.lock_timeout = a[s.at + 1]]
           /\ a[s.at] \in Commands \cup Numbers =>
                 iterate(a, s) = IF s.command # "none" THEN [s EXCEPT !.usage = TRUE]
                                 ELSE [s EXCEPT !.at = @ + 1, !.command = a[s.at]]
  <1> DEFINE word == a[s.at]
  <1>1. /\ word \in OtherOptions => /\ word \notin ValueOptions /\ word \notin Commands \cup Numbers
                                    /\ word # "--config" /\ word # "--lock-timeout"
        /\ word \in Commands \cup Numbers =>
              /\ word \notin ValueOptions /\ word \notin OtherOptions
              /\ word # "--config" /\ word # "--lock-timeout"
        /\ word \in ValueOptions <=> word = "--config" \/ word = "--lock-timeout"
        /\ word \in ValueOptions => word \notin OtherOptions /\ word \notin Commands \cup Numbers
    BY DEF CliWords, OtherOptions, ValueOptions, Commands, Numbers
  <1>2. CASE word \in OtherOptions
    BY <1>1, <1>2 DEF iterate
  <1>3. CASE word \in ValueOptions /\ s.at = Len(a)
    BY <1>1, <1>3 DEF iterate
  <1>4. CASE word = "--config" /\ s.at # Len(a)
    BY <1>1, <1>4 DEF iterate
  <1>5. CASE word = "--lock-timeout" /\ s.at # Len(a)
    BY <1>1, <1>5 DEF iterate
  <1>6. CASE word \in Commands \cup Numbers
    BY <1>1, <1>6 DEF iterate
  <1> QED
    BY <1>1, <1>2, <1>3, <1>4, <1>5, <1>6 DEF CliWords

(* What is known after an option and its value.                            *)
LEMMA KnownOption ==
    ASSUME NEW a \in Seq(CliWords), NEW i \in 1 .. Len(a) - 1, NEW command, NEW opts, NEW opts2,
           Known(a, i, command, opts), a[i] \in ValueOptions,
           a[i] = "--lock-timeout" => a[i + 1] \in Numbers,
           IF a[i] = "--config"
           THEN opts2.config = a[i + 1] /\ opts2.lock_timeout = opts.lock_timeout
           ELSE opts2.config = opts.config /\ opts2.lock_timeout = a[i + 1]
    PROVE  Known(a, i + 2, command, opts2)
  <1>1. Keywords(a) \subseteq Nat /\ i \in Nat /\ i + 2 \in Nat
    BY DEF Keywords
  <1>2. ~IsValue(a, i + 2) /\ i \in Keywords(a) /\ Before(a, i + 2) = Before(a, i) \cup {i}
    BY BeforeOption DEF Known
  <1>3. ASSUME NEW j \in Before(a, i + 2)
        PROVE  /\ a[j] \notin OtherOptions
               /\ a[j] \in ValueOptions => j + 1 < i + 2
               /\ a[j] = "--lock-timeout" => a[j + 1] \in Numbers
    <2>1. CASE j \in Before(a, i)
      <3>1. /\ a[j] \notin OtherOptions
            /\ a[j] \in ValueOptions => j + 1 < i
            /\ a[j] = "--lock-timeout" => a[j + 1] \in Numbers
        BY <2>1, Zenon DEF Known
      <3>2. j \in Nat
        BY <1>1 DEF Before
      <3> QED
        BY <3>1, <3>2
    <2>2. CASE j = i
      <3>1. a[i] \notin OtherOptions
        BY DEF ValueOptions, OtherOptions
      <3> QED
        BY <2>2, <3>1
    <2> QED
      BY <1>2, <2>1, <2>2
  <1>4. Plain(a, i + 2) = Plain(a, i)
    BY <1>2 DEF Plain
  <1>5. \A option, v :
           /\ a[i] = option => LastValue(a, i + 2, option, a[i + 1])
           /\ a[i] # option /\ LastValue(a, i, option, v) => LastValue(a, i + 2, option, v)
    BY <1>1, <1>2, LastValueStep
  <1>6. LastValue(a, i, "--config", opts.config) /\ LastValue(a, i, "--lock-timeout", opts.lock_timeout)
    BY DEF Known
  <1>7. /\ LastValue(a, i + 2, "--config", opts2.config)
        /\ LastValue(a, i + 2, "--lock-timeout", opts2.lock_timeout)
    <2>1. CASE a[i] = "--config"
      <3>1. a[i] # "--lock-timeout"
        BY <2>1
      <3> QED
        BY <1>5, <1>6, <2>1, <3>1
    <2>2. CASE a[i] = "--lock-timeout"
      <3>1. a[i] # "--config"
        BY <2>2
      <3> QED
        BY <1>5, <1>6, <2>2, <3>1
    <2> QED
      BY <2>1, <2>2 DEF ValueOptions
  <1>8. IF command = "none" THEN Plain(a, i + 2) = {}
        ELSE \E j \in Keywords(a) : Plain(a, i + 2) = {j} /\ command = a[j]
    BY <1>4 DEF Known
  <1> QED
    BY <1>2, <1>3, <1>7, <1>8, Zenon DEF Known

(* What is known after the first plain word.                               *)
LEMMA KnownPlain ==
    ASSUME NEW a \in Seq(CliWords), NEW i \in 1 .. Len(a), NEW opts,
           Known(a, i, "none", opts), a[i] \in Commands \cup Numbers
    PROVE  Known(a, i + 1, a[i], opts)
  <1>1. Keywords(a) \subseteq Nat /\ i \in Nat /\ i + 1 \in Nat
    BY DEF Keywords
  <1>2. /\ a[i] \notin ValueOptions /\ a[i] \notin OtherOptions /\ a[i] # "none"
        /\ a[i] # "--config" /\ a[i] # "--lock-timeout"
    BY DEF Commands, Numbers, ValueOptions, OtherOptions
  <1>3. ~IsValue(a, i + 1) /\ i \in Keywords(a) /\ Before(a, i + 1) = Before(a, i) \cup {i}
    BY <1>2, BeforePlain DEF Known
  <1>4. ASSUME NEW j \in Before(a, i + 1)
        PROVE  /\ a[j] \notin OtherOptions
               /\ a[j] \in ValueOptions => j + 1 < i + 1
               /\ a[j] = "--lock-timeout" => a[j + 1] \in Numbers
    <2>1. CASE j \in Before(a, i)
      <3>1. /\ a[j] \notin OtherOptions
            /\ a[j] \in ValueOptions => j + 1 < i
            /\ a[j] = "--lock-timeout" => a[j + 1] \in Numbers
        BY <2>1, Zenon DEF Known
      <3>2. j \in Nat
        BY <1>1 DEF Before
      <3> QED
        BY <1>1, <3>1, <3>2
    <2>2. CASE j = i
      BY <1>2, <2>2
    <2> QED
      BY <1>3, <2>1, <2>2
  <1>5. Plain(a, i + 1) = {i}
    BY <1>2, <1>3 DEF Plain, Known
  <1>6. \A option, v :
           a[i] # option /\ LastValue(a, i, option, v) => LastValue(a, i + 1, option, v)
    BY <1>1, <1>3, LastValueStep
  <1>7. /\ LastValue(a, i + 1, "--config", opts.config)
        /\ LastValue(a, i + 1, "--lock-timeout", opts.lock_timeout)
    BY <1>2, <1>6 DEF Known
  <1> QED
    BY <1>2, <1>3, <1>4, <1>5, <1>7, Zenon DEF Known

(* A second plain word is one too many.                                    *)
LEMMA SecondPlain ==
    ASSUME NEW a \in Seq(CliWords), NEW i \in Keywords(a), NEW command, NEW opts,
           Known(a, i, command, opts), command # "none", a[i] \in Commands \cup Numbers
    PROVE  ~WellFormed(a)
  <1> DEFINE plain == {j \in Keywords(a) : a[j] \notin ValueOptions}
  <1>1. Keywords(a) \subseteq 1 .. Len(a) /\ Len(a) \in Nat
    BY DEF Keywords
  <1>2. PICK j \in Keywords(a) : Plain(a, i) = {j}
    BY DEF Known
  <1>3. a[i] \notin ValueOptions
    BY DEF Commands, Numbers, ValueOptions
  <1>4. j \in plain /\ i \in plain /\ j < i
    BY <1>2, <1>3 DEF Plain, Before
  <1> HIDE DEF plain
  <1>5. i \notin {j}
    BY <1>1, <1>4
  <1>6. IsFiniteSet({j}) /\ Cardinality({j}) = 1
    BY FS_Singleton
  <1>7. Cardinality({j} \cup {i}) = 2
    <2>1. ASSUME NEW S, IsFiniteSet(S), Cardinality(S) = 1, NEW x, x \notin S
          PROVE  Cardinality(S \cup {x}) = 2
      <3>1. Cardinality(S \cup {x}) = Cardinality(S) + 1
        BY <2>1, FS_AddElement
      <3> QED
        BY <2>1, <3>1
    <2> QED
      BY <1>5, <1>6, <2>1
  <1>8. IsFiniteSet(plain)
    <2>1. IsFiniteSet(1 .. Len(a))
      BY <1>1, FS_Interval
    <2>2. plain \subseteq 1 .. Len(a)
      BY <1>1 DEF plain
    <2> QED
      BY <2>1, <2>2, FS_Subset
  <1>9. {j} \cup {i} \subseteq plain
    BY <1>4
  <1>10. Cardinality({j} \cup {i}) <= Cardinality(plain)
    BY <1>8, <1>9, FS_Subset
  <1>11. Cardinality(plain) # 1
    <2>1. ~(2 <= 1)
      OBVIOUS
    <2> QED
      BY <1>7, <1>10, <2>1
  <1> QED
    BY <1>11 DEF WellFormed, plain

(* One iteration keeps what is known, or finds the line ill-formed.        *)
LEMMA LoopedStep ==
    ASSUME NEW a \in Seq(CliWords), NEW s, NEW k \in Nat, Looped(a, s, k)
    PROVE  Looped(a, iterate(a, s), k + 1)
  <1> DEFINE next == iterate(a, s)
             error == [s EXCEPT !.usage = TRUE]
  <1>1. s \in Loop
    BY DEF Looped
  <1>2. CASE s.usage \/ s.at > Len(a)
    <2>1. iterate(a, s) = s
      BY <1>2 DEF iterate
    <2>2. s.at \in Nat \ {0}
      BY <1>1 DEF Loop
    <2>3. ~s.usage => s.at <= Len(a) + 1 /\ Known(a, s.at, s.command, s.opts)
      BY DEF Looped
    <2> QED
      BY <1>1, <1>2, <2>1, <2>2, <2>3 DEF Looped
  <1>0. ASSUME ~(s.at > Len(a)) PROVE a[s.at] \in CliWords
    BY <1>0, <1>1 DEF Loop
  <1>3. CASE ~s.usage /\ ~(s.at > Len(a))
    <2> DEFINE i == s.at
               command == s.command
               opts == s.opts
               word == a[i]
               value == a[i + 1]
    <2>1. s = [at |-> i, command |-> command, opts |-> opts, usage |-> FALSE]
      BY <1>1, <1>3 DEF Loop
    <2>2. i \in Nat \ {0} /\ command \in {"none"} \cup CliWords /\ opts \in Opts
      BY <1>1 DEF Loop
    <2>3. Known(a, i, command, opts) /\ (i > k \/ i > Len(a))
      BY <1>3 DEF Looped
    <2>4. ~s.usage /\ ~(i > Len(a)) /\ ~(s.at > Len(a)) /\ i = s.at /\ word = a[s.at] /\ value = a[s.at + 1]
      BY <1>3
    <2>0. /\ a[s.at] \in OtherOptions => iterate(a, s) = [s EXCEPT !.usage = TRUE]
          /\ a[s.at] \in ValueOptions /\ s.at = Len(a) => iterate(a, s) = [s EXCEPT !.usage = TRUE]
          /\ a[s.at] = "--config" /\ s.at # Len(a) /\ s.at < Len(a) =>
                iterate(a, s) = [s EXCEPT !.at = After(@), !.opts.config = a[s.at + 1]]
          /\ a[s.at] = "--lock-timeout" /\ s.at # Len(a) /\ s.at < Len(a) =>
                iterate(a, s) = IF a[s.at + 1] \notin Numbers THEN [s EXCEPT !.usage = TRUE]
                                ELSE [s EXCEPT !.at = After(@), !.opts.lock_timeout = a[s.at + 1]]
          /\ a[s.at] \in Commands \cup Numbers =>
                iterate(a, s) = IF s.command # "none" THEN [s EXCEPT !.usage = TRUE]
                                ELSE [s EXCEPT !.at = @ + 1, !.command = a[s.at]]
      BY <1>3, <1>0, IterateCases
    <2> HIDE DEF i, command, opts
    <2>5. i \in 1 .. Len(a) /\ i > k
      BY <2>2, <2>3, <2>4
    <2>6. word \in CliWords
      BY <2>5
    <2>7. i \in Keywords(a)
      BY <2>3, <2>5 DEF Known, Keywords
    <2> HIDE DEF word, value
    <2>8. /\ word \in OtherOptions => next = error
          /\ word \in ValueOptions /\ i = Len(a) => next = error
          /\ word = "--config" /\ i # Len(a) /\ i < Len(a) =>
                next = [s EXCEPT !.at = After(@), !.opts.config = value]
          /\ word = "--lock-timeout" /\ i # Len(a) /\ i < Len(a) =>
                next = IF value \notin Numbers THEN error
                       ELSE [s EXCEPT !.at = After(@), !.opts.lock_timeout = value]
          /\ word \in Commands \cup Numbers =>
                next = IF s.command # "none" THEN error ELSE [s EXCEPT !.at = @ + 1, !.command = word]
      BY <2>0, <2>4
    <2>9. error \in Loop /\ error.usage
      BY <1>1 DEF Loop
    <2> HIDE DEF next, error
    <2>12. ASSUME next = error, ~WellFormed(a) PROVE Looped(a, next, k + 1)
      BY <2>9, <2>12 DEF Looped
    <2>13. ASSUME NEW at \in i + 1 .. Len(a) + 1, NEW c \in CliWords \cup {"none"}, NEW o \in Opts,
                  next = [at |-> at, command |-> c, opts |-> o, usage |-> FALSE],
                  Known(a, at, c, o)
           PROVE  Looped(a, next, k + 1)
      <3>1. next \in Loop
        BY <2>2, <2>13 DEF Loop
      <3>2. next.at = at /\ next.command = c /\ next.opts = o /\ ~next.usage
        BY <2>13
      <3>3. at <= Len(a) + 1 /\ at > k + 1
        BY <2>5
      <3> QED
        BY <2>13, <3>1, <3>2, <3>3 DEF Looped
    <2>14. CASE word \in OtherOptions
      <3>1. ~WellFormed(a)
        BY <2>7, <2>14 DEF WellFormed, word
      <3> QED
        BY <2>8, <2>12, <2>14, <3>1 DEF next
    <2>15. CASE word \in ValueOptions /\ i = Len(a)
      <3>1. ~WellFormed(a)
        BY <2>7, <2>15 DEF WellFormed, word
      <3> QED
        BY <2>8, <2>12, <2>15, <3>1 DEF next
    <2>16. CASE word = "--lock-timeout" /\ i # Len(a) /\ value \notin Numbers
      <3>1. ~WellFormed(a)
        BY <2>7, <2>16 DEF WellFormed, Places, word, value
      <3>2. next = error
        BY <2>5, <2>8, <2>16
      <3> QED
        BY <2>12, <3>1, <3>2 DEF next
    <2>17. CASE word \in ValueOptions /\ i # Len(a) /\ (word = "--lock-timeout" => value \in Numbers)
      <3> DEFINE opts2 == IF word = "--config" THEN [opts EXCEPT !.config = value]
                          ELSE [opts EXCEPT !.lock_timeout = value]
      <3>1. i \in 1 .. Len(a) - 1 /\ i + 2 \in i + 1 .. Len(a) + 1 /\ i < Len(a)
        BY <2>5, <2>17
      <3>2. value \in CliWords
        BY <3>1 DEF value
      <3>3. /\ opts2 \in Opts
            /\ IF word = "--config" THEN opts2.config = value /\ opts2.lock_timeout = opts.lock_timeout
               ELSE opts2.config = opts.config /\ opts2.lock_timeout = value
        BY <2>2, <3>2 DEF Opts
      <3>4. next = [at |-> i + 2, command |-> command, opts |-> opts2, usage |-> FALSE]
        <4>1. CASE word = "--config"
          <5>1. next = [s EXCEPT !.at = After(@), !.opts.config = value]
            BY <2>8, <2>17, <3>1, <4>1
          <5> QED
            BY <2>1, <4>1, <5>1 DEF After
        <4>2. CASE word = "--lock-timeout"
          <5>1. next = [s EXCEPT !.at = After(@), !.opts.lock_timeout = value] /\ word # "--config"
            BY <2>8, <2>17, <3>1, <4>2
          <5> QED
            BY <2>1, <4>2, <5>1 DEF After
        <4> QED
          BY <2>17, <4>1, <4>2 DEF ValueOptions
      <3> HIDE DEF opts2
      <3>5. Known(a, i + 2, command, opts2)
        BY <2>3, <2>17, <3>1, <3>3, KnownOption DEF word, value
      <3> QED
        BY <2>2, <2>13, <3>1, <3>3, <3>4, <3>5 DEF next
    <2>18. CASE word \in Commands \cup Numbers /\ command # "none"
      <3>1. ~WellFormed(a)
        BY <2>3, <2>7, <2>18, SecondPlain DEF word
      <3>2. next = error
        BY <2>8, <2>18 DEF command
      <3> QED
        BY <2>12, <3>1, <3>2 DEF next
    <2>19. CASE word \in Commands \cup Numbers /\ command = "none"
      <3>1. next = [at |-> i + 1, command |-> word, opts |-> opts, usage |-> FALSE]
        <4>1. next = [s EXCEPT !.at = @ + 1, !.command = word]
          BY <2>8, <2>19 DEF command
        <4> QED
          BY <2>1, <4>1
      <3>2. Known(a, i + 1, word, opts)
        BY <2>3, <2>5, <2>19, KnownPlain DEF word
      <3>3. i + 1 \in i + 1 .. Len(a) + 1
        BY <2>5
      <3> QED
        BY <2>2, <2>6, <2>13, <3>1, <3>2, <3>3 DEF next
    <2>20. word \in Commands \cup Numbers \/ word \in OtherOptions \/ word \in ValueOptions
      BY <2>6 DEF CliWords
    <2>21. Looped(a, next, k + 1)
      BY <2>14, <2>15, <2>16, <2>17, <2>18, <2>19, <2>20 DEF next
    <2> QED
      BY <2>21 DEF next
  <1> QED
    BY <1>2, <1>3

(* The loop begins with nothing known.                                     *)
LEMMA LoopedStart ==
    ASSUME NEW a \in Seq(CliWords)
    PROVE  Looped(a, LoopStart, 0)
  <1>1. Before(a, 1) = {}
    BY DEF Before, Keywords
  <1>2. Plain(a, 1) = {}
    BY <1>1 DEF Plain
  <1>3. \A option : LastValue(a, 1, option, "default")
    BY <1>1 DEF LastValue
  <1>4. ~IsValue(a, 1)
    BY ValuesAlternate
  <1>5. Known(a, 1, "none", DefaultOpts)
    BY <1>1, <1>2, <1>3, <1>4 DEF Known, DefaultOpts
  <1>6. LoopStart \in Loop
    BY DEF LoopStart, Loop, Opts, DefaultOpts
  <1>7. /\ LoopStart.at = 1 /\ LoopStart.command = "none" /\ LoopStart.opts = DefaultOpts
        /\ ~LoopStart.usage
    BY DEF LoopStart
  <1> QED
    BY <1>5, <1>6, <1>7 DEF Looped

(* The rounds of the loop, for as long as they stay loop states.           *)
LEMMA LoopRounds ==
    ASSUME NEW a, NEW n \in Nat, LoopStart \in Loop
    PROVE  \E f \in [0 .. n -> Loop] :
              /\ f[0] = LoopStart
              /\ \A k \in 1 .. n : iterate(a, f[k - 1]) \in Loop => f[k] = iterate(a, f[k - 1])
  <1> DEFINE start == LoopStart
             Round == [s \in Loop |-> IF iterate(a, s) \in Loop THEN iterate(a, s) ELSE s]
  <1>1. Round \in [Loop -> Loop]
    OBVIOUS
  <1>2. \A s \in Loop : iterate(a, s) \in Loop => Round[s] = iterate(a, s)
    OBVIOUS
  <1>3. start \in Loop
    OBVIOUS
  <1> HIDE DEF Round, start
  <1>4. Runs(n, Loop, Round, start)
    BY <1>1, <1>3, RecursionForAll
  <1>5. PICK f \in [0 .. n -> Loop] : f[0] = start /\ \A k \in 1 .. n : f[k] = Round[f[k - 1]]
    BY <1>4 DEF Runs
  <1>6. \A k \in 1 .. n : k - 1 \in 0 .. n
    OBVIOUS
  <1> QED
    BY <1>2, <1>5, <1>6 DEF start

(* The loop ends past the last word, with everything known, or gives up.   *)
LEMMA LoopRuns ==
    ASSUME NEW a \in Seq(CliWords)
    PROVE  \E end : /\ Looped(a, end, Len(a))
                    /\ parse_args(a) = IF end.usage \/ end.command = "none" THEN Usage
                                       ELSE Parsed(end.command, end.opts)
  <1> DEFINE n == Len(a)
             States(h) == h = [k \in 0 .. Len(a) |->
                                  IF k = 0 THEN LoopStart ELSE iterate(a, h[k - 1])]
  <1>1. n \in Nat
    OBVIOUS
  <1>2. LoopStart \in Loop
    BY LoopedStart DEF Looped
  <1> HIDE DEF n
  <1>5. PICK f \in [0 .. n -> Loop] :
            /\ f[0] = LoopStart
            /\ \A k \in 1 .. n : iterate(a, f[k - 1]) \in Loop => f[k] = iterate(a, f[k - 1])
    BY <1>1, <1>2, LoopRounds
  <1> DEFINE P == {k \in 0 .. n : Looped(a, f[k], k)}
  <1>6. ASSUME NEW k \in 0 .. n - 1, Looped(a, f[k], k)
        PROVE  f[k + 1] = iterate(a, f[k]) /\ Looped(a, f[k + 1], k + 1)
    <2>1. k \in Nat /\ k + 1 \in 1 .. n /\ (k + 1) - 1 = k /\ k \in 0 .. n
      BY <1>1
    <2>2. Looped(a, iterate(a, f[k]), k + 1)
      BY <1>6, <2>1, LoopedStep
    <2>3. iterate(a, f[k]) \in Loop /\ f[k] \in Loop
      BY <2>1, <2>2 DEF Looped
    <2>4. f[k + 1] = iterate(a, f[k])
      BY <1>5, <2>1, <2>3
    <2> QED
      BY <2>2, <2>4
  <1>7. \A k \in 0 .. n : k \in P
    <2>1. 0 \in P
      BY <1>1, <1>5, LoopedStart
    <2>2. \A k \in 0 .. n - 1 : k \in P => k + 1 \in P
      BY <1>1, <1>6
    <2> HIDE DEF P
    <2> QED
      BY <1>1, <2>1, <2>2, Induction
  <1>8. States(f)
    <2>1. \A k \in 0 .. n : f[k] = IF k = 0 THEN LoopStart ELSE iterate(a, f[k - 1])
      <3>1. ASSUME NEW k \in 1 .. n PROVE f[k] = iterate(a, f[k - 1])
        <4>1. k - 1 \in 0 .. n - 1 /\ (k - 1) + 1 = k /\ k - 1 \in 0 .. n
          BY <1>1
        <4>2. Looped(a, f[k - 1], k - 1)
          BY <1>7, <4>1
        <4>3. f[(k - 1) + 1] = iterate(a, f[k - 1])
          BY <1>6, <4>1, <4>2
        <4> QED
          BY <4>1, <4>3
      <3> QED
        BY <1>5, <3>1
    <2> QED
      BY <2>1 DEF n
  <1> DEFINE h == CHOOSE g : States(g)
  <1>9. /\ States(h)
        /\ parse_args(a) = IF h[n].usage \/ h[n].command = "none" THEN Usage
                           ELSE Parsed(h[n].command, h[n].opts)
    <2>1. States(h)
      BY <1>8, Zenon
    <2>2. parse_args(a) = IF h[n].usage \/ h[n].command = "none" THEN Usage
                          ELSE Parsed(h[n].command, h[n].opts)
      BY Zenon DEF parse_args, n
    <2> QED
      BY <2>1, <2>2
  <1> HIDE DEF h
  <1>10. \A k \in 0 .. n : Looped(a, h[k], k)
    <2> DEFINE Q == {k \in 0 .. n : Looped(a, h[k], k)}
    <2>0. \A k \in 0 .. n : h[k] = IF k = 0 THEN LoopStart ELSE iterate(a, h[k - 1])
      BY <1>9 DEF n
    <2>1. 0 \in Q
      BY <1>1, <2>0, LoopedStart
    <2>2. ASSUME NEW k \in 0 .. n - 1, k \in Q PROVE k + 1 \in Q
      <3>1. k \in Nat /\ k + 1 \in 0 .. n /\ (k + 1) - 1 = k /\ k + 1 # 0
        BY <1>1
      <3>2. Looped(a, iterate(a, h[k]), k + 1)
        BY <2>2, <3>1, LoopedStep
      <3>3. h[k + 1] = iterate(a, h[k])
        BY <2>0, <3>1
      <3> QED
        BY <3>1, <3>2, <3>3
    <2> HIDE DEF Q
    <2>3. \A k \in 0 .. n : k \in Q
      BY <1>1, <2>1, <2>2, Induction
    <2> QED
      BY <2>3 DEF Q
  <1>11. Looped(a, h[n], n)
    BY <1>1, <1>10
  <1> QED
    BY <1>9, <1>11, Zenon DEF n

(* The last value of an option is the one its last place gives it.         *)
LEMMA LastIsValueOf ==
    ASSUME NEW a \in Seq(CliWords), NEW option, NEW value,
           LastValue(a, Len(a) + 1, option, value)
    PROVE  value = ValueOf(a, option)
  <1> DEFINE at == Places(a, option)
  <1>1. Keywords(a) \subseteq Nat /\ Before(a, Len(a) + 1) = Keywords(a)
    BY DEF Keywords, Before
  <1>2. {k \in Before(a, Len(a) + 1) : a[k] = option} = at
    BY <1>1 DEF Places
  <1>3. IF at = {} THEN value = "default"
        ELSE \E k \in at : (\A j \in at : j <= k) /\ value = a[k + 1]
    BY <1>2, Zenon DEF LastValue
  <1>4. CASE at = {}
    BY <1>3, <1>4, Zenon DEF ValueOf
  <1>5. CASE at # {}
    <2> DEFINE last == CHOOSE k \in at : \A j \in at : j <= k
    <2>0. at \subseteq Nat
      BY <1>1 DEF Places
    <2>1. PICK k \in at : (\A j \in at : j <= k) /\ value = a[k + 1]
      BY <1>3, <1>5
    <2> HIDE DEF at
    <2>2. last \in at /\ \A j \in at : j <= last
      BY <2>1
    <2>3. ValueOf(a, option) = a[1 + last]
      BY <1>5, Zenon DEF ValueOf, at
    <2> HIDE DEF last
    <2>4. last = k /\ 1 + last = k + 1
      BY <2>0, <2>1, <2>2
    <2> QED
      BY <2>1, <2>3, <2>4
  <1> QED
    BY <1>4, <1>5

(* What the loop knows at the end of the line is what the words say.       *)
LEMMA ParseIsExact ==
    ASSUME NEW a \in Seq(CliWords)
    PROVE  /\ parse_args(a).ok <=> WellFormed(a)
           /\ parse_args(a).ok =>
                 /\ \E k \in Keywords(a) : parse_args(a).command = a[k] /\ a[k] \notin ValueOptions
                 /\ parse_args(a).opts = [config |-> ValueOf(a, "--config"),
                                          lock_timeout |-> ValueOf(a, "--lock-timeout")]
  <1> DEFINE n == Len(a)
             plain == {k \in Keywords(a) : a[k] \notin ValueOptions}
  <1>1. n \in Nat
    OBVIOUS
  <1>2. PICK end : /\ Looped(a, end, n)
                   /\ parse_args(a) = IF end.usage \/ end.command = "none" THEN Usage
                                      ELSE Parsed(end.command, end.opts)
    BY LoopRuns
  <1> HIDE DEF n
  <1>3. CASE end.usage
    <2>1. ~WellFormed(a)
      BY <1>2, <1>3 DEF Looped
    <2>2. ~parse_args(a).ok
      BY <1>2, <1>3 DEF Usage
    <2> QED
      BY <2>1, <2>2
  <1>4. CASE ~end.usage
    <2> DEFINE command == end.command
               opts == end.opts
    <2>1. end \in Loop /\ end.at = n + 1 /\ Known(a, n + 1, command, opts)
      <3>1. end.at \in Nat /\ end \in Loop
        BY <1>2 DEF Looped, Loop
      <3>2. end.at <= n + 1 /\ end.at > n /\ Known(a, end.at, command, opts)
        BY <1>2, <1>4 DEF Looped, n
      <3>3. end.at = n + 1
        BY <1>1, <3>1, <3>2
      <3> QED
        BY <3>1, <3>2, <3>3
    <2>2. opts \in Opts
      BY <2>1 DEF Loop
    <2>3. parse_args(a) = IF command = "none" THEN Usage ELSE Parsed(command, opts)
      BY <1>2, <1>4, Zenon
    <2> HIDE DEF command, opts
    <2>4. Keywords(a) \subseteq Nat /\ Before(a, n + 1) = Keywords(a)
      BY DEF Keywords, Before, n
    <2>5. Plain(a, n + 1) = plain
      BY <2>4 DEF Plain
    <2> HIDE DEF plain
    <2>6. CASE command = "none"
      <3>1. plain = {}
        BY <2>1, <2>5, <2>6 DEF Known
      <3>2. Cardinality(plain) # 1
        BY <3>1, FS_EmptySet
      <3>3. ~WellFormed(a)
        BY <3>2, Zenon DEF WellFormed, plain
      <3>4. ~parse_args(a).ok
        BY <2>3, <2>6 DEF Usage
      <3> QED
        BY <3>3, <3>4
    <2>7. CASE command # "none"
      <3>1. PICK j \in Keywords(a) : plain = {j} /\ command = a[j]
        BY <2>1, <2>5, <2>7 DEF Known
      <3>2. Cardinality(plain) = 1
        BY <3>1, FS_Singleton
      <3>3. \A k \in Keywords(a) :
               /\ a[k] \notin OtherOptions
               /\ a[k] \in ValueOptions => k + 1 < n + 1
               /\ a[k] = "--lock-timeout" => a[k + 1] \in Numbers
        BY <2>1, <2>4 DEF Known
      <3>4. \A k \in Keywords(a) : a[k] \in ValueOptions => k < n
        BY <1>1, <2>4, <3>3
      <3>5. WellFormed(a)
        BY <3>2, <3>3, <3>4, Zenon DEF WellFormed, Places, plain, n
      <3>6. parse_args(a) = [ok |-> TRUE, command |-> command, opts |-> opts]
        BY <2>3, <2>7 DEF Parsed
      <3>7. parse_args(a).ok /\ parse_args(a).command = command /\ parse_args(a).opts = opts
        BY <3>6
      <3>8. a[j] \notin ValueOptions
        BY <3>1 DEF plain
      <3>9. opts.config = ValueOf(a, "--config") /\ opts.lock_timeout = ValueOf(a, "--lock-timeout")
        BY <2>1, LastIsValueOf DEF Known, n
      <3>10. opts = [config |-> ValueOf(a, "--config"), lock_timeout |-> ValueOf(a, "--lock-timeout")]
        BY <2>2, <3>9 DEF Opts
      <3> QED
        BY <3>1, <3>5, <3>7, <3>8, <3>10
    <2> QED
      BY <2>6, <2>7
  <1> QED
    BY <1>3, <1>4

(* What each command does.                                                 *)
LEMMA StepsTable ==
    ASSUME NEW c \in Commands
    PROVE  /\ c = "resolve" => Steps(c) = <<"resolve">>
           /\ c = "apply" => Steps(c) = <<"apply">>
           /\ c = "run" => Steps(c) = <<"resolve", "apply">>
           /\ c = "check" => Steps(c) = <<"check">>
           /\ c \in {"resolve", "apply", "run", "check"}
  <1>1. c \in {"resolve", "apply", "run", "check"}
    BY DEF Commands
  <1> QED
    BY <1>1 DEF Steps

(* What has been done when a command has done everything.                  *)
LEMMA StepsDone ==
    ASSUME NEW c \in Commands
    PROVE  Range(Steps(c)) = IF c = "run" THEN {"resolve", "apply"} ELSE {c}
  <1>1. /\ \A w : Range(<<w>>) = {w}
        /\ \A v, w : Range(<<v, w>>) = {v, w}
    BY DEF Range
  <1> QED
    BY <1>1, StepsTable

(* Nothing begun, or the steps of the command done in their order.         *)
CliInv ==
    /\ args \in Seq(CliWords)
    /\ LET r == parse_args(args)
       IN  \/ /\ todo = <<>> /\ done = {}
              /\ exit \in {Running, 1, 2} /\ (exit = 2 => ~r.ok)
           \/ /\ r.ok /\ r.command \in Commands
              /\ \/ todo = Steps(r.command) /\ done = {} /\ exit \in {Running, 1}
                 \/ /\ r.command = "run" /\ todo = <<"apply">> /\ done = {"resolve"}
                    /\ exit \in {Running, 1}
                 \/ todo = <<>> /\ done = Range(Steps(r.command)) /\ exit = 0

(* At first nothing is begun.                                              *)
LEMMA CliStarts == CliInit => CliInv
  <1> SUFFICES ASSUME CliInit PROVE CliInv
    OBVIOUS
  <1>1. args \in Seq(CliWords)
    <2>1. PICK m \in 0 .. MaxArgs : args \in [1 .. m -> CliWords]
      BY DEF CliInit, SeqOf
    <2>2. m \in Nat
      BY ArgsAssumption
    <2> QED
      BY <2>1, <2>2
  <1> QED
    BY <1>1 DEF CliInit, CliInv, Running

(* One step per action: refusals begin nothing, a success takes the head   *)
(* of the steps, an error leaves the rest undone.                          *)
LEMMA CliKeeps == CliInv /\ [CliNext]_cliVars => CliInv'
  <1> SUFFICES ASSUME CliInv, [CliNext]_cliVars PROVE CliInv'
    OBVIOUS
  <1> DEFINE r == parse_args(args)
             Before0 == /\ todo = <<>> /\ done = {}
                        /\ exit \in {Running, 1, 2} /\ (exit = 2 => ~r.ok)
             Begun == todo = Steps(r.command) /\ done = {} /\ exit \in {Running, 1}
             Halfway == /\ r.command = "run" /\ todo = <<"apply">> /\ done = {"resolve"}
                        /\ exit \in {Running, 1}
             Ended == todo = <<>> /\ done = Range(Steps(r.command)) /\ exit = 0
  <1>1. /\ args \in Seq(CliWords)
        /\ Before0 \/ (r.ok /\ r.command \in Commands /\ (Begun \/ Halfway \/ Ended))
    BY Zenon DEF CliInv
  <1>2. ASSUME args' = args,
               \/ /\ todo' = <<>> /\ done' = {}
                  /\ exit' \in {Running, 1, 2} /\ (exit' = 2 => ~r.ok)
               \/ /\ r.ok /\ r.command \in Commands
                  /\ \/ todo' = Steps(r.command) /\ done' = {} /\ exit' \in {Running, 1}
                     \/ /\ r.command = "run" /\ todo' = <<"apply">> /\ done' = {"resolve"}
                        /\ exit' \in {Running, 1}
                     \/ todo' = <<>> /\ done' = Range(Steps(r.command)) /\ exit' = 0
        PROVE  CliInv'
    <2>1. parse_args(args)' = r
      BY <1>2
    <2> QED
      BY <1>1, <1>2, <2>1, Zenon DEF CliInv
  <1>3. CASE UNCHANGED cliVars
    BY <1>1, <1>2, <1>3, Zenon DEF cliVars
  <1>4. CASE UsageError
    BY <1>1, <1>2, <1>4 DEF UsageError, Started, Running
  <1>5. CASE UnknownCommand
    BY <1>1, <1>2, <1>5 DEF UnknownCommand, Started, Running
  <1>6. CASE Dispatch
    BY <1>1, <1>2, <1>6 DEF Dispatch, Started, Running
  <1>7. CASE Fails
    BY <1>1, <1>2, <1>7 DEF Fails, Running
  <1>8. CASE Succeeds
    <2>1. ~Before0 /\ ~Ended
      BY <1>8 DEF Succeeds
    <2>2. r.ok /\ r.command \in Commands /\ (Begun \/ Halfway)
      BY <1>1, <2>1
    <2> DEFINE c == r.command
    <2> HIDE DEF c
    <2>3. c \in Commands /\ c = r.command
      BY <2>2 DEF c
    <2>4. CASE Begun /\ c = "run"
      <3>1. todo = <<"resolve", "apply">> /\ done = {}
        BY <2>3, <2>4, StepsTable
      <3>2. todo' = <<"apply">> /\ done' = {"resolve"} /\ exit' = Running /\ args' = args
        BY <1>8, <3>1 DEF Succeeds
      <3> QED
        BY <1>2, <2>2, <2>3, <2>4, <3>2
    <2>5. CASE Begun /\ c # "run"
      <3>1. todo = <<c>> /\ done = {}
        BY <2>3, <2>5, StepsTable
      <3>2. todo' = <<>> /\ done' = {c} /\ exit' = 0 /\ args' = args
        BY <1>8, <3>1 DEF Succeeds
      <3>3. Range(Steps(c)) = {c}
        BY <2>3, <2>5, StepsDone
      <3> QED
        BY <1>2, <2>2, <2>3, <3>2, <3>3
    <2>6. CASE Halfway
      <3>1. todo' = <<>> /\ done' = {"resolve", "apply"} /\ exit' = 0 /\ args' = args
        BY <1>8, <2>6 DEF Succeeds
      <3>2. Range(Steps(c)) = {"resolve", "apply"}
        BY <2>3, <2>6, StepsDone
      <3> QED
        BY <1>2, <2>2, <2>3, <3>1, <3>2
    <2> QED
      BY <2>2, <2>4, <2>5, <2>6
  <1> QED
    BY <1>3, <1>4, <1>5, <1>6, <1>7, <1>8 DEF CliNext

(* For lines of any length: the options, the command and the values are    *)
(* what their places in the line make them, and the exit code says what    *)
(* was done (parse_args, main).                                            *)
THEOREM CommandLineExactThm == CliSpec => []CommandLineExact
  <1>1. CliInv => ParseExact
    BY ParseIsExact, Zenon DEF CliInv, ParseExact
  <1>2. CliInv => ExitTells
    <2> SUFFICES ASSUME CliInv PROVE ExitTells
      OBVIOUS
    <2> DEFINE c == parse_args(args).command
               ok == parse_args(args).ok
    <2>1. /\ Running # 0 /\ Running # 2
          /\ "apply" \notin {} /\ "apply" \notin {"resolve"} /\ "resolve" \in {"resolve", "apply"}
      BY DEF Running
    <2>2. c \in Commands => Range(Steps(c)) = IF c = "run" THEN {"resolve", "apply"} ELSE {c}
      BY StepsDone
    <2>3. \/ /\ todo = <<>> /\ done = {}
             /\ exit \in {Running, 1, 2} /\ (exit = 2 => ~ok)
          \/ /\ ok /\ c \in Commands
             /\ \/ todo = Steps(c) /\ done = {} /\ exit \in {Running, 1}
                \/ /\ c = "run" /\ todo = <<"apply">> /\ done = {"resolve"}
                   /\ exit \in {Running, 1}
                \/ todo = <<>> /\ done = Range(Steps(c)) /\ exit = 0
      BY Zenon DEF CliInv
    <2>4. /\ "apply" \in done /\ c = "run" => "resolve" \in done
          /\ exit = 0 <=> ok /\ done # {} /\ done = Range(Steps(c))
          /\ exit = 2 => done = {} /\ ~ok
      <3> HIDE DEF c, ok
      <3>1. CASE done = {} /\ exit # 0 /\ (exit = 2 => ~ok)
        BY <2>1, <3>1
      <3>2. CASE c \in Commands /\ c = "run" /\ done = {"resolve"} /\ exit \in {Running, 1}
        BY <2>1, <2>2, <3>2
      <3>3. CASE c \in Commands /\ ok /\ done = Range(Steps(c)) /\ exit = 0
        BY <2>1, <2>2, <3>3
      <3> QED
        BY <2>1, <2>3, <3>1, <3>2, <3>3
    <2> QED
      BY <2>4, Zenon DEF ExitTells
  <1>3. CliInv => CommandLineExact
    BY <1>1, <1>2 DEF CommandLineExact
  <1> QED
    BY <1>3, CliStarts, CliKeeps, PTL DEF CliSpec

==============================================================================
