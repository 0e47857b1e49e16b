----------------------------- MODULE PlanProofs -----------------------------
(***************************************************************************)
(* What the planning operators return, for every configuration: the facts  *)
(* that the proofs about Policy and Apply rest on.                         *)
(***************************************************************************)
EXTENDS Plan, FiniteSetTheorems, TLAPS

(* An AddrMap is a function on addresses whose values are sets of names.   *)
LEMMA AddrMapFacts ==
    ASSUME NEW m \in AddrMap
    PROVE  /\ m = [a \in DOMAIN m |-> m[a]]
           /\ DOMAIN m \subseteq Addrs
           /\ \A a \in DOMAIN m : m[a] \subseteq Names
BY DEF AddrMap

(* And a function from addresses to sets of names is an AddrMap.           *)
LEMMA AddrMapIntro ==
    ASSUME NEW D \in SUBSET Addrs, NEW m \in [D -> SUBSET Names]
    PROVE  m \in AddrMap
BY DEF AddrMap

(* The map without addresses is one.                                       *)
LEMMA EmptyMapType == EmptyMap \in AddrMap
<1>1. EmptyMap \in [{} -> SUBSET Names]
  BY DEF EmptyMap
<1> QED BY <1>1 DEF AddrMap

(* Answers are about names, and each is a reply or an error.               *)
LEMMA ResultsFacts ==
    ASSUME NEW r \in Results, NEW n \in DOMAIN r
    PROVE  n \in Names /\ r[n] \in NameResult
BY RepliesAssumption DEF Results

(* So are no answers at all.                                               *)
LEMMA NoResultsType == NoResults \in Results
<1>1. NoResults \in [{} -> Replies]
  BY DEF NoResults
<1> QED BY <1>1 DEF Results

(* Last-known-good state of a name read from a chain.                      *)
LEMMA LkgType ==
    ASSUME NEW m \in AddrMap, NEW n
    PROVE  /\ lkg(previous(m, n)) \in NameState
           /\ lkg(previous(m, n)).addrs = previous(m, n)
           /\ previous(m, n) \subseteq DOMAIN m
BY AddrMapFacts DEF lkg, previous, NameState

(* The state of a name, from its answer or from what is installed.         *)
LEMMA NameStateType ==
    ASSUME NEW r \in Results, NEW m \in AddrMap, NEW n \in Names
    PROVE  name_state(r, m, n) \in NameState
<1>1. CASE Usable(r, n)
  BY <1>1, ResultsFacts DEF Usable, name_state, NameState, NameResult
<1>2. CASE ~Usable(r, n)
  BY <1>2, LkgType DEF name_state, NameState
<1> QED BY <1>1, <1>2

(* The map of all names has the addresses of each and no others.           *)
LEMMA UnionType ==
    ASSUME NEW names \in [Names -> NameState]
    PROVE  /\ Union(names) \in AddrMap
           /\ \A n \in Names : previous(Union(names), n) = names[n].addrs
<1> DEFINE D == UNION {names[n].addrs : n \in Names}
<1>1. D \in SUBSET Addrs
  BY DEF NameState
<1>2. Union(names) \in AddrMap
  <2>1. Union(names) \in [D -> SUBSET Names]
    BY DEF Union
  <2> QED BY <1>1, <2>1, AddrMapIntro
<1>3. ASSUME NEW n \in Names
      PROVE  previous(Union(names), n) = names[n].addrs
  BY DEF previous, Union
<1> QED BY <1>2, <1>3

(* A merge has the addresses of both, with the names of both.              *)
LEMMA MergeType ==
    ASSUME NEW m \in AddrMap, NEW p \in AddrMap
    PROVE  /\ Merge(m, p) \in AddrMap
           /\ DOMAIN Merge(m, p) = DOMAIN m \cup DOMAIN p
           /\ \A a \in DOMAIN m : m[a] \subseteq Merge(m, p)[a]
           /\ \A a \in DOMAIN p : p[a] \subseteq Merge(m, p)[a]
<1> DEFINE D == DOMAIN m \cup DOMAIN p
<1>1. \A a \in D : At(m, a) \cup At(p, a) \subseteq Names
  BY AddrMapFacts DEF At
<1>2. D \in SUBSET Addrs
  BY AddrMapFacts
<1>3. Merge(m, p) \in AddrMap
  <2>1. Merge(m, p) \in [D -> SUBSET Names]
    BY <1>1 DEF Merge
  <2> QED BY <1>2, <2>1, AddrMapIntro
<1> QED BY <1>3 DEF Merge, At

(* States taken from what is installed have its addresses.                 *)
LEMMA NamesFromKernelType ==
    ASSUME NEW m \in AddrMap
    PROVE  /\ names_from_kernel(m) \in [Names -> NameState]
           /\ \A n \in Names : names_from_kernel(m)[n].addrs = previous(m, n)
BY LkgType DEF names_from_kernel

(* The per-name states before the limit is looked at.                      *)
Candidate(r, p) == [n \in Names |-> name_state(r, p, n)]

(* They are states of names.                                               *)
LEMMA CandidateType ==
    ASSUME NEW r \in Results, NEW p \in AddrMap
    PROVE  Candidate(r, p) \in [Names -> NameState]
BY NameStateType DEF Candidate

(* compute() with its two cases apart.                                     *)
LEMMA ComputeCases ==
    ASSUME NEW r, NEW p, NEW m
    PROVE  /\ TooMany(Union(Candidate(r, p))) =>
                 /\ compute(r, p, m).names = names_from_kernel(p)
                 /\ compute(r, p, m).production = p
           /\ ~TooMany(Union(Candidate(r, p))) =>
                 /\ compute(r, p, m).names = Candidate(r, p)
                 /\ compute(r, p, m).production = Union(Candidate(r, p))
           /\ compute(r, p, m).maintenance = Merge(m, compute(r, p, m).production)
BY DEF compute, Candidate

(* A plan is well typed, and what it tells the hosts file about each name  *)
(* is exactly what it puts in the production chain for that name, over the *)
(* limit or not (plan.rs compute).                                         *)
THEOREM PlanAgrees ==
    ASSUME NEW r \in Results, NEW p \in AddrMap, NEW m \in AddrMap
    PROVE  /\ compute(r, p, m).names \in [Names -> NameState]
           /\ compute(r, p, m).production \in AddrMap
           /\ compute(r, p, m).maintenance \in AddrMap
           /\ \A n \in Names :
                 compute(r, p, m).names[n].addrs = previous(compute(r, p, m).production, n)
<1>1. CASE TooMany(Union(Candidate(r, p)))
  <2>1. /\ compute(r, p, m).names = names_from_kernel(p)
        /\ compute(r, p, m).production = p
        /\ compute(r, p, m).maintenance = Merge(m, p)
    BY <1>1, ComputeCases
  <2> QED BY <2>1, NamesFromKernelType, MergeType
<1>2. CASE ~TooMany(Union(Candidate(r, p)))
  <2>1. Union(Candidate(r, p)) \in AddrMap
    BY CandidateType, UnionType
  <2>2. \A n \in Names : previous(Union(Candidate(r, p)), n) = Candidate(r, p)[n].addrs
    BY CandidateType, UnionType
  <2>3. /\ compute(r, p, m).names = Candidate(r, p)
        /\ compute(r, p, m).production = Union(Candidate(r, p))
        /\ compute(r, p, m).maintenance = Merge(m, Union(Candidate(r, p)))
    BY <1>2, ComputeCases
  <2>4. Merge(m, Union(Candidate(r, p))) \in AddrMap
    BY <2>1, MergeType
  <2> QED BY <2>1, <2>2, <2>3, <2>4, CandidateType
<1> QED BY <1>1, <1>2

(* The state names gives n is what the answer r said, if it is said to     *)
(* come from an answer.                                                    *)
BroughtBy(names, r, n) ==
    /\ names[n].source = "fresh" => Usable(r, n) /\ names[n].addrs = r[n].addrs
    /\ names[n].source = "empty" => Cleared(r, n) /\ names[n].addrs = {}

(* The kernel brings nothing fresh.                                        *)
LEMMA KernelIsNotFresh ==
    ASSUME NEW m, NEW n \in Names
    PROVE  names_from_kernel(m)[n].source \in {"missing", "last_known_good"}
BY DEF names_from_kernel, lkg

(* A plan calls nothing fresh or empty that the answers did not bring.     *)
LEMMA PlanBrings ==
    ASSUME NEW r, NEW p, NEW m, NEW n \in Names
    PROVE  BroughtBy(compute(r, p, m).names, r, n)
<1>1. CASE TooMany(Union(Candidate(r, p)))
  BY <1>1, ComputeCases, KernelIsNotFresh DEF BroughtBy
<1>2. CASE ~TooMany(Union(Candidate(r, p)))
  <2>1. compute(r, p, m).names[n] = name_state(r, p, n)
    BY <1>2, ComputeCases DEF Candidate
  <2>2. lkg(previous(p, n)).source \notin {"fresh", "empty"}
    BY DEF lkg
  <2> QED BY <2>1, <2>2 DEF name_state, BroughtBy
<1> QED BY <1>1, <1>2

(* A name that the answers do not settle keeps its addresses in any plan.  *)
LEMMA PlanIsolates ==
    ASSUME NEW r \in Results, NEW p \in AddrMap, NEW m, NEW n \in Names, ~Settled(r, n)
    PROVE  previous(compute(r, p, m).production, n) = previous(p, n)
<1>1. CASE TooMany(Union(Candidate(r, p)))
  BY <1>1, ComputeCases
<1>2. CASE ~TooMany(Union(Candidate(r, p)))
  <2>1. compute(r, p, m).production = Union(Candidate(r, p))
    BY <1>2, ComputeCases
  <2>2. previous(Union(Candidate(r, p)), n) = Candidate(r, p)[n].addrs
    BY CandidateType, UnionType
  <2>3. Candidate(r, p)[n] = lkg(previous(p, n))
    BY DEF Candidate, name_state, Settled
  <2> QED BY <2>1, <2>2, <2>3 DEF lkg
<1> QED BY <1>1, <1>2

(* A plan has every answer in it, or leaves the production chain alone.    *)
LEMMA PlanIsWhole ==
    ASSUME NEW r \in Results, NEW p \in AddrMap, NEW m
    PROVE  \/ compute(r, p, m).production = p
           \/ \A n \in Names :
                 /\ Usable(r, n) => previous(compute(r, p, m).production, n) = r[n].addrs
                 /\ Cleared(r, n) => previous(compute(r, p, m).production, n) = {}
<1>1. CASE TooMany(Union(Candidate(r, p)))
  BY <1>1, ComputeCases
<1>2. CASE ~TooMany(Union(Candidate(r, p)))
  <2>1. compute(r, p, m).production = Union(Candidate(r, p))
    BY <1>2, ComputeCases
  <2>2. ASSUME NEW n \in Names
        PROVE  previous(Union(Candidate(r, p)), n) = Candidate(r, p)[n].addrs
    BY CandidateType, UnionType
  <2>3. ASSUME NEW n \in Names
        PROVE  /\ Usable(r, n) => Candidate(r, p)[n].addrs = r[n].addrs
               /\ Cleared(r, n) => Candidate(r, p)[n].addrs = {}
    BY DEF Candidate, name_state, Usable, Cleared
  <2> QED BY <2>1, <2>2, <2>3
<1> QED BY <1>1, <1>2

(* A chain within the limit and of public addresses.                       *)
Bounded(p) == /\ Cardinality(DOMAIN p) <= MaxAddresses
              /\ DOMAIN p \subseteq Global

(* Addresses of the next chain are addresses of fresh answers or of the    *)
(* present chain.                                                          *)
LEMMA CandidateGlobal ==
    ASSUME NEW r \in Results, NEW p \in AddrMap, DOMAIN p \subseteq Global
    PROVE  DOMAIN Union(Candidate(r, p)) \subseteq Global
<1>1. ASSUME NEW n \in Names
      PROVE  Candidate(r, p)[n].addrs \subseteq Global
  <2>1. CASE Usable(r, n)
    BY <2>1 DEF Candidate, name_state, Usable
  <2>2. CASE ~Usable(r, n)
    BY <2>2, LkgType DEF Candidate, name_state
  <2> QED BY <2>1, <2>2
<1> QED BY <1>1 DEF Union

(* A plan keeps a chain within its bounds, however addresses add up.       *)
LEMMA PlanIsBounded ==
    ASSUME NEW r \in Results, NEW p \in AddrMap, NEW m, Bounded(p)
    PROVE  Bounded(compute(r, p, m).production)
<1> DEFINE c == Union(Candidate(r, p))
<1>1. CASE TooMany(c)
  BY <1>1, ComputeCases
<1>2. CASE ~TooMany(c)
  <2>1. compute(r, p, m).production = c
    BY <1>2, ComputeCases
  <2>2. DOMAIN c \subseteq Global
    BY CandidateGlobal DEF Bounded
  <2>3. IsFiniteSet(DOMAIN c)
    BY <2>2, GlobalAssumption, AddrsAssumption, FS_Subset
  <2>4. Cardinality(DOMAIN c) \in Nat
    BY <2>3, FS_CardinalityType
  <2>5. Cardinality(DOMAIN c) <= MaxAddresses
    BY <1>2, <2>4, MaxAddressesAssumption DEF TooMany
  <2> QED BY <2>1, <2>2, <2>5 DEF Bounded
<1> QED BY <1>1, <1>2

(* The empty chain is.                                                     *)
LEMMA EmptyIsBounded == Bounded(EmptyMap)
<1>1. DOMAIN EmptyMap = {}
  BY DEF EmptyMap
<1> QED BY <1>1, FS_EmptySet, MaxAddressesAssumption DEF Bounded

(* A plan records what it allows in the seen set, and drops nothing of it. *)
LEMMA PlanRecords ==
    ASSUME NEW r \in Results, NEW p \in AddrMap, NEW m \in AddrMap
    PROVE  LET plan == compute(r, p, m)
           IN  /\ plan.production \in AddrMap /\ plan.maintenance \in AddrMap
               /\ \A a \in DOMAIN plan.production :
                     /\ a \in DOMAIN plan.maintenance
                     /\ plan.production[a] \subseteq plan.maintenance[a]
               /\ \A a \in DOMAIN m :
                     /\ a \in DOMAIN plan.maintenance
                     /\ m[a] \subseteq plan.maintenance[a]
<1> DEFINE plan == compute(r, p, m)
<1>1. /\ plan.production \in AddrMap /\ plan.maintenance \in AddrMap
      /\ plan.maintenance = Merge(m, plan.production)
  BY PlanAgrees, ComputeCases
<1> HIDE DEF plan
<1>2. \A q \in AddrMap : /\ DOMAIN Merge(m, q) = DOMAIN m \cup DOMAIN q
                         /\ \A a \in DOMAIN m : m[a] \subseteq Merge(m, q)[a]
                         /\ \A a \in DOMAIN q : q[a] \subseteq Merge(m, q)[a]
  BY MergeType
<1> QED BY <1>1, <1>2 DEF plan

=============================================================================
