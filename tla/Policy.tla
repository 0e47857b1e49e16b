------------------------------- MODULE Policy -------------------------------
(***************************************************************************)
(* What the tool promises about the two dynamic chains, with no processes, *)
(* lock or failures: the chains change only by installing, in one step,    *)
(* the plan for some answers and the chains' own present contents.  Apply  *)
(* is shown to implement this specification.                               *)
(***************************************************************************)
EXTENDS Plan

VARIABLES
    prod,       \* the production chain (allowed)
    maint,      \* the maintenance chain (ever seen)
    input       \* the answers whose plan the chains hold

vars == <<prod, maint, input>>

TypeOK == /\ prod \in AddrMap
          /\ maint \in AddrMap
          /\ input \in Results

(* firewall-config creates both chains empty.                              *)
Init == /\ prod = EmptyMap
        /\ maint = EmptyMap
        /\ input = NoResults

Install(r) == /\ prod' = compute(r, prod, maint).production
              /\ maint' = compute(r, prod, maint).maintenance
              /\ input' = r

Next == \E r \in Results : Install(r)

Spec == Init /\ [][Next]_vars

-----------------------------------------------------------------------------

(* Whatever the production chain allows, for whichever name, has been      *)
(* recorded in the maintenance chain (the seen set), so a later sweep      *)
(* finds every flow the firewall ever let through (plan.rs, conntrack.rs). *)
SeenCoversAllowed ==
    \A a \in DOMAIN prod : a \in DOMAIN maint /\ prod[a] \subseteq maint[a]

(* The allow list never exceeds firewall.max_addresses and never holds an  *)
(* address outside public unicast space, however many answers come in and  *)
(* however last-known-good and fresh addresses add up (plan.rs).           *)
BoundedChain == /\ Cardinality(DOMAIN prod) <= MaxAddresses
                /\ DOMAIN prod \subseteq Global

(* The maintenance chain only ever grows while the box is up: no step      *)
(* drops an address, nor a name from its comment (plan.rs).                *)
MaintenanceGrows ==
    [][\A a \in DOMAIN maint : a \in DOMAIN maint' /\ maint[a] \subseteq maint'[a]]_vars

(* A name that an update does not settle keeps exactly its addresses, even *)
(* if it shares an address with a name that moves or is cleared (plan.rs). *)
LkgIsolation ==
    [][\A n \in Names : ~Settled(input', n) => previous(prod', n) = previous(prod, n)]_vars

(* An update lands whole or not at all: either every settled name has      *)
(* exactly its answer, or the production chain is as it was (the           *)
(* max_addresses branch of plan.rs).                                       *)
AllOrNothing ==
    [][\/ prod' = prod
       \/ \A n \in Names :
             /\ Usable(input', n) => previous(prod', n) = input'[n].addrs
             /\ Cleared(input', n) => previous(prod', n) = {}]_vars

=============================================================================
