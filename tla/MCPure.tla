------------------------------- MODULE MCPure -------------------------------
(* The components that decide without time, lock or failure: the policy,   *)
(* the classification of an answer, a chain's way through text, the        *)
(* configuration, the address check and the command line.  They share no   *)
(* state, so a behaviour is about one of them, its subject, while the      *)
(* others rest.                                                            *)
EXTENDS Policy, Classify, Chain, Config, Validate, Cli

VARIABLE subject

-----------------------------------------------------------------------------
(* Policy: two names and three addresses and one that is not global, so    *)
(* that answers overlap, exceed the limit, are spoilt, empty or missing.   *)
CONSTANTS n1, n2, n3, a1, a2, a3, x1

MCNames == {n1, n2}
MCRequired == {n1}
MCAddrs == {a1, a2, a3, x1}
MCGlobal == {a1, a2, a3}
MCReplies ==
    [outcome : {"ok"},
     addrs   : {{a1}, {a2}, {a1, a2}, {a2, a3}, {a1, x1}, {}}]
    \cup [outcome : {"empty", "transient"}, addrs : {{}}]

-----------------------------------------------------------------------------
(* Classify: three names, sections of up to three records, of four if two  *)
(* CNAME records precede two addresses, and unusual headers with at most   *)
(* one.  The address check is Validate's.                                  *)
CONSTANTS q, q1, q2

MCOwners == {q, q1, q2}
MCIps == {<<1, 1, 1, 1>>, <<10, 0, 0, 1>>}
MCPublic == {a \in MCIps : is_global_unicast(a)}

MCAs == [type : {"A"}, owner : MCOwners, addr : MCIps]
MCCNames == [type : {"CNAME"}, owner : MCOwners, target : MCOwners]

Sections(k) == UNION {[1 .. i -> MCAs \cup MCCNames] : i \in 0 .. k}
FullSections == {cs \o as : cs \in [1 .. 2 -> MCCNames], as \in [1 .. 2 -> MCAs]}

MCMessages == [truncated : {FALSE}, rcode : {"noerror"}, ad : BOOLEAN,
               answers : Sections(3) \cup FullSections]
              \cup [truncated : BOOLEAN, rcode : {"noerror", "nxdomain", "servfail"},
                    ad : BOOLEAN, answers : Sections(1)]

NoMessage == [truncated |-> TRUE, rcode |-> "noerror", ad |-> FALSE, answers |-> <<>>]

-----------------------------------------------------------------------------
(* Chain: names of 2, 4 and 1 bytes and room for 7, so that any two fit    *)
(* and all three do only without their separators.  Others add rules with  *)
(* no destination, whose comments may look like options inside and after a *)
(* quote, and rules for an address without and with a name.                *)
MCOrder == <<n1, n2, n3>>
MCLength == [n \in {n1, n2, n3} |-> IF n = n1 THEN 2 ELSE IF n = n2 THEN 4 ELSE 1]
MCDestinations == {a1, a2}
MCAtoms == {"x", Quote, Space, "-d", a2, n3}
MCForeign ==
    {[dst |-> NoDestination, comments |-> <<>>],
     [dst |-> NoDestination, comments |-> <<<<"x", Space, "-d", Space, a2>>>>],
     [dst |-> a1, comments |-> <<>>],
     [dst |-> a1, comments |-> <<<<n3>>>>],
     [dst |-> NoDestination, comments |-> <<<<"x", Quote, Space, "-d", Space, a2>>>>]}

-----------------------------------------------------------------------------
(* Validate: octets at, before and behind every boundary of a              *)
(* special-purpose block, and two networks whose host bits are not zero.   *)
Edges == << {0, 1, 9, 10, 11, 99, 100, 101, 126, 127, 128, 168, 169, 170, 171, 172, 173,
             191, 192, 193, 197, 198, 199, 202, 203, 204, 223, 224, 239, 240, 255},
            {0, 1, 15, 16, 17, 18, 19, 20, 31, 32, 50, 51, 52, 63, 64, 87, 88, 89,
             127, 128, 167, 168, 169, 253, 254, 255},
            {0, 1, 2, 3, 98, 99, 100, 101, 112, 113, 114, 255},
            {0, 255} >>

Blocks == { <<172, 20, 99, 1>>, <<198, 51, 100, 254>> }

-----------------------------------------------------------------------------

(* A component at rest: no answer judged, no chain written, no file, no    *)
(* address, no arguments.  The policy rests where it starts.               *)
ClassifyRest == msg = NoMessage /\ require = TRUE /\ verdict = Pending
ChainRest == /\ endpoints = {n1} /\ added = 0
             /\ chains = [c \in Chains |-> <<>>]
             /\ plan = [c \in Chains |-> [a \in {} |-> {}]]
CliRest == args = <<>> /\ todo = <<>> /\ done = {} /\ exit = Running

PureInit ==
    /\ subject \in {"policy", "classify", "chain", "config", "validate", "cli"}
    /\ Init /\ ConfigInit /\ ValidateInit
    /\ IF subject = "classify" THEN ClassifyInit ELSE ClassifyRest
    /\ IF subject = "chain" THEN ChainInit ELSE ChainRest
    /\ IF subject = "cli" THEN CliInit ELSE CliRest

PolicyStep == /\ subject = "policy" /\ Next
              /\ UNCHANGED <<classifyVars, chainVars, cfg, ip, cliVars>>
ClassifyStep == /\ subject = "classify" /\ ClassifyNext
                /\ UNCHANGED <<vars, chainVars, cfg, ip, cliVars>>
ChainStep == /\ subject = "chain" /\ ChainNext
             /\ UNCHANGED <<vars, classifyVars, cfg, ip, cliVars>>
ConfigStep == /\ subject = "config" /\ ConfigNext
              /\ UNCHANGED <<vars, classifyVars, chainVars, ip, cliVars>>
ValidateStep == /\ subject = "validate" /\ ValidateNext
                /\ UNCHANGED <<vars, classifyVars, chainVars, cfg, cliVars>>
CliStep == /\ subject = "cli" /\ CliNext
           /\ UNCHANGED <<vars, classifyVars, chainVars, cfg, ip>>

PureNext == /\ \/ PolicyStep \/ ClassifyStep \/ ChainStep
               \/ ConfigStep \/ ValidateStep \/ CliStep
            /\ UNCHANGED subject

PureSpec ==
    PureInit /\ [][PureNext]_<<subject, vars, classifyVars, chainVars, cfg, ip, cliVars>>

=============================================================================
