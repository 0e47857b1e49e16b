------------------------------- MODULE Config --------------------------------
(***************************************************************************)
(* Config::validate: which configurations are accepted, character by       *)
(* character where names are concerned.  The other modules take host and   *)
(* chain names for atoms that a rule comment, a hosts line and a chain     *)
(* listing keep apart; this module is the reason why they may.             *)
(*                                                                         *)
(* The alphabet has one lower-case and one upper-case character, a hyphen, *)
(* a dot, a blank, and an underscore for everything that only chain names  *)
(* may contain.  That counts and limits are positive, which validate       *)
(* requires too, are assumptions of the other modules.                     *)
(***************************************************************************)
EXTENDS Integers, Sequences, FiniteSets, SequencesExt

CONSTANTS
    MaxLabel,       \* 63
    MaxName,        \* 253
    MaxChain,       \* 28
    MaxJoined,      \* 255: MAX_COMMENT_LEN
    MaxChars        \* bound on the characters of a configuration

ASSUME LimitsAssumption ==
    {MaxLabel, MaxName, MaxChain, MaxJoined, MaxChars} \subseteq Nat

Lower == "a"
Upper == "A"
Hyphen == "-"
Dot == "."
Blank == " "
Chars == {Lower, Upper, Hyphen, Dot, Blank, "_"}

VARIABLE cfg    \* the parsed file

-----------------------------------------------------------------------------
(* The code.                                                               *)

Trim(s) == LET ks == {k \in DOMAIN s : s[k] # Blank}
           IN  IF ks = {} THEN <<>> ELSE SubSeq(s, Min(ks), Max(ks))

(* Blanks at both ends, then every dot at the end, then capitals.          *)
normalize_name(s) ==
    LET t        == Trim(s)
        stripped == SubSeq(t, 1, Max({k \in DOMAIN t : t[k] # Dot} \cup {0}))
    IN  [k \in DOMAIN stripped |-> IF stripped[k] = Upper THEN Lower ELSE stripped[k]]

(* split('.'): the runs between two dots, or a dot and an end.             *)
Labels(s) ==
    LET dots == {k \in DOMAIN s : s[k] = Dot} \cup {0, Len(s) + 1}
    IN  {SubSeq(s, r[1] + 1, r[2] - 1) : r \in
            {x \in dots \X dots : x[1] < x[2] /\ \A k \in dots : k <= x[1] \/ k >= x[2]}}

is_label(l) == /\ l # <<>> /\ Len(l) <= MaxLabel
               /\ l[1] # Hyphen /\ l[Len(l)] # Hyphen
               /\ \A k \in DOMAIN l : l[k] \in {Lower, Upper, Hyphen}

(* Mutant: only the first label may not start with a hyphen.               *)
is_hostname_FirstLabel(s) == /\ s # <<>> /\ Len(s) <= MaxName
                             /\ s[1] # Hyphen
                             /\ \A l \in Labels(s) : l # <<>> /\ is_label(<<Lower>> \o Tail(l))

is_hostname(s) == /\ s # <<>> /\ Len(s) <= MaxName
                  /\ \A l \in Labels(s) : is_label(l)

is_chain_name(s) == /\ s # <<>> /\ Len(s) <= MaxChain
                    /\ \A k \in DOMAIN s : s[k] \in {Lower, Upper, "_", Hyphen}

endpoint_names(c) == [i \in DOMAIN c.endpoints |-> normalize_name(c.endpoints[i])]

(* Every endpoint has a host name, and no two have the same one.           *)
endpoints_ok(c) ==
    LET names == endpoint_names(c)
    IN  /\ c.endpoints # <<>>
        /\ \A i \in DOMAIN names : is_hostname(names[i])
        /\ \A i, j \in DOMAIN names : names[i] = names[j] => i = j

(* The characters of a list of names, without any between them.            *)
Total(names) ==
    LET first[k \in 0 .. Len(names)] == IF k = 0 THEN 0 ELSE first[k - 1] + Len(names[k])
    IN  first[Len(names)]

(* Mutant: the separators are forgotten.                                   *)
joined_NoSeparators(c) == Total(SetToSeq(ToSet(endpoint_names(c))))

(* The length of the rule comment that lists every endpoint.               *)
joined(c) == LET seen == ToSet(endpoint_names(c))
             IN  Total(SetToSeq(seen)) + Cardinality(seen) - 1

(* Each static host is a list of at least one name, kept as written.       *)
static_hosts_ok(c) ==
    \A h \in DOMAIN c.static_hosts :
        /\ c.static_hosts[h] # <<>>
        /\ \A i \in DOMAIN c.static_hosts[h] : is_hostname(normalize_name(c.static_hosts[h][i]))

validate(c) == /\ c.production_chain # c.maintenance_chain
               /\ is_chain_name(c.production_chain) /\ is_chain_name(c.maintenance_chain)
               /\ endpoints_ok(c)
               /\ joined(c) <= MaxJoined
               /\ static_hosts_ok(c)

(* join(" "), for a static line of the hosts file and for a rule comment.  *)
join_name(text, k, names) == IF k = 1 THEN names[1] ELSE text \o <<Blank>> \o names[k]

join(names) ==
    LET upto[k \in 0 .. Len(names)] ==
            IF k = 0 THEN <<>> ELSE join_name(upto[k - 1], k, names)
    IN  upto[Len(names)]

(* What precedes the rules of a chain in its listing.                      *)
prefix(chain) == <<Hyphen, Upper, Blank>> \o chain \o <<Blank>>

-----------------------------------------------------------------------------
(* A file is written, one entry or one character at a time.                *)

Size(c) == Len(c.maintenance_chain)
             + Total(c.endpoints) + Len(c.endpoints)
             + FoldLeft(LAMBDA sum, h : sum + 1 + Len(join(h)), 0, c.static_hosts)

ConfigInit == cfg = [production_chain |-> <<Lower>>, maintenance_chain |-> <<>>,
                     endpoints |-> <<>>, static_hosts |-> <<>>]

(* The list with an empty name added, or a character added to its last.    *)
Longer(names, chars) ==
    {Append(names, <<>>)} \cup
    {[names EXCEPT ![Len(names)] = Append(@, ch)] : ch \in IF names = <<>> THEN {} ELSE chars}

ConfigNext == \E c \in {[cfg EXCEPT !.endpoints = e] : e \in Longer(cfg.endpoints, Chars)}
                         \cup {[cfg EXCEPT !.static_hosts = Append(@, <<>>)]}
                         \cup {[cfg EXCEPT !.static_hosts = Append(Front(@), h)] :
                                  h \in IF cfg.static_hosts = <<>> THEN {}
                                        ELSE Longer(Last(cfg.static_hosts), {Lower, Upper, Dot, Blank})}
                         \cup {[cfg EXCEPT !.maintenance_chain = Append(@, ch)] : ch \in {Lower, Blank, "_"}} :
                 Size(c) <= MaxChars /\ cfg' = c

ConfigSpec == ConfigInit /\ [][ConfigNext]_cfg

-----------------------------------------------------------------------------
(* Correctness.                                                            *)

Alphanumeric == {Lower, Upper}

(* The language of host names, by what may stand next to what.             *)
Hostname(s) ==
    /\ Len(s) \in 1 .. MaxName
    /\ s[1] \in Alphanumeric /\ s[Len(s)] \in Alphanumeric
    /\ \A k \in DOMAIN s :
          \/ s[k] \in Alphanumeric \cup {Hyphen}
          \/ s[k] = Dot /\ {s[k - 1], s[k + 1]} \subseteq Alphanumeric
    /\ \A k \in 1 .. Len(s) - MaxLabel : \E j \in k .. k + MaxLabel : s[j] = Dot

(* "letters, digits, hyphens, dots; labels 1..=63, total <= 253, no empty  *)
(* labels, labels do not start or end with '-'": label by label is_hostname*)
(* accepts this language, no more and no less.                             *)
HostnamesExact ==
    \A i \in DOMAIN cfg.endpoints : is_hostname(cfg.endpoints[i]) <=> Hostname(cfg.endpoints[i])

(* The endpoints of an accepted file are told apart by what resolve, apply *)
(* and the chains know them by, and normalizing a name again, as each of   *)
(* them does for itself, changes nothing (validate, endpoint_names).       *)
EndpointsAreKeys ==
    validate(cfg) =>
        LET names == endpoint_names(cfg)
        IN  /\ Cardinality(ToSet(names)) = Len(cfg.endpoints)
            /\ \A n \in ToSet(names) : normalize_name(n) = n

(* split_whitespace: the runs between blanks.                              *)
Fields(s) ==
    {SubSeq(s, r[1], r[2]) : r \in
        {x \in (DOMAIN s) \X (DOMAIN s) :
            /\ x[1] <= x[2]
            /\ \A k \in x[1] .. x[2] : s[k] # Blank
            /\ x[1] = 1 \/ s[x[1] - 1] = Blank
            /\ x[2] = Len(s) \/ s[x[2] + 1] = Blank}}

(* Whichever endpoints of an accepted file share an address, the comment   *)
(* that names them fits a rule and is read back as the same names: the     *)
(* kernel can hold the last-known-good state (validate, "provenance would  *)
(* be lost").                                                              *)
CommentsKeepNames ==
    validate(cfg) => \A S \in SUBSET ToSet(endpoint_names(cfg)) :
                        LET text == join(SetToSeq(S))
                        IN  Len(text) <= MaxJoined /\ Fields(text) = S

(* A static line, though written without normalizing, has the names of its *)
(* host for its fields, apart from letter case and dots at the end; none   *)
(* is broken in two (validate, hosts::render).                             *)
StaticLinesFaithful ==
    validate(cfg) => \A h \in ToSet(cfg.static_hosts) :
                        {normalize_name(w) : w \in Fields(join(h))} = {normalize_name(n) : n \in ToSet(h)}

(* No rule of one chain of an accepted file is taken for a rule of the     *)
(* other when its listing is parsed (is_chain_name, parse_chain).          *)
ChainsNotConfused ==
    validate(cfg) =>
        LET rule(chain) == prefix(chain) \o <<Hyphen>>
        IN  /\ ~IsPrefix(prefix(cfg.production_chain), rule(cfg.maintenance_chain))
            /\ ~IsPrefix(prefix(cfg.maintenance_chain), rule(cfg.production_chain))

(* What validate accepts, the other parts can take for atoms: names are    *)
(* keys, and comments, hosts lines and listings keep them apart.           *)
TextKeepsNames ==
    EndpointsAreKeys /\ CommentsKeepNames /\ StaticLinesFaithful /\ ChainsNotConfused

=============================================================================
