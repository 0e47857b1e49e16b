------------------------------- MODULE Chain --------------------------------
(***************************************************************************)
(* How a chain survives its trip through text (iptables.rs): rules are     *)
(* written as a restore batch and read back from the lines `iptables -S`   *)
(* prints.  Apply takes a chain for a map and a Boolean; this module is    *)
(* what stands behind that.                                                *)
(*                                                                         *)
(* A text is a sequence of atoms: whole words, spaces, quotes, backslashes *)
(* and the slash of a prefix length.  Of a name only its length in bytes   *)
(* is known besides its identity.  What a loop computes from a text is a   *)
(* function of how many atoms have been read.                              *)
(***************************************************************************)
EXTENDS Integers, Sequences, FiniteSets, SequencesExt

CONSTANTS
    Order,          \* host names, in byte order
    Length,         \* how many bytes each has
    Destinations,   \* IPv4 addresses
    MaxCommentLen,  \* MAX_COMMENT_LEN
    Atoms,          \* what the comments of others consist of
    ForeignRules,   \* rules that others may add
    MaxForeign,     \* bound on the rules they add between two restores
    Fragment        \* part of a name

AllNames == {Order[i] : i \in DOMAIN Order}

Space == " "
Quote == "quote"
Backslash == "backslash"
Slash == "/"

Production == "PRODUCTION"
Maintenance == "MAINTENANCE"
Chains == {Production, Maintenance}

(* A rule of the kernel: at most one destination, any number of comments.  *)
NoDestination == "any"

(* A name is one word and an address another, none of them punctuation.    *)
(* Any name fits a comment.                                                *)
ASSUME NamesAssumption ==
    /\ Order \in Seq(AllNames) /\ IsFiniteSet(Destinations)
    /\ Space \notin AllNames
    /\ Destinations \cap {Space, Quote, Backslash, NoDestination} = {}
    /\ MaxCommentLen \in Nat /\ Length \in [AllNames -> 1 .. MaxCommentLen - 1]

(* Others' comments on addresses hold host names; elsewhere, any text.     *)
ASSUME ForeignAssumption ==
    /\ ForeignRules \subseteq [dst      : Destinations \cup {NoDestination},
                               comments : Seq(Seq(Atoms))]
    /\ \A r \in ForeignRules : r.dst # NoDestination =>
          \A i \in DOMAIN r.comments : \E n \in AllNames : r.comments[i] = <<n>>

VARIABLES
    endpoints,  \* the configured names
    chains,     \* chain -> the sequence of its rules
    plan,       \* chain -> the map that was written last
    added       \* how many rules others have added since

chainVars == <<endpoints, chains, plan, added>>

-----------------------------------------------------------------------------
(* Writing.                                                                *)

(* The bytes of the names of s, without and with spaces between them.      *)
Bytes(s) ==
    LET first[k \in 0 .. Len(s)] == IF k = 0 THEN 0 ELSE first[k - 1] + Length[s[k]]
    IN  first[Len(s)]

Joined(s) == Bytes(s) + (IF s = <<>> THEN 0 ELSE Len(s) - 1)

add_if(out, n, names) == IF n \in names THEN Append(out, n) ELSE out

Sorted(names) ==
    LET upto[k \in 0 .. Len(Order)] ==
            IF k = 0 THEN <<>> ELSE add_if(upto[k - 1], Order[k], names)
    IN  upto[Len(Order)]

(* Mutant: the separators are forgotten.                                   *)
Accepts_NoSeparators(names) == names # {} /\ Bytes(Sorted(names)) <= MaxCommentLen

(* Config::validate: one address may be shared by every endpoint.          *)
Accepts(names) == names # {} /\ Joined(Sorted(names)) <= MaxCommentLen

Join(s) == [i \in 1 .. 2 * Len(s) - 1 |-> IF i % 2 = 1 THEN s[(i + 1) \div 2] ELSE Space]

(* The names in order; too long a text is cut at the last space before the *)
(* limit, or inside the only name there.                                   *)
comment(names) ==
    LET s      == Sorted(names)
        spaces == {k \in 1 .. Len(s) - 1 : Joined(SubSeq(s, 1, k)) < MaxCommentLen}
        last   == CHOOSE i \in spaces : \A j \in spaces : j <= i
    IN  IF Joined(s) <= MaxCommentLen THEN Join(s)
        ELSE IF spaces = {} THEN <<Fragment>>
        ELSE Join(SubSeq(s, 1, last))

(* One chain of the batch.                                                 *)
render_restore(m) ==
    LET ips == SetToSeq(DOMAIN m)
    IN  [i \in DOMAIN ips |-> [dst |-> ips[i], comments |-> <<comment(m[ips[i]])>>]]

-----------------------------------------------------------------------------
(* What `iptables -S` prints.                                              *)

Special == {Quote, Backslash}

(* A text with its quotes and backslashes escaped.                         *)
escape(out, c) == IF c \in Special THEN Append(Append(out, Backslash), c) ELSE Append(out, c)

Escaped(text) ==
    LET upto[k \in 0 .. Len(text)] == IF k = 0 THEN <<>> ELSE escape(upto[k - 1], text[k])
    IN  upto[Len(text)]

(* A text is put in quotes unless it is one plain word; whether a plain    *)
(* word is quoted depends on its characters.                               *)
Shown(text, quoted) ==
    IF Len(text) = 1 /\ text[1] \notin Special \cup {Space} /\ ~quoted THEN text
    ELSE <<Quote>> \o Escaped(text) \o <<Quote>>

add_comment(out, text, quoted) ==
    out \o <<"--comment", Space>> \o Shown(text, quoted) \o <<Space>>

Comments(texts, quoted) ==
    LET upto[k \in 0 .. Len(texts)] ==
            IF k = 0 THEN <<>> ELSE add_comment(upto[k - 1], texts[k], quoted)
    IN  upto[Len(texts)]

Prefix(chain) == <<"-A", Space, chain, Space>>

Options(rule, quoted) ==
    (IF rule.dst = NoDestination THEN <<>> ELSE <<"-d", Space, rule.dst, Slash, "32", Space>>)
    \o Comments(rule.comments, quoted) \o <<"-j", Space, "target">>

Line(chain, rule, quoted) == Prefix(chain) \o Options(rule, quoted)

Listing(chain, quoted) ==
    <<<<"-N", Space, chain>>>>
    \o [i \in DOMAIN chains[chain] |-> Line(chain, chains[chain][i], quoted)]

-----------------------------------------------------------------------------
(* Reading.                                                                *)

(* Mutant: quotes are taken off and otherwise ignored.                     *)
tokenize_NoQuotes(text) ==
    LET word(out, c) == IF c = Space THEN Append(out, <<>>)
                        ELSE IF c \in Special THEN out
                        ELSE [out EXCEPT ![Len(out)] = Append(@, c)]
    IN  FoldLeft(word, <<<<>>>>, text)

(* The loop over the characters; `escaped` stands for the inner next().    *)
TokenStart == [out |-> <<>>, cur |-> <<>>, in_quote |-> FALSE, have |-> FALSE, escaped |-> FALSE]

token_step(s, c) ==
    LET pushed == [s EXCEPT !.cur = Append(@, c), !.have = TRUE, !.escaped = FALSE]
    IN  IF s.escaped THEN pushed
        ELSE IF c = Quote THEN [s EXCEPT !.in_quote = ~@, !.have = TRUE]
        ELSE IF c = Backslash /\ s.in_quote THEN [s EXCEPT !.escaped = TRUE]
        ELSE IF c # Space \/ s.in_quote THEN pushed
        ELSE IF s.have THEN [s EXCEPT !.out = Append(@, s.cur), !.cur = <<>>, !.have = FALSE]
        ELSE s

Scan(start, text) ==
    LET state[k \in 0 .. Len(text)] == IF k = 0 THEN start ELSE token_step(state[k - 1], text[k])
    IN  state[Len(text)]

tokenize(text) ==
    LET end == Scan(TokenStart, text)
    IN  IF end.have THEN Append(end.out, end.cur) ELSE end.out

(* split_whitespace: the runs of atoms between spaces.                     *)
Words(tok) ==
    {SubSeq(tok, r[1], r[2]) : r \in
        {x \in (DOMAIN tok) \X (DOMAIN tok) :
            /\ x[1] <= x[2]
            /\ \A i \in x[1] .. x[2] : tok[i] # Space
            /\ x[1] = 1 \/ tok[x[1] - 1] = Space
            /\ x[2] = Len(tok) \/ tok[x[2] + 1] = Space}}

(* What precedes the slash, if that is an address.                         *)
Destination(tok) == IF tok # <<>> /\ tok[1] \in Destinations /\ (Len(tok) = 1 \/ tok[2] = Slash)
                    THEN tok[1] ELSE NoDestination

(* The loop over the tokens of a line: an option takes the next token.     *)
ParseStart == [option |-> "none", ip |-> NoDestination, names |-> {}]

parse_step(s, tok) ==
    IF s.option = "-d" THEN [s EXCEPT !.option = "none", !.ip = Destination(tok)]
    ELSE IF s.option = "--comment" THEN [s EXCEPT !.option = "none", !.names = @ \cup Words(tok)]
    ELSE IF tok \in {<<"-d">>, <<"--comment">>} THEN [s EXCEPT !.option = tok[1]]
    ELSE s

Parse(toks) ==
    LET state[k \in 0 .. Len(toks)] ==
            IF k = 0 THEN ParseStart ELSE parse_step(state[k - 1], toks[k])
    IN  state[Len(toks)]

(* The numbers of the lines that are rules.                                *)
RuleLines(lines, chain) == {i \in DOMAIN lines : IsPrefix(Prefix(chain), lines[i])}

Entry(line, chain) == Parse(tokenize(SubSeq(line, Len(Prefix(chain)) + 1, Len(line))))

(* Mutant: only rules with a comment are taken for ours.                   *)
parse_chain_NeedsComment(lines, chain) ==
    [i \in {j \in RuleLines(lines, chain) : /\ Entry(lines[j], chain).ip # NoDestination
                                            /\ Entry(lines[j], chain).names # {}}
        |-> Entry(lines[i], chain)]

(* Rules without a destination are left out; the others keep their order.  *)
parse_chain(lines, chain) ==
    [i \in {j \in RuleLines(lines, chain) : Entry(lines[j], chain).ip # NoDestination}
        |-> Entry(lines[i], chain)]

count_rules(lines, chain) == Cardinality(RuleLines(lines, chain))

entries_to_map(entries) ==
    LET es == {entries[i] : i \in DOMAIN entries}
    IN  [ip \in {e.ip : e \in es} |-> UNION {e.names : e \in {x \in es : x.ip = ip}}]

read_chain(chain, quoted) ==
    [entries    |-> parse_chain(Listing(chain, quoted), chain),
     rule_lines |-> count_rules(Listing(chain, quoted), chain)]

is_dirty(read) ==
    LET entries == Cardinality(DOMAIN read.entries)
    IN  \/ read.rule_lines # entries
        \/ Cardinality(DOMAIN entries_to_map(read.entries)) # entries

-----------------------------------------------------------------------------

(* The names that AllNames knows among the words w.                        *)
NamesIn(w) == {n \in AllNames : <<n>> \in w}

(* The seen set is rebuilt from its own listing and gains what is allowed. *)
Merged(p, quoted) ==
    LET seen == entries_to_map(read_chain(Maintenance, quoted).entries)
    IN  [a \in DOMAIN seen \cup DOMAIN p |->
            (IF a \in DOMAIN seen THEN NamesIn(seen[a]) ELSE {})
            \cup (IF a \in DOMAIN p THEN p[a] ELSE {})]

Allowed == UNION {[S -> (SUBSET endpoints) \ {{}}] : S \in SUBSET Destinations}

ChainInit == /\ endpoints \in {names \in SUBSET AllNames : Accepts(names)}
             /\ chains = [c \in Chains |-> <<>>]
             /\ plan = [c \in Chains |-> [a \in {} |-> {}]]
             /\ added = 0

(* iptables-restore commits a batch.                                       *)
Restore == \E p \in Allowed, quoted \in BOOLEAN :
    /\ plan' = [c \in Chains |-> IF c = Production THEN p ELSE Merged(p, quoted)]
    /\ chains' = [c \in Chains |-> render_restore(plan'[c])]
    /\ added' = 0
    /\ UNCHANGED endpoints

(* Others add a rule of their own, or one of ours a second time.           *)
Foreign == \E c \in Chains :
    /\ added < MaxForeign
    /\ \E r \in ForeignRules \cup {chains[c][i] : i \in DOMAIN chains[c]} :
          chains' = [chains EXCEPT ![c] = Append(@, r)]
    /\ added' = added + 1
    /\ UNCHANGED <<endpoints, plan>>

ChainNext == Restore \/ Foreign

ChainSpec == ChainInit /\ [][ChainNext]_chainVars

-----------------------------------------------------------------------------

Map(c, quoted) == entries_to_map(read_chain(c, quoted).entries)

(* Reading back what was written gives the plan, rule for rule, and for    *)
(* the production chain name for name: no endpoint that Config::validate   *)
(* accepted is ever cut off a comment, however many share an address.  So  *)
(* verify_chains does not fail after a good restore, and the kernel can be *)
(* the only store of last-known-good addresses.  A comment of the seen set *)
(* may have to be cut; it keeps whole names only, and at least one.        *)
ReadBack ==
    added = 0 => \A c \in Chains, quoted \in BOOLEAN :
        /\ ~is_dirty(read_chain(c, quoted))
        /\ DOMAIN Map(c, quoted) = DOMAIN plan[c]
        /\ \A a \in DOMAIN plan[c] :
              LET names == {<<n>> : n \in plan[c][a]}
              IN  IF c = Production THEN Map(c, quoted)[a] = names
                  ELSE /\ Map(c, quoted)[a] \subseteq names
                       /\ names # {} => Map(c, quoted)[a] # {}

(* Whatever others add, a chain is found dirty exactly when it holds a     *)
(* rule without destination or two rules for an address, and a comment     *)
(* that looks like options is not taken for any (is_dirty, tokenize).      *)
DirtyIsExact ==
    \A c \in Chains, quoted \in BOOLEAN :
        is_dirty(read_chain(c, quoted)) <=>
            \/ \E i \in DOMAIN chains[c] : chains[c][i].dst = NoDestination
            \/ \E i, j \in DOMAIN chains[c] : i # j /\ chains[c][i].dst = chains[c][j].dst

(* The seen set never loses an address on its way through text and back,   *)
(* not even one that others put there (plan.rs, parse_chain).              *)
SeenAddressesStay ==
    [][\A i \in DOMAIN chains[Maintenance] :
          chains[Maintenance][i].dst = NoDestination
          \/ \E j \in DOMAIN chains'[Maintenance] :
                chains'[Maintenance][j].dst = chains[Maintenance][i].dst]_chainVars

=============================================================================
