----------------------------- MODULE TextProofs ------------------------------
(***************************************************************************)
(* Proofs about text, for any names, lengths, addresses and limits.        *)
(*                                                                         *)
(* Chain: rules survive their trip through text, whatever rules others     *)
(* add.  Every loop is a function of how much it has read, so that each    *)
(* result is an induction on that: what a scan has collected after a word, *)
(* a quoted text, an option, the options of a rule; hence what is read     *)
(* from each line of a listing, and from a chain.  A comment is treated    *)
(* the same way: which names it holds, and that all of them fit when those *)
(* of the configuration do.  The inductive invariant then says only that   *)
(* chains hold rules, and the rules of the plan until others add to them.  *)
(*                                                                         *)
(* Config: the names of an accepted file are kept apart by every text that *)
(* holds them.  The inductive invariant is that a file holds texts; from   *)
(* it and validate alone follow the language of host names, by the dots of *)
(* a name, the fields of a joined text, one name at a time, and that a     *)
(* comment for some names is no longer than one for all of them.           *)
(***************************************************************************)
EXTENDS Chain, Config, WellFoundedInduction, FiniteSetTheorems, TLAPS

-----------------------------------------------------------------------------
(* Induction, in a form without operator parameters.                       *)

(* Every set of natural numbers has a least element.                       *)
LEMMA LeastNatural ==
    ASSUME NEW T, T \subseteq Nat, T # {}
    PROVE  \E x \in T : \A y \in T : x <= y
  <1> DEFINE R == OpToRel(<, Nat)
  <1>1. IsWellFoundedOn(R, Nat)
    BY NatLessThanWellFounded
  <1>2. \E x \in T : \A y \in T : ~ (<<y, x>> \in R)
    BY <1>1, WFMin
  <1>3. \A x, y \in Nat : y < x => <<y, x>> \in R
    BY DEF OpToRel
  <1> HIDE DEF R
  <1>4. PICK x \in T : \A y \in T : ~ (<<y, x>> \in R)
    BY <1>2, Zenon
  <1>5. \A y \in T : ~ (y < x)
    BY <1>3, <1>4, Zenon
  <1>6. \A y \in T : x <= y
    BY <1>5
  <1> QED
    BY <1>4, <1>6

(* A set of numbers up to n that is not empty has a greatest one.          *)
LEMMA GreatestNatural ==
    ASSUME NEW n \in Nat, NEW T, T \subseteq 0 .. n, T # {}
    PROVE  \E x \in T : \A y \in T : y <= x
  <1> DEFINE S == {k \in 0 .. n : n - k \in T}
  <1>1. S \subseteq Nat
    OBVIOUS
  <1>2. \A x \in T : n - x \in S
    OBVIOUS
  <1>3. S # {}
    BY <1>2
  <1>4. PICK k \in S : \A j \in S : k <= j
    BY <1>1, <1>3, LeastNatural, Zenon
  <1>5. n - k \in T /\ k \in 0 .. n
    BY <1>4
  <1>6. \A y \in T : k <= n - y
    BY <1>2, <1>4
  <1>7. \A y \in T : y <= n - k
    BY <1>5, <1>6
  <1> QED
    BY <1>5, <1>7

(* Induction up to n, for a property given as a set.                       *)
LEMMA Induction ==
    ASSUME NEW n \in Nat, NEW P, 0 \in P,
           \A k \in 0 .. n - 1 : k \in P => k + 1 \in P
    PROVE  \A k \in 0 .. n : k \in P
  <1> DEFINE T == {k \in 0 .. n : k \notin P}
  <1> SUFFICES ASSUME T # {} PROVE FALSE
    OBVIOUS
  <1>0. T \subseteq Nat
    OBVIOUS
  <1>1. PICK k \in T : \A j \in T : k <= j
    BY <1>0, LeastNatural, Zenon
  <1>2. k # 0 /\ k - 1 \in 0 .. n - 1 /\ k - 1 \notin T
    BY <1>1
  <1> QED
    BY <1>1, <1>2

(* What a function defined by primitive recursion computes.                *)
LEMMA Recursion ==
    ASSUME NEW n \in Nat, NEW S, NEW start \in S, NEW F \in [S -> S]
    PROVE  \E f \in [0 .. n -> S] : f[0] = start /\ \A k \in 1 .. n : f[k] = F[f[k - 1]]
  <1> DEFINE Good(i, g) == /\ g \in [0 .. i -> S]
                           /\ \A k \in 0 .. i : g[k] = IF k = 0 THEN start ELSE F[g[k - 1]]
             P == {i \in 0 .. n : \E g : Good(i, g)}
  <1>1. 0 \in P
    <2>1. Good(0, [k \in 0 .. 0 |-> start])
      OBVIOUS
    <2> HIDE DEF Good
    <2> QED
      BY <2>1
  <1>2. ASSUME NEW i \in 0 .. n - 1, i \in P PROVE i + 1 \in P
    <2>1. PICK g : Good(i, g)
      BY <1>2
    <2>2. Good(i + 1, [k \in 0 .. i + 1 |-> IF k = i + 1 THEN F[g[i]] ELSE g[k]])
      BY <2>1
    <2>3. i + 1 \in 0 .. n
      OBVIOUS
    <2> HIDE DEF Good
    <2> QED
      BY <2>2, <2>3
  <1> HIDE DEF P
  <1>3. n \in P
    BY <1>1, <1>2, Induction
  <1> USE DEF P
  <1>4. PICK g : Good(n, g)
    BY <1>3
  <1> QED
    BY <1>4

(* The same, for a step that depends on the position.                      *)
Computes(n, S, F, start) ==
    \E f \in [0 .. n -> S] : f[0] = start /\ \A k \in 1 .. n : f[k] = F[k][f[k - 1]]

(* It exists, whatever the steps do.                                       *)
LEMMA RecursionAt ==
    \A n \in Nat : \A S, F, start :
        start \in S /\ F \in [1 .. n -> [S -> S]] => Computes(n, S, F, start)
  <1> SUFFICES ASSUME NEW n \in Nat, NEW S, NEW F, NEW start, start \in S, F \in [1 .. n -> [S -> S]]
               PROVE  Computes(n, S, F, start)
    OBVIOUS
  <1> DEFINE Good(i, g) == /\ g \in [0 .. i -> S]
                           /\ \A k \in 0 .. i : g[k] = IF k = 0 THEN start ELSE F[k][g[k - 1]]
             P == {i \in 0 .. n : \E g : Good(i, g)}
  <1>1. 0 \in P
    <2>1. Good(0, [k \in 0 .. 0 |-> start])
      OBVIOUS
    <2> HIDE DEF Good
    <2> QED
      BY <2>1
  <1>2. ASSUME NEW i \in 0 .. n - 1, i \in P PROVE i + 1 \in P
    <2>1. PICK g : Good(i, g)
      BY <1>2
    <2>2. Good(i + 1, [k \in 0 .. i + 1 |-> IF k = i + 1 THEN F[i + 1][g[i]] ELSE g[k]])
      <3>1. i + 1 \in 1 .. n /\ g[i] \in S
        BY <2>1
      <3>2. F[i + 1][g[i]] \in S
        BY <3>1
      <3> QED
        BY <2>1, <3>2
    <2>3. i + 1 \in 0 .. n
      OBVIOUS
    <2> HIDE DEF Good
    <2> QED
      BY <2>2, <2>3
  <1> HIDE DEF P
  <1>3. \A k \in 0 .. n : k \in P
    BY <1>1, <1>2, Induction
  <1> USE DEF P
  <1>4. PICK g : Good(n, g)
    BY <1>3
  <1> QED
    BY <1>4 DEF Computes

-----------------------------------------------------------------------------
(* Scanning.                                                               *)

Atom == Atoms \cup AllNames \cup Destinations
        \cup {Fragment, Space, Quote, Backslash, Slash, Production, Maintenance}
        \cup {"-A", "-N", "-d", "--comment", "-j", "target", "32"}

Text == Seq(Atom)

TokenState == [out : Seq(Text), cur : Text, in_quote : BOOLEAN, have : BOOLEAN, escaped : BOOLEAN]

(* One atom leaves the state of a scan of its type.                        *)
LEMMA TokenType ==
    ASSUME NEW s \in TokenState, NEW c \in Atom
    PROVE  token_step(s, c) \in TokenState
  <1> DEFINE pushed == [s EXCEPT !.cur = Append(@, c), !.have = TRUE, !.escaped = FALSE]
  <1>1. s.cur \in Text /\ s.out \in Seq(Text)
    BY DEF TokenState
  <1>2. Append(s.cur, c) \in Text /\ Append(s.out, s.cur) \in Seq(Text) /\ <<>> \in Text
    BY <1>1 DEF Text
  <1>3. pushed \in TokenState
    BY <1>2 DEF TokenState
  <1>4. [s EXCEPT !.in_quote = ~@, !.have = TRUE] \in TokenState
    BY DEF TokenState
  <1>5. [s EXCEPT !.escaped = TRUE] \in TokenState
    BY DEF TokenState
  <1>6. [s EXCEPT !.out = Append(@, s.cur), !.cur = <<>>, !.have = FALSE] \in TokenState
    BY <1>2 DEF TokenState
  <1> QED
    BY <1>3, <1>4, <1>5, <1>6 DEF token_step

(* The state of a scan after each atom of a text.                          *)
LEMMA ScanFold ==
    ASSUME NEW start \in TokenState, NEW text \in Text
    PROVE  \E f \in [0 .. Len(text) -> TokenState] :
              /\ f[0] = start
              /\ \A k \in 1 .. Len(text) : f[k] = token_step(f[k - 1], text[k])
              /\ Scan(start, text) = f[Len(text)]
  <1> DEFINE n == Len(text)
             States(h) == h = [k \in 0 .. Len(text) |->
                                  IF k = 0 THEN start ELSE token_step(h[k - 1], text[k])]
             F == [k \in 1 .. n |-> [s \in TokenState |-> token_step(s, text[k])]]
  <1>1. n \in Nat /\ \A k \in 1 .. n : text[k] \in Atom
    BY DEF Text
  <1>2. F \in [1 .. n -> [TokenState -> TokenState]]
    BY <1>1, TokenType, SMT
  <1> HIDE DEF n
  <1>3. Computes(n, TokenState, F, start)
    BY <1>1, <1>2, RecursionAt
  <1>4. PICK f \in [0 .. n -> TokenState] : f[0] = start /\ \A k \in 1 .. n : f[k] = F[k][f[k - 1]]
    BY <1>3 DEF Computes
  <1>5. \A k \in 1 .. n : f[k] = token_step(f[k - 1], text[k])
    <2> TAKE k \in 1 .. n
    <2>1. k - 1 \in 0 .. n
      BY <1>1
    <2> QED
      BY <1>4, <2>1
  <1>6. States(f)
    BY <1>1, <1>4, <1>5 DEF n
  <1> DEFINE h == CHOOSE g : States(g)
  <1>7. States(h)
    BY <1>6, Zenon
  <1>8. Scan(start, text) = h[n]
    BY Zenon DEF Scan, n
  <1> HIDE DEF h
  <1> DEFINE P == {k \in 0 .. n : h[k] = f[k]}
  <1>9. 0 \in P
    BY <1>1, <1>4, <1>7 DEF n
  <1>10. \A k \in 0 .. n - 1 : k \in P => k + 1 \in P
    BY <1>1, <1>5, <1>7 DEF n
  <1> HIDE DEF P
  <1>11. \A k \in 0 .. n : k \in P
    BY <1>1, <1>9, <1>10, Induction
  <1>12. Scan(start, text) = f[n]
    BY <1>1, <1>8, <1>11 DEF P
  <1> QED
    BY <1>4, <1>5, <1>12 DEF n

(* A scan ends in a state of its type.                                     *)
LEMMA ScanType ==
    ASSUME NEW s \in TokenState, NEW t \in Text PROVE Scan(s, t) \in TokenState
  <1>1. Len(t) \in 0 .. Len(t)
    BY DEF Text
  <1> QED
    BY <1>1, ScanFold

(* A text is scanned part by part.                                         *)
LEMMA ScanConcat ==
    ASSUME NEW s \in TokenState, NEW t \in Text, NEW u \in Text
    PROVE  Scan(s, t \o u) = Scan(Scan(s, t), u)
  <1> DEFINE n == Len(t)  m == Len(u)  w == t \o u
  <1>1. /\ n \in Nat /\ m \in Nat /\ w \in Text /\ Len(w) = n + m
        /\ \A k \in 1 .. n : w[k] = t[k]
        /\ \A k \in 1 .. m : w[n + k] = u[k]
    BY DEF Text
  <1> HIDE DEF n, m, w
  <1>2. PICK f \in [0 .. n -> TokenState] :
            /\ f[0] = s /\ \A k \in 1 .. n : f[k] = token_step(f[k - 1], t[k])
            /\ Scan(s, t) = f[n]
    BY ScanFold DEF n
  <1>3. f[n] \in TokenState
    BY <1>1, <1>2
  <1>4. PICK g \in [0 .. m -> TokenState] :
            /\ g[0] = f[n] /\ \A k \in 1 .. m : g[k] = token_step(g[k - 1], u[k])
            /\ Scan(f[n], u) = g[m]
    BY <1>3, ScanFold DEF m
  <1>5. PICK h \in [0 .. n + m -> TokenState] :
            /\ h[0] = s /\ \A k \in 1 .. n + m : h[k] = token_step(h[k - 1], w[k])
            /\ Scan(s, w) = h[n + m]
    BY <1>1, ScanFold
  <1>6. h[n] = f[n]
    <2> DEFINE P == {k \in 0 .. n : h[k] = f[k]}
    <2>1. 0 \in P
      BY <1>1, <1>2, <1>5
    <2>2. \A k \in 0 .. n - 1 : k \in P => k + 1 \in P
      BY <1>1, <1>2, <1>5
    <2> HIDE DEF P
    <2>3. \A k \in 0 .. n : k \in P
      BY <1>1, <2>1, <2>2, Induction
    <2> QED
      BY <1>1, <2>3 DEF P
  <1>7. h[n + m] = g[m]
    <2> DEFINE P == {k \in 0 .. m : h[n + k] = g[k]}
    <2>1. 0 \in P
      BY <1>1, <1>4, <1>6
    <2>2. ASSUME NEW k \in 0 .. m - 1, k \in P PROVE k + 1 \in P
      <3>1. k + 1 \in 1 .. m /\ n + (k + 1) \in 1 .. n + m /\ (n + (k + 1)) - 1 = n + k
            /\ (k + 1) - 1 = k
        BY <1>1
      <3> QED
        BY <1>1, <1>4, <1>5, <2>2, <3>1
    <2> HIDE DEF P
    <2>3. \A k \in 0 .. m : k \in P
      BY <1>1, <2>1, <2>2, Induction
    <2> QED
      BY <1>1, <2>3 DEF P
  <1> QED
    BY <1>2, <1>4, <1>5, <1>7 DEF w

(* A text of one atom is scanned in one step.                              *)
LEMMA ScanOne ==
    ASSUME NEW s \in TokenState, NEW c \in Atom
    PROVE  Scan(s, <<c>>) = token_step(s, c)
  <1>1. <<c>> \in Text /\ Len(<<c>>) = 1 /\ <<c>>[1] = c
    BY DEF Text
  <1>2. PICK f \in [0 .. 1 -> TokenState] :
            /\ f[0] = s /\ \A k \in 1 .. 1 : f[k] = token_step(f[k - 1], <<c>>[k])
            /\ Scan(s, <<c>>) = f[1]
    BY <1>1, ScanFold
  <1> QED
    BY <1>1, <1>2

(* States between two tokens, inside a word, and inside quotes.            *)
Between(s, o) == /\ s \in TokenState /\ s.out = o /\ s.cur = <<>>
                 /\ ~s.in_quote /\ ~s.have /\ ~s.escaped
InWord(s, o, u) == /\ s \in TokenState /\ s.out = o /\ s.cur = u
                   /\ ~s.in_quote /\ s.have /\ ~s.escaped
InQuotes(s, o, u) == /\ s \in TokenState /\ s.out = o /\ s.cur = u
                     /\ s.in_quote /\ s.have /\ ~s.escaped

(* What one atom does between words, in a word and in quotes.              *)
LEMMA WordSteps ==
    ASSUME NEW s \in TokenState, NEW o, NEW u, NEW c \in Atom
    PROVE  /\ Between(s, o) /\ c \notin {Quote, Space} => InWord(token_step(s, c), o, <<c>>)
           /\ Between(s, o) /\ c = Quote => InQuotes(token_step(s, c), o, <<>>)
           /\ InWord(s, o, u) /\ c \notin {Quote, Space} => InWord(token_step(s, c), o, Append(u, c))
           /\ InWord(s, o, u) /\ c = Space => Between(token_step(s, c), Append(o, u))
           /\ InQuotes(s, o, u) /\ c \notin Special => InQuotes(token_step(s, c), o, Append(u, c))
           /\ InQuotes(s, o, u) /\ c = Quote => InWord(token_step(s, c), o, u)
           /\ \A x \in Atom : InQuotes(s, o, u) /\ c = Backslash
                                => InQuotes(token_step(token_step(s, c), x), o, Append(u, x))
  <1>1. token_step(s, c) \in TokenState /\ \A x \in Atom : token_step(token_step(s, c), x) \in TokenState
    BY TokenType
  <1>2. DOMAIN s = {"out", "cur", "in_quote", "have", "escaped"}
    BY DEF TokenState
  <1>3. Quote # Space /\ Quote # Backslash /\ Space # Backslash
    BY DEF Quote, Space, Backslash
  <1>4. s.cur \in Text /\ Append(<<>>, c) = <<c>>
    BY DEF TokenState
  <1>5. Between(s, o) /\ c \notin {Quote, Space} => InWord(token_step(s, c), o, <<c>>)
    BY <1>1, <1>2, <1>3, <1>4 DEF Between, InWord, token_step
  <1>6. Between(s, o) /\ c = Quote => InQuotes(token_step(s, c), o, <<>>)
    BY <1>1, <1>2, <1>3 DEF Between, InQuotes, token_step
  <1>7. InWord(s, o, u) /\ c \notin {Quote, Space} => InWord(token_step(s, c), o, Append(u, c))
    BY <1>1, <1>2, <1>3 DEF InWord, token_step
  <1>8. InWord(s, o, u) /\ c = Space => Between(token_step(s, c), Append(o, u))
    BY <1>1, <1>2, <1>3 DEF Between, InWord, token_step
  <1>9. InQuotes(s, o, u) /\ c \notin Special => InQuotes(token_step(s, c), o, Append(u, c))
    BY <1>1, <1>2, <1>3 DEF InQuotes, token_step, Special
  <1>10. InQuotes(s, o, u) /\ c = Quote => InWord(token_step(s, c), o, u)
    BY <1>1, <1>2, <1>3 DEF InQuotes, InWord, token_step
  <1>11. ASSUME NEW x \in Atom, InQuotes(s, o, u), c = Backslash
         PROVE  InQuotes(token_step(token_step(s, c), x), o, Append(u, x))
    <2>1. token_step(s, c) = [s EXCEPT !.escaped = TRUE]
      BY <1>3, <1>11 DEF InQuotes, token_step
    <2> DEFINE r == token_step(s, c)
    <2>2. r \in TokenState /\ r.out = o /\ r.cur = u /\ r.in_quote /\ r.have /\ r.escaped
      BY <1>1, <1>2, <1>11, <2>1 DEF InQuotes
    <2>3. token_step(r, x) = [r EXCEPT !.cur = Append(@, x), !.have = TRUE, !.escaped = FALSE]
      BY <2>2 DEF token_step
    <2>4. DOMAIN r = {"out", "cur", "in_quote", "have", "escaped"}
      BY <2>2 DEF TokenState
    <2> QED
      BY <1>1, <2>2, <2>3, <2>4 DEF InQuotes
  <1> QED
    BY <1>5, <1>6, <1>7, <1>8, <1>9, <1>10, <1>11

(* The elements of a sequence that one was appended to.                    *)
LEMMA AppendIs ==
    ASSUME NEW S, NEW u \in Seq(S), NEW c \in S
    PROVE  /\ Append(u, c) \in Seq(S) /\ Len(Append(u, c)) = Len(u) + 1
           /\ Append(u, c)[Len(u) + 1] = c
           /\ \A i \in 1 .. Len(u) : Append(u, c)[i] = u[i]
  OBVIOUS

(* The elements of two sequences, one after the other.                     *)
LEMMA ConcatIs ==
    ASSUME NEW S, NEW t \in Seq(S), NEW u \in Seq(S)
    PROVE  /\ t \o u \in Seq(S) /\ Len(t \o u) = Len(t) + Len(u)
           /\ \A i \in 1 .. Len(t) : (t \o u)[i] = t[i]
           /\ \A i \in 1 .. Len(u) : (t \o u)[Len(t) + i] = u[i]
  OBVIOUS

(* The elements of a sequence that one was put before.                     *)
LEMMA ConsIs ==
    ASSUME NEW S, NEW c \in S, NEW u \in Seq(S)
    PROVE  /\ <<c>> \o u \in Seq(S) /\ Len(<<c>> \o u) = Len(u) + 1
           /\ (<<c>> \o u)[1] = c
           /\ \A i \in 1 .. Len(u) : (<<c>> \o u)[i + 1] = u[i]
  <1> DEFINE h == <<c>>
  <1>1. h \in Seq(S) /\ Len(h) = 1 /\ h[1] = c
    OBVIOUS
  <1> HIDE DEF h
  <1>2. /\ h \o u \in Seq(S) /\ Len(h \o u) = Len(h) + Len(u)
        /\ \A i \in 1 .. Len(h) : (h \o u)[i] = h[i]
        /\ \A i \in 1 .. Len(u) : (h \o u)[Len(h) + i] = u[i]
    BY <1>1, ConcatIs
  <1>3. \A i \in 1 .. Len(u) : Len(h) + i = i + 1
    BY <1>1
  <1> QED
    BY <1>1, <1>2, <1>3 DEF h

(* Two sequences of one element make one of two.                           *)
LEMMA Pair ==
    ASSUME NEW S, NEW a \in S, NEW b \in S PROVE <<a>> \o <<b>> = <<a, b>>
  <1> DEFINE w == <<a>> \o <<b>>  v == <<a, b>>
  <1>1. w \in Seq(S) /\ Len(w) = 2 /\ w[1] = a /\ w[2] = b
    OBVIOUS
  <1>2. v \in Seq(S) /\ Len(v) = 2 /\ v[1] = a /\ v[2] = b
    OBVIOUS
  <1> HIDE DEF w, v
  <1>3. \A i \in 1 .. Len(w) : w[i] = v[i]
    BY <1>1, <1>2
  <1>4. w = v
    BY <1>1, <1>2, <1>3
  <1> QED
    BY <1>4 DEF w, v

(* A plain word and the space after it are one token.                      *)
LEMMA ScanWord ==
    ASSUME NEW s \in TokenState, NEW o, Between(s, o), NEW c \in Atom, c \notin {Quote, Space}
    PROVE  Between(Scan(s, <<c, Space>>), Append(o, <<c>>))
  <1>1. <<c, Space>> = <<c>> \o <<Space>> /\ Space \in Atom /\ <<c>> \in Text /\ <<Space>> \in Text
    BY DEF Atom, Text
  <1>2. Scan(s, <<c>>) = token_step(s, c) /\ Scan(s, <<c>>) \in TokenState
    BY <1>1, ScanOne, ScanType
  <1>3. InWord(Scan(s, <<c>>), o, <<c>>)
    BY <1>2, WordSteps
  <1>4. Scan(s, <<c>> \o <<Space>>) = Scan(Scan(s, <<c>>), <<Space>>)
    BY <1>1, ScanConcat
  <1>5. Scan(Scan(s, <<c>>), <<Space>>) = token_step(Scan(s, <<c>>), Space)
    BY <1>1, <1>2, ScanOne
  <1> QED
    BY <1>1, <1>2, <1>3, <1>4, <1>5, WordSteps

(* An atom that is no quote and no space goes to the word it follows.      *)
LEMMA ScanPlain ==
    ASSUME NEW s \in TokenState, NEW o, NEW u, InWord(s, o, u), NEW c \in Atom, c \notin {Quote, Space}
    PROVE  InWord(Scan(s, <<c>>), o, Append(u, c))
  BY ScanOne, WordSteps

(* One more atom is one more step.                                         *)
LEMMA ScanAppend ==
    ASSUME NEW s \in TokenState, NEW t \in Text, NEW c \in Atom
    PROVE  Append(t, c) \in Text /\ Scan(s, Append(t, c)) = token_step(Scan(s, t), c)
  <1>1. Append(t, c) = t \o <<c>> /\ <<c>> \in Text /\ Append(t, c) \in Text
    BY DEF Text
  <1>2. Scan(s, t \o <<c>>) = Scan(Scan(s, t), <<c>>)
    BY <1>1, ScanConcat
  <1>3. Scan(s, t) \in TokenState
    BY ScanType
  <1> QED
    BY <1>1, <1>2, <1>3, ScanOne

(* Escaping one atom gives a text.                                         *)
LEMMA EscapeType ==
    ASSUME NEW e \in Text, NEW c \in Atom PROVE escape(e, c) \in Text
  <1>1. Backslash \in Atom
    BY DEF Atom
  <1> QED
    BY <1>1, ScanAppend DEF escape, Text

(* Inside quotes, a text that was escaped is read as it was, whatever it   *)
(* holds: its quotes, backslashes and spaces are characters.               *)
LEMMA ScanEscaped ==
    ASSUME NEW s \in TokenState, NEW o, InQuotes(s, o, <<>>), NEW text \in Text
    PROVE  Escaped(text) \in Text /\ InQuotes(Scan(s, Escaped(text)), o, text)
  <1> DEFINE n == Len(text)
             States(h) == h = [k \in 0 .. Len(text) |->
                                  IF k = 0 THEN <<>> ELSE escape(h[k - 1], text[k])]
             F == [k \in 1 .. n |-> [e \in Text |-> escape(e, text[k])]]
  <1>1. n \in Nat /\ (\A k \in 1 .. n : text[k] \in Atom) /\ Backslash \in Atom /\ <<>> \in Text
    BY DEF Text, Atom
  <1>2. F \in [1 .. n -> [Text -> Text]]
    BY <1>1, EscapeType, SMT
  <1> HIDE DEF n
  <1>3. Computes(n, Text, F, <<>>)
    BY <1>1, <1>2, RecursionAt
  <1>4. PICK f \in [0 .. n -> Text] : f[0] = <<>> /\ \A k \in 1 .. n : f[k] = F[k][f[k - 1]]
    BY <1>3 DEF Computes
  <1>5. \A k \in 1 .. n : f[k] = escape(f[k - 1], text[k])
    <2> TAKE k \in 1 .. n
    <2>1. k - 1 \in 0 .. n
      BY <1>1
    <2> QED
      BY <1>4, <2>1
  <1>6. States(f)
    BY <1>1, <1>4, <1>5 DEF n
  <1> DEFINE h == CHOOSE g : States(g)
  <1>7. States(h)
    BY <1>6, Zenon
  <1>8. Escaped(text) = h[n]
    BY Zenon DEF Escaped, n
  <1> HIDE DEF h
  <1> DEFINE P == {k \in 0 .. n : h[k] \in Text /\ InQuotes(Scan(s, h[k]), o, SubSeq(text, 1, k))}
  <1>9. 0 \in P
    <2>1. h[0] = <<>> /\ 0 \in 0 .. n
      BY <1>1, <1>7 DEF n
    <2>2. SubSeq(text, 1, 0) = <<>>
      BY DEF Text
    <2>3. Scan(s, <<>>) = s
      BY <1>1, ScanFold
    <2> QED
      BY <1>1, <2>1, <2>2, <2>3
  <1>10. ASSUME NEW k \in 0 .. n - 1, k \in P PROVE k + 1 \in P
    <2> DEFINE c == text[k + 1]  e == h[k]
    <2>1. c \in Atom /\ k + 1 \in 1 .. n /\ k + 1 \in 0 .. n /\ k \in Nat
      BY <1>1
    <2>2. SubSeq(text, 1, k + 1) = Append(SubSeq(text, 1, k), c)
      BY <1>1, <2>1 DEF n, Text
    <2>3. e \in Text /\ InQuotes(Scan(s, e), o, SubSeq(text, 1, k)) /\ Scan(s, e) \in TokenState
      BY <1>10, ScanType
    <2>4. h[k + 1] = escape(e, c)
      BY <1>1, <1>7, <2>1 DEF n
    <2> HIDE DEF c, e
    <2>5. CASE c \notin Special
      <3>1. Scan(s, Append(e, c)) = token_step(Scan(s, e), c) /\ Append(e, c) \in Text
        BY <2>1, <2>3, ScanAppend
      <3>2. InQuotes(token_step(Scan(s, e), c), o, Append(SubSeq(text, 1, k), c))
        BY <2>1, <2>3, <2>5, WordSteps
      <3> QED
        BY <2>1, <2>2, <2>4, <2>5, <3>1, <3>2 DEF escape
    <2>6. CASE c \in Special
      <3> DEFINE b == Append(e, Backslash)
      <3>1. Scan(s, b) = token_step(Scan(s, e), Backslash) /\ b \in Text
        BY <1>1, <2>3, ScanAppend
      <3>2. Scan(s, Append(b, c)) = token_step(Scan(s, b), c) /\ Append(b, c) \in Text
        BY <2>1, <3>1, ScanAppend
      <3>3. InQuotes(token_step(token_step(Scan(s, e), Backslash), c), o, Append(SubSeq(text, 1, k), c))
        BY <1>1, <2>1, <2>3, WordSteps
      <3> QED
        BY <2>1, <2>2, <2>4, <2>6, <3>1, <3>2, <3>3 DEF escape
    <2> QED
      BY <2>5, <2>6
  <1> HIDE DEF P
  <1>11. \A k \in 0 .. n : k \in P
    BY <1>1, <1>9, <1>10, Induction
  <1>12. n \in P
    BY <1>1, <1>11
  <1>13. SubSeq(text, 1, n) = text
    BY DEF n, Text
  <1> QED
    BY <1>8, <1>12, <1>13 DEF P

(* A text that was put in quotes, or one plain word, is one token.         *)
LEMMA ScanShown ==
    ASSUME NEW s \in TokenState, NEW o, Between(s, o), NEW text \in Text, NEW quoted \in BOOLEAN
    PROVE  /\ Shown(text, quoted) \in Text
           /\ Between(Scan(s, Shown(text, quoted) \o <<Space>>), Append(o, text))
  <1>1. /\ Space \in Atom /\ Quote \in Atom /\ <<Space>> \in Text /\ <<Quote>> \in Text
    BY DEF Atom, Text
  <1>2. CASE Len(text) = 1 /\ text[1] \notin Special \cup {Space} /\ ~quoted
    <2>1. text[1] \in Atom /\ text = <<text[1]>> /\ text[1] \notin {Quote, Space}
      BY <1>2 DEF Text, Special
    <2>2. Shown(text, quoted) = text
      BY <1>2, Zenon DEF Shown
    <2>3. <<text[1]>> \o <<Space>> = <<text[1], Space>>
      BY <1>1, <2>1, Pair
    <2> QED
      BY <2>1, <2>2, <2>3, ScanWord
  <1>3. CASE ~(Len(text) = 1 /\ text[1] \notin Special \cup {Space} /\ ~quoted)
    <2> DEFINE e == Escaped(text)
               s1 == Scan(s, <<Quote>>)  s2 == Scan(s1, e)  s3 == Scan(s2, <<Quote>>)
    <2>1. Shown(text, quoted) = (<<Quote>> \o e) \o <<Quote>>
      BY <1>3 DEF Shown
    <2>2. s1 \in TokenState /\ InQuotes(s1, o, <<>>)
      BY <1>1, ScanType, ScanOne, WordSteps
    <2> HIDE DEF s1
    <2>3. e \in Text /\ InQuotes(s2, o, text) /\ s2 \in TokenState
      BY <2>2, ScanEscaped, ScanType
    <2> HIDE DEF e, s2
    <2>4. s3 \in TokenState /\ InWord(s3, o, text)
      BY <1>1, <2>3, ScanType, ScanOne, WordSteps
    <2>5. Between(Scan(s3, <<Space>>), Append(o, text))
      BY <1>1, <2>4, ScanOne, WordSteps
    <2>6. <<Quote>> \o e \in Text /\ (<<Quote>> \o e) \o <<Quote>> \in Text
      BY <1>1, <2>3 DEF Text
    <2>7. Scan(s, <<Quote>> \o e) = s2
      BY <1>1, <2>3, ScanConcat DEF s1, s2
    <2>8. Scan(s, (<<Quote>> \o e) \o <<Quote>>) = s3
      BY <1>1, <2>6, <2>7, ScanConcat
    <2> HIDE DEF s3
    <2>9. Scan(s, ((<<Quote>> \o e) \o <<Quote>>) \o <<Space>>) = Scan(s3, <<Space>>)
      BY <1>1, <2>6, <2>8, ScanConcat
    <2> QED
      BY <2>1, <2>5, <2>6, <2>9
  <1> QED
    BY <1>2, <1>3

(* A destination is two tokens, the option and the address.                *)
LEMMA ScanDestination ==
    ASSUME NEW s \in TokenState, NEW o, Between(s, o), NEW d \in Destinations
    PROVE  Between(Scan(s, <<"-d", Space, d, Slash, "32", Space>>),
                   Append(Append(o, <<"-d">>), Append(Append(<<d>>, Slash), "32")))
  <1> DEFINE text == <<"-d", Space, d, Slash, "32", Space>>
  <1>1. /\ text \in Text /\ Len(text) = 6
        /\ text[1] = "-d" /\ text[2] = Space /\ text[3] = d
        /\ text[4] = Slash /\ text[5] = "32" /\ text[6] = Space
    BY DEF Text, Atom
  <1>2. /\ {"-d", Space, d, Slash, "32"} \subseteq Atom
        /\ {"-d", d, Slash, "32"} \cap {Quote, Space} = {}
    BY NamesAssumption DEF Atom, Slash, Quote, Space
  <1> HIDE DEF text
  <1>3. PICK f \in [0 .. Len(text) -> TokenState] :
            /\ f[0] = s
            /\ \A k \in 1 .. Len(text) : f[k] = token_step(f[k - 1], text[k])
            /\ Scan(s, text) = f[Len(text)]
    BY <1>1, ScanFold
  <1>4. /\ f[1] = token_step(s, "-d") /\ f[2] = token_step(f[1], Space)
        /\ f[3] = token_step(f[2], d) /\ f[4] = token_step(f[3], Slash)
        /\ f[5] = token_step(f[4], "32") /\ f[6] = token_step(f[5], Space)
    BY <1>1, <1>3
  <1>5. {f[1], f[2], f[3], f[4], f[5]} \subseteq TokenState
    BY <1>1, <1>3
  <1>6. InWord(f[1], o, <<"-d">>)
    BY <1>2, <1>4, WordSteps
  <1>7. Between(f[2], Append(o, <<"-d">>))
    BY <1>2, <1>4, <1>5, <1>6, WordSteps
  <1>8. InWord(f[3], Append(o, <<"-d">>), <<d>>)
    BY <1>2, <1>4, <1>5, <1>7, WordSteps
  <1>9. InWord(f[4], Append(o, <<"-d">>), Append(<<d>>, Slash))
    BY <1>2, <1>4, <1>5, <1>8, WordSteps
  <1>10. InWord(f[5], Append(o, <<"-d">>), Append(Append(<<d>>, Slash), "32"))
    BY <1>2, <1>4, <1>5, <1>9, WordSteps
  <1>11. Between(f[6], Append(Append(o, <<"-d">>), Append(Append(<<d>>, Slash), "32")))
    BY <1>2, <1>4, <1>5, <1>10, WordSteps
  <1> QED
    BY <1>1, <1>3, <1>11 DEF text

(* The end of a line: a token, and a word that nothing follows.            *)
LEMMA ScanTarget ==
    ASSUME NEW s \in TokenState, NEW o, Between(s, o)
    PROVE  InWord(Scan(s, <<"-j", Space, "target">>), Append(o, <<"-j">>), <<"target">>)
  <1> DEFINE text == <<"-j", Space, "target">>
  <1>1. /\ text \in Text /\ Len(text) = 3
        /\ text[1] = "-j" /\ text[2] = Space /\ text[3] = "target"
    BY DEF Text, Atom
  <1>2. {"-j", Space, "target"} \subseteq Atom /\ {"-j", "target"} \cap {Quote, Space} = {}
    BY DEF Atom, Quote, Space
  <1> HIDE DEF text
  <1>3. PICK f \in [0 .. Len(text) -> TokenState] :
            /\ f[0] = s
            /\ \A k \in 1 .. Len(text) : f[k] = token_step(f[k - 1], text[k])
            /\ Scan(s, text) = f[Len(text)]
    BY <1>1, ScanFold
  <1>4. f[1] = token_step(s, "-j") /\ f[2] = token_step(f[1], Space) /\ f[3] = token_step(f[2], "target")
    BY <1>1, <1>3
  <1>5. {f[1], f[2]} \subseteq TokenState
    BY <1>1, <1>3
  <1>6. InWord(f[1], o, <<"-j">>)
    BY <1>2, <1>4, WordSteps
  <1>7. Between(f[2], Append(o, <<"-j">>))
    BY <1>2, <1>4, <1>5, <1>6, WordSteps
  <1>8. InWord(f[3], Append(o, <<"-j">>), <<"target">>)
    BY <1>2, <1>4, <1>5, <1>7, WordSteps
  <1> QED
    BY <1>1, <1>3, <1>8 DEF text

-----------------------------------------------------------------------------
(* Parsing.                                                                *)

ParseState == [option : {"none", "-d", "--comment"}, ip : Destinations \cup {NoDestination},
               names : SUBSET Text]

(* The words of a text are texts.                                          *)
LEMMA WordsType ==
    ASSUME NEW t \in Text PROVE Words(t) \subseteq Text
  <1> SUFFICES ASSUME NEW i \in DOMAIN t, NEW j \in DOMAIN t PROVE SubSeq(t, i, j) \in Text
    BY DEF Words
  <1> QED
    BY DEF Text

(* The state of the loop over the tokens keeps its type.                   *)
LEMMA ParseStepType ==
    ASSUME NEW s \in ParseState, NEW t \in Text PROVE parse_step(s, t) \in ParseState
  <1>1. Destination(t) \in Destinations \cup {NoDestination}
    BY DEF Destination
  <1>2. Words(t) \subseteq Text
    BY WordsType
  <1>3. [s EXCEPT !.option = "none", !.ip = Destination(t)] \in ParseState
    BY <1>1 DEF ParseState
  <1>4. [s EXCEPT !.option = "none", !.names = @ \cup Words(t)] \in ParseState
    BY <1>2 DEF ParseState
  <1>5. t \in {<<"-d">>, <<"--comment">>} => [s EXCEPT !.option = t[1]] \in ParseState
    BY DEF ParseState
  <1> QED
    BY <1>3, <1>4, <1>5 DEF parse_step

(* Its state after each token.                                             *)
LEMMA ParseFold ==
    ASSUME NEW toks \in Seq(Text)
    PROVE  \E f \in [0 .. Len(toks) -> ParseState] :
              /\ f[0] = ParseStart
              /\ \A k \in 1 .. Len(toks) : f[k] = parse_step(f[k - 1], toks[k])
              /\ Parse(toks) = f[Len(toks)]
  <1> DEFINE n == Len(toks)
             States(h) == h = [k \in 0 .. Len(toks) |->
                                  IF k = 0 THEN ParseStart ELSE parse_step(h[k - 1], toks[k])]
             F == [k \in 1 .. n |-> [s \in ParseState |-> parse_step(s, toks[k])]]
  <1>1. n \in Nat /\ \A k \in 1 .. n : toks[k] \in Text
    OBVIOUS
  <1>2. F \in [1 .. n -> [ParseState -> ParseState]]
    BY <1>1, ParseStepType, SMT
  <1>. ParseStart \in ParseState
    BY DEF ParseStart, ParseState
  <1> HIDE DEF n
  <1>3. Computes(n, ParseState, F, ParseStart)
    BY <1>1, <1>2, RecursionAt
  <1>4. PICK f \in [0 .. n -> ParseState] : f[0] = ParseStart /\ \A k \in 1 .. n : f[k] = F[k][f[k - 1]]
    BY <1>3 DEF Computes
  <1>5. \A k \in 1 .. n : f[k] = parse_step(f[k - 1], toks[k])
    <2> TAKE k \in 1 .. n
    <2>1. k - 1 \in 0 .. n
      BY <1>1
    <2> QED
      BY <1>4, <2>1
  <1>6. States(f)
    BY <1>1, <1>4, <1>5 DEF n
  <1> DEFINE h == CHOOSE g : States(g)
  <1>7. States(h)
    BY <1>6, Zenon
  <1>8. Parse(toks) = h[n]
    BY Zenon DEF Parse, n
  <1> HIDE DEF h
  <1> DEFINE P == {k \in 0 .. n : h[k] = f[k]}
  <1>9. 0 \in P
    BY <1>1, <1>4, <1>7 DEF n
  <1>10. \A k \in 0 .. n - 1 : k \in P => k + 1 \in P
    BY <1>1, <1>5, <1>7 DEF n
  <1> HIDE DEF P
  <1>11. \A k \in 0 .. n : k \in P
    BY <1>1, <1>9, <1>10, Induction
  <1>12. Parse(toks) = f[n]
    BY <1>1, <1>8, <1>11 DEF P
  <1> QED
    BY <1>4, <1>5, <1>12 DEF n

(* One more token is one more step.                                        *)
LEMMA ParseAppend ==
    ASSUME NEW toks \in Seq(Text), NEW t \in Text
    PROVE  /\ Append(toks, t) \in Seq(Text) /\ Parse(toks) \in ParseState
           /\ Parse(Append(toks, t)) = parse_step(Parse(toks), t)
  <1> DEFINE n == Len(toks)  w == Append(toks, t)
  <1>1. /\ n \in Nat /\ w \in Seq(Text) /\ Len(w) = n + 1 /\ w[n + 1] = t
        /\ \A k \in 1 .. n : w[k] = toks[k]
    OBVIOUS
  <1> HIDE DEF n, w
  <1>2. PICK f \in [0 .. n -> ParseState] :
            /\ f[0] = ParseStart /\ \A k \in 1 .. n : f[k] = parse_step(f[k - 1], toks[k])
            /\ Parse(toks) = f[n]
    BY ParseFold DEF n
  <1>3. PICK h \in [0 .. n + 1 -> ParseState] :
            /\ h[0] = ParseStart /\ \A k \in 1 .. n + 1 : h[k] = parse_step(h[k - 1], w[k])
            /\ Parse(w) = h[n + 1]
    BY <1>1, ParseFold
  <1> DEFINE P == {k \in 0 .. n : h[k] = f[k]}
  <1>4. 0 \in P
    BY <1>1, <1>2, <1>3
  <1>5. \A k \in 0 .. n - 1 : k \in P => k + 1 \in P
    BY <1>1, <1>2, <1>3
  <1> HIDE DEF P
  <1>6. \A k \in 0 .. n : k \in P
    BY <1>1, <1>4, <1>5, Induction
  <1>7. h[n] = f[n] /\ f[n] \in ParseState
    BY <1>1, <1>2, <1>6 DEF P
  <1>8. h[n + 1] = parse_step(h[n], t)
    BY <1>1, <1>3
  <1> QED
    BY <1>1, <1>2, <1>3, <1>7, <1>8 DEF w

(* The tokens o stand for this much of a rule, and an option is complete.  *)
Means(o, ip, names) ==
    o \in Seq(Text) /\ Parse(o).option = "none" /\ Parse(o).ip = ip /\ Parse(o).names = names

(* No tokens mean nothing.                                                 *)
LEMMA MeansStart == Means(<<>>, NoDestination, {})
  <1>1. <<>> \in Seq(Text) /\ Len(<<>>) = 0
    OBVIOUS
  <1>2. Parse(<<>>) = ParseStart
    BY <1>1, ParseFold
  <1> QED
    BY <1>1, <1>2 DEF Means, ParseStart

(* An option takes the token after it; any other token means nothing.      *)
LEMMA MeansOption ==
    ASSUME NEW o, NEW ip, NEW names, Means(o, ip, names), NEW t \in Text
    PROVE  /\ Means(Append(Append(o, <<"--comment">>), t), ip, names \cup Words(t))
           /\ Means(Append(Append(o, <<"-d">>), t), Destination(t), names)
           /\ t \notin {<<"-d">>, <<"--comment">>} => Means(Append(o, t), ip, names)
  <1>1. o \in Seq(Text) /\ <<"--comment">> \in Text /\ <<"-d">> \in Text
    BY DEF Means, Text, Atom
  <1>2. Parse(o) \in ParseState /\ DOMAIN Parse(o) = {"option", "ip", "names"}
    BY <1>1, ParseAppend DEF ParseState
  <1>3. ASSUME NEW w \in {"-d", "--comment"}
        PROVE  /\ Append(o, <<w>>) \in Seq(Text)
               /\ Parse(Append(o, <<w>>)) = [Parse(o) EXCEPT !.option = w]
    <2>1. Append(o, <<w>>) \in Seq(Text) /\ Parse(Append(o, <<w>>)) = parse_step(Parse(o), <<w>>)
      BY <1>1, ParseAppend
    <2>2. parse_step(Parse(o), <<w>>) = [Parse(o) EXCEPT !.option = <<w>>[1]]
      BY DEF Means, parse_step
    <2> QED
      BY <2>1, <2>2
  <1>4. Means(Append(Append(o, <<"--comment">>), t), ip, names \cup Words(t))
    <2> DEFINE p == Append(o, <<"--comment">>)
    <2>1. p \in Seq(Text) /\ Parse(p) = [Parse(o) EXCEPT !.option = "--comment"]
      BY <1>3
    <2>2. /\ Parse(p).option = "--comment" /\ Parse(p).ip = ip /\ Parse(p).names = names
          /\ DOMAIN Parse(p) = {"option", "ip", "names"}
      BY <1>2, <2>1 DEF Means
    <2> HIDE DEF p
    <2>3. Append(p, t) \in Seq(Text) /\ Parse(Append(p, t)) = parse_step(Parse(p), t)
      BY <2>1, ParseAppend
    <2>4. parse_step(Parse(p), t) = [Parse(p) EXCEPT !.option = "none", !.names = @ \cup Words(t)]
      BY <2>2 DEF parse_step
    <2> QED
      BY <2>2, <2>3, <2>4 DEF Means, p
  <1>5. Means(Append(Append(o, <<"-d">>), t), Destination(t), names)
    <2> DEFINE p == Append(o, <<"-d">>)
    <2>1. p \in Seq(Text) /\ Parse(p) = [Parse(o) EXCEPT !.option = "-d"]
      BY <1>3
    <2>2. /\ Parse(p).option = "-d" /\ Parse(p).names = names
          /\ DOMAIN Parse(p) = {"option", "ip", "names"}
      BY <1>2, <2>1 DEF Means
    <2> HIDE DEF p
    <2>3. Append(p, t) \in Seq(Text) /\ Parse(Append(p, t)) = parse_step(Parse(p), t)
      BY <2>1, ParseAppend
    <2>4. parse_step(Parse(p), t) = [Parse(p) EXCEPT !.option = "none", !.ip = Destination(t)]
      BY <2>2 DEF parse_step
    <2> QED
      BY <2>2, <2>3, <2>4 DEF Means, p
  <1>6. ASSUME t \notin {<<"-d">>, <<"--comment">>} PROVE Means(Append(o, t), ip, names)
    <2>1. Append(o, t) \in Seq(Text) /\ Parse(Append(o, t)) = parse_step(Parse(o), t)
      BY <1>1, ParseAppend
    <2>2. parse_step(Parse(o), t) = Parse(o)
      BY <1>6 DEF parse_step, Means
    <2> QED
      BY <2>1, <2>2 DEF Means
  <1> QED
    BY <1>4, <1>5, <1>6

-----------------------------------------------------------------------------
(* A rule on its way through text.                                         *)

(* What a comment adds to a line that is read up to there.                 *)
LEMMA CommentStep ==
    ASSUME NEW s \in TokenState, NEW t \in Text, NEW text \in Text, NEW quoted \in BOOLEAN,
           NEW o, NEW ip, NEW names, Between(Scan(s, t), o), Means(o, ip, names)
    PROVE  /\ add_comment(t, text, quoted) \in Text
           /\ \E p : /\ Between(Scan(s, add_comment(t, text, quoted)), p)
                     /\ Means(p, ip, names \cup Words(text))
  <1> DEFINE a == <<"--comment", Space>>
             b == Shown(text, quoted)
             s1 == Scan(s, t)
             s2 == Scan(s1, a)
             q == Append(o, <<"--comment">>)
  <1>0. "--comment" \notin {Quote, Space}
    BY DEF Space, Quote
  <1>1. Space \in Atom /\ "--comment" \in Atom /\ a \in Text /\ <<Space>> \in Text
    BY DEF Atom, Text
  <1>2. s1 \in TokenState /\ Between(s1, o)
    BY ScanType
  <1> HIDE DEF s1
  <1>3. Between(s2, q)
    BY <1>0, <1>1, <1>2, ScanWord
  <1> HIDE DEF a
  <1>4. Scan(s, t \o a) = s2 /\ t \o a \in Text
    BY <1>1, ScanConcat DEF s1, Text
  <1>5. s2 \in TokenState
    BY <1>1, <1>2, ScanType
  <1> HIDE DEF s2
  <1>6. b \in Text /\ Between(Scan(s2, b \o <<Space>>), Append(q, text))
    BY <1>3, <1>5, ScanShown
  <1> HIDE DEF b
  <1>7. (t \o a) \o b \in Text /\ ((t \o a) \o b) \o <<Space>> \in Text
    BY <1>1, <1>4, <1>6 DEF Text
  <1>8. Scan(s, (t \o a) \o b) = Scan(s2, b)
    BY <1>4, <1>6, ScanConcat
  <1>9. Scan(s, ((t \o a) \o b) \o <<Space>>) = Scan(Scan(s2, b), <<Space>>)
    BY <1>1, <1>7, <1>8, ScanConcat
  <1>10. Scan(s2, b \o <<Space>>) = Scan(Scan(s2, b), <<Space>>)
    BY <1>1, <1>5, <1>6, ScanConcat
  <1>11. add_comment(t, text, quoted) = ((t \o a) \o b) \o <<Space>>
    BY DEF add_comment, a, b
  <1>12. Means(Append(q, text), ip, names \cup Words(text))
    BY MeansOption
  <1> QED
    BY <1>6, <1>7, <1>9, <1>10, <1>11, <1>12

(* All comments of a rule are read, each with its words.                   *)
LEMMA CommentsRead ==
    ASSUME NEW s \in TokenState, NEW texts \in Seq(Text), NEW quoted \in BOOLEAN,
           NEW o, NEW ip, NEW names, Between(s, o), Means(o, ip, names)
    PROVE  /\ Comments(texts, quoted) \in Text
           /\ \E p : /\ Between(Scan(s, Comments(texts, quoted)), p)
                     /\ Means(p, ip, names \cup UNION {Words(texts[i]) : i \in DOMAIN texts})
  <1> DEFINE n == Len(texts)
             States(h) == h = [k \in 0 .. Len(texts) |->
                                  IF k = 0 THEN <<>> ELSE add_comment(h[k - 1], texts[k], quoted)]
             F == [k \in 1 .. n |-> [e \in Text |-> add_comment(e, texts[k], quoted)]]
  <1>1. n \in Nat /\ DOMAIN texts = 1 .. n /\ (\A k \in 1 .. n : texts[k] \in Text) /\ <<>> \in Text
    BY DEF Text
  <1>0. \A e, t \in Text : add_comment(e, t, quoted) \in Text
    <2> SUFFICES ASSUME NEW e \in Text, NEW t \in Text PROVE add_comment(e, t, quoted) \in Text
      OBVIOUS
    <2>1. /\ <<"--comment", Space>> \in Text /\ <<Space>> \in Text
      BY DEF Text, Atom
    <2>2. Shown(t, quoted) \in Text
      BY ScanShown
    <2>3. e \o <<"--comment", Space>> \in Text
      BY <2>1 DEF Text
    <2>4. (e \o <<"--comment", Space>>) \o Shown(t, quoted) \in Text
      BY <2>2, <2>3 DEF Text
    <2>5. ((e \o <<"--comment", Space>>) \o Shown(t, quoted)) \o <<Space>> \in Text
      BY <2>1, <2>4 DEF Text
    <2> QED
      BY <2>5 DEF add_comment
  <1>2. F \in [1 .. n -> [Text -> Text]]
    BY <1>0, <1>1, SMT
  <1> HIDE DEF n
  <1>3. Computes(n, Text, F, <<>>)
    BY <1>1, <1>2, RecursionAt
  <1>4. PICK f \in [0 .. n -> Text] : f[0] = <<>> /\ \A k \in 1 .. n : f[k] = F[k][f[k - 1]]
    BY <1>3 DEF Computes
  <1>5. \A k \in 1 .. n : f[k] = add_comment(f[k - 1], texts[k], quoted)
    <2> TAKE k \in 1 .. n
    <2>1. k - 1 \in 0 .. n
      BY <1>1
    <2> QED
      BY <1>4, <2>1
  <1>6. States(f)
    BY <1>1, <1>4, <1>5 DEF n
  <1> DEFINE h == CHOOSE g : States(g)
  <1>7. States(h)
    BY <1>6, Zenon
  <1>8. Comments(texts, quoted) = h[n]
    BY Zenon DEF Comments, n
  <1> HIDE DEF h
  <1> DEFINE Ws(k) == names \cup UNION {Words(texts[i]) : i \in 1 .. k}
             P == {k \in 0 .. n : h[k] \in Text /\ \E p : Between(Scan(s, h[k]), p) /\ Means(p, ip, Ws(k))}
  <1>9. 0 \in P
    <2>1. h[0] = <<>> /\ 0 \in 0 .. n
      BY <1>1, <1>7 DEF n
    <2>2. Scan(s, <<>>) = s
      BY <1>1, ScanFold
    <2>3. Ws(0) = names
      OBVIOUS
    <2> QED
      BY <1>1, <2>1, <2>2, <2>3
  <1>10. ASSUME NEW k \in 0 .. n - 1, k \in P PROVE k + 1 \in P
    <2>1. k + 1 \in 1 .. n /\ k + 1 \in 0 .. n /\ (k + 1) - 1 = k /\ texts[k + 1] \in Text
      BY <1>1
    <2>2. h[k] \in Text
      BY <1>10
    <2>3. PICK p : Between(Scan(s, h[k]), p) /\ Means(p, ip, Ws(k))
      BY <1>10
    <2>4. h[k + 1] = add_comment(h[k], texts[k + 1], quoted)
      BY <1>1, <1>7, <2>1 DEF n
    <2>5. Ws(k + 1) = Ws(k) \cup Words(texts[k + 1])
      <3>1. 1 .. k + 1 = (1 .. k) \cup {k + 1}
        BY <1>1
      <3> QED
        BY <3>1
    <2> HIDE DEF Ws
    <2> HIDE DEF P
    <2>6. \E r : Between(Scan(s, add_comment(h[k], texts[k + 1], quoted)), r)
                /\ Means(r, ip, Ws(k) \cup Words(texts[k + 1]))
      BY <2>1, <2>2, <2>3, CommentStep
    <2>7. add_comment(h[k], texts[k + 1], quoted) \in Text
      BY <1>0, <2>1, <2>2
    <2> QED
      BY <2>1, <2>4, <2>5, <2>6, <2>7 DEF P
  <1> HIDE DEF P
  <1>11. \A k \in 0 .. n : k \in P
    BY <1>1, <1>9, <1>10, Induction
  <1>12. n \in P
    BY <1>1, <1>11
  <1> QED
    BY <1>1, <1>8, <1>12 DEF P

Rule == [dst : Destinations \cup {NoDestination}, comments : Seq(Text)]

RuleNames(r) == UNION {Words(r.comments[i]) : i \in DOMAIN r.comments}

(* A rule is read back with its destination and its names.                 *)
LEMMA OptionsRead ==
    ASSUME NEW r \in Rule, NEW quoted \in BOOLEAN
    PROVE  /\ Options(r, quoted) \in Text
           /\ Parse(tokenize(Options(r, quoted))).ip = r.dst
           /\ Parse(tokenize(Options(r, quoted))).names = RuleNames(r)
  <1> DEFINE a == IF r.dst = NoDestination THEN <<>>
                  ELSE <<"-d", Space, r.dst, Slash, "32", Space>>
             c == Comments(r.comments, quoted)
             z == <<"-j", Space, "target">>
             s0 == TokenStart
             s1 == Scan(s0, a)
             s2 == Scan(s1, c)
             s3 == Scan(s2, z)
  <1>1. s0 \in TokenState /\ Between(s0, <<>>)
    BY DEF TokenStart, TokenState, Between, Text
  <1> HIDE DEF s0
  <1>2. z \in Text /\ r.comments \in Seq(Text)
    BY DEF Rule, Text, Atom
  <1> HIDE DEF z
  <1>3. a \in Text /\ \E o : Between(s1, o) /\ Means(o, r.dst, {})
    <2>1. CASE r.dst = NoDestination
      <3>1. a = <<>> /\ <<>> \in Text
        BY <2>1 DEF Text
      <3>2. s1 = s0
        BY <1>1, <3>1, ScanFold
      <3> QED
        BY <1>1, <2>1, <3>1, <3>2, MeansStart
    <2>2. CASE r.dst # NoDestination
      <3> DEFINE t == Append(Append(<<r.dst>>, Slash), "32")
      <3>1. r.dst \in Destinations /\ r.dst \in Atom
        BY <2>2 DEF Rule, Atom
      <3>2. a = <<"-d", Space, r.dst, Slash, "32", Space>>
        BY <2>2
      <3>3. a \in Text
        <4>1. {"-d", Space, r.dst, Slash, "32"} \subseteq Atom
          BY <3>1 DEF Atom
        <4> QED
          BY <3>2, <4>1 DEF Text
      <3>4. Between(s1, Append(Append(<<>>, <<"-d">>), t))
        BY <1>1, <3>1, <3>2, ScanDestination
      <3>5. t \in Text /\ Len(t) = 3 /\ t[1] = r.dst /\ t[2] = Slash
        <4>1. <<r.dst>> \in Text /\ Len(<<r.dst>>) = 1 /\ <<r.dst>>[1] = r.dst /\ Slash \in Atom /\ "32" \in Atom
          BY <3>1 DEF Text, Atom
        <4> DEFINE v == Append(<<r.dst>>, Slash)
        <4>2. v \in Text /\ Len(v) = 2 /\ v[1] = r.dst /\ v[2] = Slash
          BY <4>1 DEF Text
        <4> DEFINE x == "32"
        <4>3. x \in Atom
          BY <4>1
        <4> HIDE DEF v, x
        <4>4. v \in Seq(Atom)
          BY <4>2 DEF Text
        <4>5. /\ Append(v, x) \in Seq(Atom) /\ Len(Append(v, x)) = Len(v) + 1
              /\ \A i \in 1 .. Len(v) : Append(v, x)[i] = v[i]
          BY <4>3, <4>4, AppendIs
        <4>6. Append(v, x) \in Text /\ Len(Append(v, x)) = 3
              /\ Append(v, x)[1] = v[1] /\ Append(v, x)[2] = v[2]
          <5>1. 1 \in 1 .. Len(v) /\ 2 \in 1 .. Len(v) /\ Len(v) + 1 = 3
            BY <4>2
          <5> QED
            BY <4>5, <5>1 DEF Text
        <4> QED
          BY <4>2, <4>6 DEF v, x
      <3> HIDE DEF t
      <3>6. Destination(t) = r.dst
        BY <3>1, <3>5 DEF Destination
      <3>7. Means(Append(Append(<<>>, <<"-d">>), t), Destination(t), {})
        BY <3>5, MeansStart, MeansOption
      <3> QED
        BY <3>3, <3>4, <3>6, <3>7
    <2> QED
      BY <2>1, <2>2
  <1> HIDE DEF a
  <1>4. PICK o : Between(s1, o) /\ Means(o, r.dst, {})
    BY <1>3
  <1>5. s1 \in TokenState
    BY <1>1, <1>3, ScanType
  <1> HIDE DEF s1
  <1>6. c \in Text /\ \E p : Between(s2, p) /\ Means(p, r.dst, {} \cup RuleNames(r))
    BY <1>2, <1>4, <1>5, CommentsRead DEF RuleNames
  <1> HIDE DEF c
  <1>7. PICK p : Between(s2, p) /\ Means(p, r.dst, RuleNames(r))
    BY <1>6
  <1>8. s2 \in TokenState
    BY <1>5, <1>6, ScanType
  <1> HIDE DEF s2
  <1>9. InWord(s3, Append(p, <<"-j">>), <<"target">>)
    BY <1>7, <1>8, ScanTarget DEF z
  <1> HIDE DEF s3
  <1>10. /\ <<"-j">> \in Text /\ <<"target">> \in Text
    BY DEF Text, Atom
  <1>11. {<<"-j">>, <<"target">>} \cap {<<"-d">>, <<"--comment">>} = {}
    OBVIOUS
  <1>12. Means(Append(p, <<"-j">>), r.dst, RuleNames(r))
    BY <1>7, <1>10, <1>11, MeansOption
  <1>13. Means(Append(Append(p, <<"-j">>), <<"target">>), r.dst, RuleNames(r))
    BY <1>10, <1>11, <1>12, MeansOption
  <1>14. Options(r, quoted) = (a \o c) \o z
    BY DEF Options, a, c, z
  <1>15. a \o c \in Text /\ (a \o c) \o z \in Text
    BY <1>2, <1>3, <1>6 DEF Text
  <1>16. Scan(s0, a \o c) = s2
    BY <1>1, <1>3, <1>6, ScanConcat DEF s1, s2
  <1>17. Scan(s0, (a \o c) \o z) = s3
    BY <1>1, <1>2, <1>15, <1>16, ScanConcat DEF s3
  <1>18. tokenize(Options(r, quoted)) = Append(Append(p, <<"-j">>), <<"target">>)
    BY <1>9, <1>14, <1>17 DEF tokenize, InWord, s0
  <1> QED
    BY <1>13, <1>14, <1>15, <1>18 DEF Means

(* What follows the prefix of a line are its options.                      *)
LEMMA PrefixOff ==
    ASSUME NEW p \in Text, NEW u \in Text
    PROVE  IsPrefix(p, p \o u) /\ SubSeq(p \o u, Len(p) + 1, Len(p \o u)) = u
  <1> DEFINE w == p \o u
             v == SubSeq(w, Len(p) + 1, Len(w))
             f == SubSeq(w, 1, Len(p))
             g == SubSeq(p, 1, Len(p))
  <1>1. /\ w \in Text /\ Len(w) = Len(p) + Len(u) /\ Len(p) \in Nat /\ Len(u) \in Nat
        /\ \A i \in 1 .. Len(p) : w[i] = p[i]
        /\ \A i \in 1 .. Len(u) : w[Len(p) + i] = u[i]
    BY DEF Text
  <1> HIDE DEF w
  <1>2. /\ v \in Text /\ Len(v) = Len(u)
        /\ \A i \in 1 .. Len(u) : v[i] = w[Len(p) + i]
    BY <1>1 DEF Text
  <1>3. /\ f \in Text /\ Len(f) = Len(p) /\ \A i \in 1 .. Len(p) : f[i] = w[i]
        /\ g \in Text /\ Len(g) = Len(p) /\ \A i \in 1 .. Len(p) : g[i] = p[i]
    BY <1>1 DEF Text
  <1> HIDE DEF v, f, g
  <1>4. v = u
    BY <1>1, <1>2 DEF Text
  <1>5. f = g
    BY <1>1, <1>3 DEF Text
  <1> QED
    BY <1>1, <1>4, <1>5 DEF v, f, g, w, IsPrefix

(* A rule is read back from its line, with its destination and names.      *)
LEMMA LineRead ==
    ASSUME NEW chain \in Chains, NEW r \in Rule, NEW quoted \in BOOLEAN
    PROVE  /\ IsPrefix(Prefix(chain), Line(chain, r, quoted))
           /\ Entry(Line(chain, r, quoted), chain).ip = r.dst
           /\ Entry(Line(chain, r, quoted), chain).names = RuleNames(r)
  <1>1. Prefix(chain) \in Text
    BY DEF Prefix, Text, Atom, Chains
  <1>2. Options(r, quoted) \in Text
    BY OptionsRead
  <1>3. Entry(Line(chain, r, quoted), chain) = Parse(tokenize(Options(r, quoted)))
    BY <1>1, <1>2, PrefixOff DEF Entry, Line
  <1> QED
    BY <1>1, <1>2, <1>3, PrefixOff, OptionsRead DEF Line

(* The rules of a chain are the lines behind the first.                    *)
LEMMA ListingRead ==
    ASSUME NEW chain \in Chains, chains[chain] \in Seq(Rule), NEW quoted \in BOOLEAN
    PROVE  LET rs == chains[chain]  lines == Listing(chain, quoted)
           IN  /\ RuleLines(lines, chain) = 2 .. Len(rs) + 1
               /\ \A i \in 1 .. Len(rs) : /\ Entry(lines[i + 1], chain).ip = rs[i].dst
                                          /\ Entry(lines[i + 1], chain).names = RuleNames(rs[i])
  <1> DEFINE rs == chains[chain]
             lines == Listing(chain, quoted)
             head == <<"-N", Space, chain>>
             n == Len(rs)
  <1>1. n \in Nat /\ DOMAIN rs = 1 .. n /\ \A i \in 1 .. n : rs[i] \in Rule
    OBVIOUS
  <1>2. \A i \in 1 .. n : Line(chain, rs[i], quoted) \in Text
    <2>1. Prefix(chain) \in Text
      BY DEF Prefix, Text, Atom, Chains
    <2> QED
      BY <1>1, <2>1, OptionsRead DEF Line, Text
  <1>3. head \in Text
    BY DEF Text, Atom, Chains
  <1>4. lines \in Seq(Text) /\ Len(lines) = n + 1 /\ lines[1] = head
        /\ \A i \in 1 .. n : lines[i + 1] = Line(chain, rs[i], quoted)
    <2> DEFINE t == [i \in 1 .. n |-> Line(chain, rs[i], quoted)]
    <2>1. t \in Seq(Text) /\ Len(t) = n /\ \A i \in 1 .. n : t[i] = Line(chain, rs[i], quoted)
      BY <1>1, <1>2
    <2>2. lines = <<head>> \o t
      BY <1>1 DEF Listing
    <2> HIDE DEF t, head, lines
    <2>3. /\ <<head>> \o t \in Seq(Text) /\ Len(<<head>> \o t) = Len(t) + 1
          /\ (<<head>> \o t)[1] = head /\ \A i \in 1 .. Len(t) : (<<head>> \o t)[i + 1] = t[i]
      BY <1>3, <2>1, ConsIs
    <2> QED
      BY <1>1, <2>1, <2>2, <2>3
  <1>5. ~IsPrefix(Prefix(chain), head)
    <2>1. Prefix(chain) \in Text /\ Len(Prefix(chain)) = 4 /\ Len(head) = 3
      BY DEF Prefix, Text, Atom, Chains
    <2> QED
      BY <2>1 DEF IsPrefix
  <1> HIDE DEF head, lines, n, rs
  <1>6. \A i \in 1 .. n : IsPrefix(Prefix(chain), lines[i + 1])
    BY <1>1, <1>4, LineRead
  <1>7. RuleLines(lines, chain) = 2 .. n + 1
    <2>1. DOMAIN lines = 1 .. n + 1
      BY <1>1, <1>4
    <2>2. \A j \in 2 .. n + 1 : j - 1 \in 1 .. n /\ (j - 1) + 1 = j
      BY <1>1
    <2>3. \A j \in 2 .. n + 1 : IsPrefix(Prefix(chain), lines[j])
      BY <1>6, <2>2
    <2>4. \A j \in 1 .. n + 1 : j = 1 \/ j \in 2 .. n + 1
      BY <1>1
    <2> QED
      BY <1>1, <1>4, <1>5, <2>1, <2>3, <2>4 DEF RuleLines
  <1>8. ASSUME NEW i \in 1 .. n
        PROVE  /\ Entry(lines[i + 1], chain).ip = rs[i].dst
               /\ Entry(lines[i + 1], chain).names = RuleNames(rs[i])
    BY <1>1, <1>4, LineRead
  <1> QED
    BY <1>7, <1>8 DEF rs, lines, n

(* The rules that have a destination.                                      *)
WithDst(rs) == {i \in 1 .. Len(rs) : rs[i].dst # NoDestination}

(* What is read from a chain.                                              *)
LEMMA ReadIs ==
    ASSUME NEW chain \in Chains, chains[chain] \in Seq(Rule), NEW quoted \in BOOLEAN
    PROVE  /\ read_chain(chain, quoted).rule_lines = Len(chains[chain])
           /\ DOMAIN read_chain(chain, quoted).entries = {i + 1 : i \in WithDst(chains[chain])}
           /\ \A i \in WithDst(chains[chain]) :
                 /\ read_chain(chain, quoted).entries[i + 1].ip = chains[chain][i].dst
                 /\ read_chain(chain, quoted).entries[i + 1].names = RuleNames(chains[chain][i])
           /\ DOMAIN Map(chain, quoted) = {chains[chain][i].dst : i \in WithDst(chains[chain])}
           /\ \A a \in DOMAIN Map(chain, quoted) :
                 Map(chain, quoted)[a] = UNION {RuleNames(chains[chain][i]) : i \in {j \in WithDst(chains[chain]) : chains[chain][j].dst = a}}
  <1> DEFINE rs == chains[chain]
             lines == Listing(chain, quoted)
             read == read_chain(chain, quoted)
             es == read.entries
             m == Map(chain, quoted)
             n == Len(rs)
             K == WithDst(rs)
  <1>1. n \in Nat /\ K = {i \in 1 .. n : rs[i].dst # NoDestination}
    BY DEF WithDst
  <1>2. /\ RuleLines(lines, chain) = 2 .. n + 1
        /\ \A i \in 1 .. n : /\ Entry(lines[i + 1], chain).ip = rs[i].dst
                             /\ Entry(lines[i + 1], chain).names = RuleNames(rs[i])
    BY ListingRead
  <1>3. es = parse_chain(lines, chain) /\ read.rule_lines = count_rules(lines, chain)
    BY DEF read_chain
  <1> HIDE DEF lines, n, K, rs
  <1>4. read.rule_lines = n
    <2>1. Cardinality(2 .. n + 1) = n
      BY <1>1, FS_Interval
    <2> QED
      BY <1>2, <1>3, <2>1 DEF count_rules
  <1>5. DOMAIN es = {i + 1 : i \in K}
    <2>1. DOMAIN es = {j \in 2 .. n + 1 : Entry(lines[j], chain).ip # NoDestination}
      BY <1>2, <1>3 DEF parse_chain
    <2>2. ASSUME NEW j \in 2 .. n + 1, Entry(lines[j], chain).ip # NoDestination
          PROVE  j \in {i + 1 : i \in K}
      <3>1. j - 1 \in 1 .. n /\ (j - 1) + 1 = j
        BY <1>1
      <3>2. j - 1 \in K
        BY <1>1, <1>2, <2>2, <3>1
      <3> QED
        BY <3>1, <3>2
    <2>3. ASSUME NEW i \in K
          PROVE  i + 1 \in 2 .. n + 1 /\ Entry(lines[i + 1], chain).ip # NoDestination
      BY <1>1, <1>2
    <2> QED
      BY <2>1, <2>2, <2>3
  <1>6. \A i \in K : es[i + 1].ip = rs[i].dst /\ es[i + 1].names = RuleNames(rs[i])
    <2> TAKE i \in K
    <2>1. i \in 1 .. n /\ i + 1 \in DOMAIN es
      BY <1>1, <1>5
    <2>2. es[i + 1] = Entry(lines[i + 1], chain)
      BY <1>3, <2>1 DEF parse_chain
    <2> QED
      BY <1>2, <2>1, <2>2
  <1> HIDE DEF es
  <1>7. m = entries_to_map(es)
    BY DEF Map, es
  <1> HIDE DEF m
  <1> DEFINE S == {es[i] : i \in DOMAIN es}
  <1>8. S = {es[i + 1] : i \in K}
    BY <1>5
  <1>9. DOMAIN m = {e.ip : e \in S}
        /\ \A a \in DOMAIN m : m[a] = UNION {e.names : e \in {x \in S : x.ip = a}}
    BY <1>7 DEF entries_to_map
  <1> HIDE DEF S
  <1>10. DOMAIN m = {rs[i].dst : i \in K}
    BY <1>6, <1>8, <1>9
  <1>11. ASSUME NEW a \in DOMAIN m
         PROVE  m[a] = UNION {RuleNames(rs[i]) : i \in {j \in K : rs[j].dst = a}}
    <2>1. {e.names : e \in {x \in S : x.ip = a}} = {RuleNames(rs[i]) : i \in {j \in K : rs[j].dst = a}}
      BY <1>6, <1>8
    <2> QED
      BY <1>9, <2>1
  <1> QED
    BY <1>4, <1>5, <1>6, <1>10, <1>11 DEF m, es, n, K, rs

(* A chain is dirty when it holds a rule without destination or two rules  *)
(* for an address.                                                         *)
LEMMA DirtyIs ==
    ASSUME NEW chain \in Chains, chains[chain] \in Seq(Rule), NEW quoted \in BOOLEAN
    PROVE  is_dirty(read_chain(chain, quoted)) <=>
               \/ \E i \in DOMAIN chains[chain] : chains[chain][i].dst = NoDestination
               \/ \E i, j \in DOMAIN chains[chain] : i # j /\ chains[chain][i].dst = chains[chain][j].dst
  <1> DEFINE rs == chains[chain]
             n == Len(rs)
             K == WithDst(rs)
             read == read_chain(chain, quoted)
             es == read.entries
             D == DOMAIN es
             m == Map(chain, quoted)
             M == DOMAIN m
  <1>a. read.rule_lines = n
    BY ReadIs
  <1>b. D = {i + 1 : i \in K}
    BY ReadIs
  <1>c. \A i \in K : es[i + 1].ip = rs[i].dst
    BY ReadIs
  <1>d. M = {rs[i].dst : i \in K}
    BY ReadIs
  <1>1. /\ read.rule_lines = n
        /\ D = {i + 1 : i \in K}
        /\ \A i \in K : es[i + 1].ip = rs[i].dst
        /\ M = {rs[i].dst : i \in K}
    BY <1>a, <1>b, <1>c, <1>d
  <1>2. n \in Nat /\ DOMAIN rs = 1 .. n /\ K \subseteq 1 .. n
    BY DEF WithDst
  <1>3. K = 1 .. n <=> ~ \E i \in DOMAIN rs : rs[i].dst = NoDestination
    BY <1>2 DEF WithDst
  <1>4. is_dirty(read) <=> n # Cardinality(D) \/ Cardinality(M) # Cardinality(D)
    BY <1>1 DEF is_dirty, Map
  <1> HIDE DEF rs, n, K, read, D, M, es
  <1>6. IsFiniteSet(1 .. n) /\ Cardinality(1 .. n) = n
    BY <1>2, FS_Interval
  <1>7. IsFiniteSet(K) /\ Cardinality(K) \in Nat /\ (Cardinality(K) = n <=> K = 1 .. n)
    BY <1>2, <1>6, FS_Subset, FS_CardinalityType
  <1> DEFINE f == [i \in K |-> i + 1]
             g == [i \in K |-> rs[i].dst]
  <1>8. f \in Surjection(K, D) /\ f \in Injection(K, D)
    <2>1. f \in [K -> D] /\ \A d \in D : \E i \in K : f[i] = d
      BY <1>1
    <2>2. \A i, j \in K : f[i] = f[j] => i = j
      BY <1>2
    <2> QED
      BY <2>1, <2>2 DEF Surjection, Injection, IsInjective
  <1>9. Cardinality(D) = Cardinality(K)
    BY <1>7, <1>8, FS_Surjection
  <1>10. g \in Surjection(K, M)
    BY <1>1 DEF Surjection
  <1>11. Cardinality(M) = Cardinality(K) <=> g \in Injection(K, M)
    BY <1>7, <1>10, FS_Surjection
  <1>12. g \in Injection(K, M) <=> \A i, j \in K : rs[i].dst = rs[j].dst => i = j
    BY <1>1 DEF Injection, IsInjective
  <1>13. CASE K = 1 .. n
    BY <1>2, <1>3, <1>4, <1>7, <1>9, <1>11, <1>12, <1>13 DEF read, rs
  <1>14. CASE K # 1 .. n
    BY <1>3, <1>4, <1>7, <1>9, <1>14 DEF read, rs
  <1> QED
    BY <1>13, <1>14

-----------------------------------------------------------------------------
(* Comments.                                                               *)

NameSeq == Seq(AllNames)

(* Every name has its place and its length.                                *)
LEMMA NamesOrdered ==
    /\ Len(Order) \in Nat /\ (\A k \in 1 .. Len(Order) : Order[k] \in AllNames)
    /\ \A n \in AllNames : \E k \in 1 .. Len(Order) : n = Order[k]
    /\ \A n \in AllNames : Length[n] \in Nat /\ Length[n] < MaxCommentLen
    /\ MaxCommentLen \in Nat
  <1>1. Order \in Seq(AllNames)
    BY NamesAssumption
  <1>2. Len(Order) \in Nat /\ DOMAIN Order = 1 .. Len(Order)
    BY <1>1
  <1> QED
    BY <1>2, NamesAssumption DEF AllNames

(* Bytes, name by name.                                                    *)
LEMMA BytesFold ==
    ASSUME NEW s \in NameSeq
    PROVE  \E f \in [0 .. Len(s) -> Nat] :
              /\ f[0] = 0
              /\ \A k \in 1 .. Len(s) : f[k] = f[k - 1] + Length[s[k]]
              /\ Bytes(s) = f[Len(s)]
  <1> DEFINE n == Len(s)
             States(h) == h = [k \in 0 .. Len(s) |-> IF k = 0 THEN 0 ELSE h[k - 1] + Length[s[k]]]
             F == [k \in 1 .. n |-> [b \in Nat |-> b + Length[s[k]]]]
  <1>1. n \in Nat /\ \A k \in 1 .. n : Length[s[k]] \in Nat
    BY NamesOrdered DEF NameSeq
  <1>2. F \in [1 .. n -> [Nat -> Nat]]
    BY <1>1
  <1> HIDE DEF n
  <1>3. Computes(n, Nat, F, 0)
    BY <1>1, <1>2, RecursionAt
  <1>4. PICK f \in [0 .. n -> Nat] : f[0] = 0 /\ \A k \in 1 .. n : f[k] = F[k][f[k - 1]]
    BY <1>3 DEF Computes
  <1>5. \A k \in 1 .. n : f[k] = f[k - 1] + Length[s[k]]
    <2> TAKE k \in 1 .. n
    <2>1. k - 1 \in 0 .. n
      BY <1>1
    <2> QED
      BY <1>4, <2>1
  <1>6. States(f)
    BY <1>1, <1>4, <1>5 DEF n
  <1> DEFINE h == CHOOSE g : States(g)
  <1>7. States(h)
    BY <1>6, Zenon
  <1>8. Bytes(s) = h[n]
    BY Zenon DEF Bytes, n
  <1> HIDE DEF h
  <1> DEFINE P == {k \in 0 .. n : h[k] = f[k]}
  <1>9. 0 \in P
    BY <1>1, <1>4, <1>7 DEF n
  <1>10. \A k \in 0 .. n - 1 : k \in P => k + 1 \in P
    BY <1>1, <1>5, <1>7 DEF n
  <1> HIDE DEF P
  <1>11. \A k \in 0 .. n : k \in P
    BY <1>1, <1>9, <1>10, Induction
  <1>12. Bytes(s) = f[n]
    BY <1>1, <1>8, <1>11 DEF P
  <1> QED
    BY <1>4, <1>5, <1>12 DEF n

(* One more name adds its length.                                          *)
LEMMA BytesAppend ==
    ASSUME NEW s \in NameSeq, NEW x \in AllNames
    PROVE  /\ Append(s, x) \in NameSeq /\ Bytes(s) \in Nat
           /\ Bytes(Append(s, x)) = Bytes(s) + Length[x]
  <1> DEFINE n == Len(s)  w == Append(s, x)
  <1>1. /\ n \in Nat /\ w \in NameSeq /\ Len(w) = n + 1 /\ w[n + 1] = x
        /\ \A k \in 1 .. n : w[k] = s[k]
    BY DEF NameSeq
  <1> HIDE DEF n, w
  <1>2. PICK f \in [0 .. n -> Nat] :
            /\ f[0] = 0 /\ \A k \in 1 .. n : f[k] = f[k - 1] + Length[s[k]]
            /\ Bytes(s) = f[n]
    BY BytesFold DEF n
  <1>3. PICK h \in [0 .. n + 1 -> Nat] :
            /\ h[0] = 0 /\ \A k \in 1 .. n + 1 : h[k] = h[k - 1] + Length[w[k]]
            /\ Bytes(w) = h[n + 1]
    BY <1>1, BytesFold
  <1> DEFINE P == {k \in 0 .. n : h[k] = f[k]}
  <1>4. 0 \in P
    BY <1>1, <1>2, <1>3
  <1>5. ASSUME NEW k \in 0 .. n - 1, k \in P PROVE k + 1 \in P
    <2>1. /\ k + 1 \in 1 .. n /\ k + 1 \in 1 .. n + 1 /\ k + 1 \in 0 .. n
          /\ (k + 1) - 1 = k
      BY <1>1
    <2>2. f[k + 1] = f[k] + Length[s[k + 1]] /\ h[k + 1] = h[k] + Length[w[k + 1]]
      BY <1>2, <1>3, <2>1
    <2>3. w[k + 1] = s[k + 1] /\ h[k] = f[k]
      BY <1>1, <1>5, <2>1
    <2> QED
      BY <2>1, <2>2, <2>3
  <1> HIDE DEF P
  <1>6. \A k \in 0 .. n : k \in P
    BY <1>1, <1>4, <1>5, Induction
  <1>7. h[n] = f[n] /\ f[n] \in Nat
    BY <1>1, <1>2, <1>6 DEF P
  <1>8. h[n + 1] = h[n] + Length[x]
    BY <1>1, <1>3
  <1> QED
    BY <1>1, <1>2, <1>3, <1>7, <1>8 DEF w

(* No names, no bytes.                                                     *)
LEMMA BytesEmpty == Bytes(<<>>) = 0
  <1>1. <<>> \in NameSeq /\ Len(<<>>) = 0
    BY DEF NameSeq
  <1> QED
    BY <1>1, BytesFold

(* Sorted, place by place.                                                 *)
LEMMA SortedFold ==
    ASSUME NEW names
    PROVE  \E f \in [0 .. Len(Order) -> NameSeq] :
              /\ f[0] = <<>>
              /\ \A k \in 1 .. Len(Order) : f[k] = add_if(f[k - 1], Order[k], names)
              /\ Sorted(names) = f[Len(Order)]
  <1> DEFINE n == Len(Order)
             States(h) == h = [k \in 0 .. Len(Order) |->
                                  IF k = 0 THEN <<>> ELSE add_if(h[k - 1], Order[k], names)]
             F == [k \in 1 .. n |-> [s \in NameSeq |-> add_if(s, Order[k], names)]]
  <1>1. n \in Nat /\ (\A k \in 1 .. n : Order[k] \in AllNames) /\ <<>> \in NameSeq
    BY NamesOrdered DEF NameSeq
  <1>2. F \in [1 .. n -> [NameSeq -> NameSeq]]
    <2>1. \A x \in AllNames, s \in NameSeq : add_if(s, x, names) \in NameSeq
      BY BytesAppend DEF add_if
    <2> QED
      BY <1>1, <2>1, SMT
  <1> HIDE DEF n
  <1>3. Computes(n, NameSeq, F, <<>>)
    BY <1>1, <1>2, RecursionAt
  <1>4. PICK f \in [0 .. n -> NameSeq] : f[0] = <<>> /\ \A k \in 1 .. n : f[k] = F[k][f[k - 1]]
    BY <1>3 DEF Computes
  <1>5. \A k \in 1 .. n : f[k] = add_if(f[k - 1], Order[k], names)
    <2> TAKE k \in 1 .. n
    <2>1. k - 1 \in 0 .. n
      BY <1>1
    <2> QED
      BY <1>4, <2>1
  <1>6. States(f)
    BY <1>1, <1>4, <1>5 DEF n
  <1> DEFINE h == CHOOSE g : States(g)
  <1>7. States(h)
    BY <1>6, Zenon
  <1>8. Sorted(names) = h[n]
    BY Zenon DEF Sorted, n
  <1> HIDE DEF h
  <1> DEFINE P == {k \in 0 .. n : h[k] = f[k]}
  <1>9. 0 \in P
    BY <1>1, <1>4, <1>7 DEF n
  <1>10. \A k \in 0 .. n - 1 : k \in P => k + 1 \in P
    BY <1>1, <1>5, <1>7 DEF n
  <1> HIDE DEF P
  <1>11. \A k \in 0 .. n : k \in P
    BY <1>1, <1>9, <1>10, Induction
  <1>12. Sorted(names) = f[n]
    BY <1>1, <1>8, <1>11 DEF P
  <1> QED
    BY <1>4, <1>5, <1>12 DEF n

(* A set of names in order: each of them, and no other.                    *)
LEMMA SortedIs ==
    ASSUME NEW names, names \subseteq AllNames
    PROVE  /\ Sorted(names) \in NameSeq
           /\ {Sorted(names)[i] : i \in 1 .. Len(Sorted(names))} = names
  <1> DEFINE n == Len(Order)
             R(s) == {s[i] : i \in 1 .. Len(s)}
  <1>1. /\ n \in Nat /\ \A k \in 1 .. n : Order[k] \in AllNames
        /\ \A x \in AllNames : \E k \in 1 .. n : x = Order[k]
    BY NamesOrdered
  <1> HIDE DEF n
  <1>2. PICK f \in [0 .. n -> NameSeq] :
            /\ f[0] = <<>> /\ \A k \in 1 .. n : f[k] = add_if(f[k - 1], Order[k], names)
            /\ Sorted(names) = f[n]
    BY SortedFold DEF n
  <1>3. \A s \in NameSeq, x \in AllNames : R(Append(s, x)) = R(s) \cup {x}
    <2> SUFFICES ASSUME NEW s \in NameSeq, NEW x \in AllNames
                 PROVE  R(Append(s, x)) = R(s) \cup {x}
      OBVIOUS
    <2>1. /\ Len(s) \in Nat /\ Len(Append(s, x)) = Len(s) + 1 /\ Append(s, x)[Len(s) + 1] = x
          /\ \A i \in 1 .. Len(s) : Append(s, x)[i] = s[i]
      BY DEF NameSeq
    <2>2. 1 .. Len(s) + 1 = (1 .. Len(s)) \cup {Len(s) + 1}
      BY <2>1
    <2> QED
      BY <2>1, <2>2
  <1>4. R(<<>>) = {}
    OBVIOUS
  <1> HIDE DEF R
  <1> DEFINE P == {k \in 0 .. n : R(f[k]) = {Order[i] : i \in 1 .. k} \cap names}
  <1>5. 0 \in P
    BY <1>1, <1>2, <1>4
  <1>6. ASSUME NEW k \in 0 .. n - 1, k \in P PROVE k + 1 \in P
    <2>1. k + 1 \in 1 .. n /\ k + 1 \in 0 .. n /\ k \in 0 .. n /\ 1 .. k + 1 = (1 .. k) \cup {k + 1}
          /\ (k + 1) - 1 = k
      BY <1>1
    <2>2. f[k] \in NameSeq /\ Order[k + 1] \in AllNames
      BY <1>1, <1>2, <2>1
    <2>3. f[k + 1] = add_if(f[k], Order[k + 1], names)
      BY <1>2, <2>1
    <2>4. {Order[i] : i \in 1 .. k + 1} = {Order[i] : i \in 1 .. k} \cup {Order[k + 1]}
      BY <2>1
    <2>5. R(f[k]) = {Order[i] : i \in 1 .. k} \cap names
      BY <1>6
    <2> HIDE DEF P
    <2>6. R(f[k + 1]) = {Order[i] : i \in 1 .. k + 1} \cap names
      <3>1. CASE Order[k + 1] \in names
        BY <1>3, <2>2, <2>3, <2>4, <2>5, <3>1 DEF add_if
      <3>2. CASE Order[k + 1] \notin names
        BY <2>3, <2>4, <2>5, <3>2 DEF add_if
      <3> QED
        BY <3>1, <3>2
    <2> QED
      BY <2>1, <2>6 DEF P
  <1> HIDE DEF P
  <1>7. \A k \in 0 .. n : k \in P
    BY <1>1, <1>5, <1>6, Induction
  <1>8. R(f[n]) = {Order[i] : i \in 1 .. n} \cap names /\ f[n] \in NameSeq
    BY <1>1, <1>2, <1>7 DEF P
  <1>9. names \subseteq {Order[i] : i \in 1 .. n}
    BY <1>1
  <1> QED
    BY <1>2, <1>8, <1>9 DEF R

(* Fewer names take no more room.                                          *)
LEMMA FewerFit ==
    ASSUME NEW S, NEW E, S \subseteq E, E \subseteq AllNames
    PROVE  Joined(Sorted(S)) \in Nat /\ Joined(Sorted(E)) \in Nat /\ Joined(Sorted(S)) <= Joined(Sorted(E))
  <1> DEFINE n == Len(Order)
  <1>1. /\ n \in Nat /\ \A k \in 1 .. n : Order[k] \in AllNames /\ Length[Order[k]] \in Nat
    BY NamesOrdered
  <1> HIDE DEF n
  <1>2. PICK f \in [0 .. n -> NameSeq] :
            /\ f[0] = <<>> /\ \A k \in 1 .. n : f[k] = add_if(f[k - 1], Order[k], S)
            /\ Sorted(S) = f[n]
    BY SortedFold DEF n
  <1>3. PICK g \in [0 .. n -> NameSeq] :
            /\ g[0] = <<>> /\ \A k \in 1 .. n : g[k] = add_if(g[k - 1], Order[k], E)
            /\ Sorted(E) = g[n]
    BY SortedFold DEF n
  <1>4. \A s \in NameSeq : Len(s) \in Nat /\ Bytes(s) \in Nat
    <2> TAKE s \in NameSeq
    <2>1. Len(s) \in 0 .. Len(s) /\ Len(s) \in Nat
      BY DEF NameSeq
    <2> QED
      BY <2>1, BytesFold
  <1> DEFINE P == {k \in 0 .. n : Len(f[k]) <= Len(g[k]) /\ Bytes(f[k]) <= Bytes(g[k])}
  <1>5. 0 \in P
    BY <1>1, <1>2, <1>3, BytesEmpty
  <1>6. ASSUME NEW k \in 0 .. n - 1, k \in P PROVE k + 1 \in P
    <2> DEFINE x == Order[k + 1]
    <2>1. k + 1 \in 1 .. n /\ k + 1 \in 0 .. n /\ k \in 0 .. n /\ (k + 1) - 1 = k
      BY <1>1
    <2>2. f[k] \in NameSeq /\ g[k] \in NameSeq /\ x \in AllNames /\ Length[x] \in Nat
      BY <1>1, <1>2, <1>3, <2>1
    <2>3. f[k + 1] = add_if(f[k], x, S) /\ g[k + 1] = add_if(g[k], x, E)
      BY <1>2, <1>3, <2>1
    <2>4. \A s \in NameSeq : Len(Append(s, x)) = Len(s) + 1 /\ Bytes(Append(s, x)) = Bytes(s) + Length[x]
      BY <2>2, BytesAppend DEF NameSeq
    <2>5. Len(f[k]) <= Len(g[k]) /\ Bytes(f[k]) <= Bytes(g[k])
      BY <1>6
    <2> HIDE DEF x, P
    <2>6. Len(f[k + 1]) <= Len(g[k + 1]) /\ Bytes(f[k + 1]) <= Bytes(g[k + 1])
      <3>1. CASE x \in S
        BY <1>4, <2>2, <2>3, <2>4, <2>5, <3>1 DEF add_if
      <3>2. CASE x \notin S /\ x \in E
        BY <1>4, <2>2, <2>3, <2>4, <2>5, <3>2 DEF add_if
      <3>3. CASE x \notin E
        BY <2>3, <2>5, <3>3 DEF add_if
      <3> QED
        BY <3>1, <3>2, <3>3
    <2> QED
      BY <2>1, <2>6 DEF P
  <1> HIDE DEF P
  <1>7. \A k \in 0 .. n : k \in P
    BY <1>1, <1>5, <1>6, Induction
  <1>8. /\ Len(f[n]) <= Len(g[n]) /\ Bytes(f[n]) <= Bytes(g[n])
        /\ f[n] \in NameSeq /\ g[n] \in NameSeq
    BY <1>1, <1>2, <1>3, <1>7 DEF P
  <1>9. \A s \in NameSeq : s # <<>> => Len(s) > 0
    BY DEF NameSeq
  <1> QED
    BY <1>2, <1>3, <1>4, <1>8, <1>9 DEF Joined


(* The first names of a sequence, and one name alone.                      *)
LEMMA FirstNames ==
    ASSUME NEW s \in NameSeq, NEW k \in 1 .. Len(s)
    PROVE  /\ SubSeq(s, 1, k) \in NameSeq /\ Len(SubSeq(s, 1, k)) = k
           /\ \A i \in 1 .. k : SubSeq(s, 1, k)[i] = s[i]
  <1>1. Len(s) \in Nat /\ \A i \in 1 .. Len(s) : s[i] \in AllNames
    BY DEF NameSeq
  <1> QED
    BY <1>1 DEF NameSeq

(* Any name alone fits a comment.                                          *)
LEMMA OneName ==
    ASSUME NEW s \in NameSeq, Len(s) = 1
    PROVE  Joined(s) = Length[s[1]] /\ Joined(s) < MaxCommentLen
  <1>1. PICK f \in [0 .. Len(s) -> Nat] :
            /\ f[0] = 0 /\ \A k \in 1 .. Len(s) : f[k] = f[k - 1] + Length[s[k]]
            /\ Bytes(s) = f[Len(s)]
    BY BytesFold
  <1>2. s[1] \in AllNames /\ s # <<>>
    BY DEF NameSeq
  <1>3. 1 \in 1 .. Len(s)
    OBVIOUS
  <1>4. f[1] = f[1 - 1] + Length[s[1]] /\ 1 - 1 = 0
    BY <1>1, <1>3
  <1>5. Bytes(s) = Length[s[1]]
    BY <1>1, <1>2, <1>4, NamesOrdered
  <1> QED
    BY <1>2, <1>5, NamesOrdered DEF Joined

(* A comment is the names joined: all of them when they fit, otherwise the *)
(* first ones, and never part of a name.                                   *)
LEMMA CommentIs ==
    ASSUME NEW names, names \subseteq AllNames
    PROVE  \E t \in NameSeq :
              /\ comment(names) = Join(t)
              /\ \A i \in 1 .. Len(t) : t[i] \in names
              /\ names # {} => Len(t) > 0
              /\ Joined(Sorted(names)) <= MaxCommentLen =>
                     \A x \in names : \E i \in 1 .. Len(t) : t[i] = x
  <1> DEFINE s == Sorted(names)
             spaces == {k \in 1 .. Len(s) - 1 : Joined(SubSeq(s, 1, k)) < MaxCommentLen}
             last == CHOOSE i \in spaces : \A j \in spaces : j <= i
  <1>1. s \in NameSeq /\ names = {s[i] : i \in 1 .. Len(s)} /\ Len(s) \in Nat
    <2>1. Sorted(names) \in NameSeq /\ {Sorted(names)[i] : i \in 1 .. Len(Sorted(names))} = names
      BY SortedIs
    <2> QED
      BY <2>1 DEF NameSeq
  <1>2. Joined(s) \in Nat /\ MaxCommentLen \in Nat
    BY FewerFit, NamesOrdered
  <1>3. comment(names) = IF Joined(s) <= MaxCommentLen THEN Join(s)
                         ELSE IF spaces = {} THEN <<Fragment>>
                         ELSE Join(SubSeq(s, 1, last))
    BY Zenon DEF comment
  <1> HIDE DEF s
  <1>4. CASE Joined(s) <= MaxCommentLen
    <2>1. comment(names) = Join(s)
      BY <1>3, <1>4
    <2>2. names # {} => Len(s) > 0
      BY <1>1
    <2> QED
      BY <1>1, <2>1, <2>2
  <1>5. CASE ~ (Joined(s) <= MaxCommentLen)
    <2>1. Len(s) # 0
      <3>1. Len(s) = 0 => s = <<>>
        BY <1>1 DEF NameSeq
      <3>2. Joined(<<>>) = 0
        BY BytesEmpty DEF Joined
      <3> QED
        BY <1>2, <1>5, <3>1, <3>2
    <2>2. Len(s) # 1
      <3>1. \A r \in NameSeq : Len(r) = 1 => Joined(r) < MaxCommentLen
        BY OneName
      <3> QED
        BY <1>1, <1>2, <1>5, <3>1
    <2>3. 1 \in 1 .. Len(s) - 1 /\ 1 \in 1 .. Len(s)
      <3>1. Len(s) \in Nat
        BY <1>1
      <3> QED
        BY <2>1, <2>2, <3>1
    <2>4. 1 \in spaces
      <3>1. SubSeq(s, 1, 1) \in NameSeq /\ Len(SubSeq(s, 1, 1)) = 1
        BY <1>1, <2>3, FirstNames
      <3>2. Joined(SubSeq(s, 1, 1)) < MaxCommentLen
        BY <3>1, OneName
      <3> QED
        BY <2>3, <3>2
    <2>5. spaces \subseteq 0 .. Len(s) /\ spaces # {}
      BY <1>1, <2>4
    <2>6. \A i \in spaces : i \in 1 .. Len(s)
      BY <1>1
    <2> HIDE DEF spaces
    <2>7. last \in spaces
      <3>1. \E i \in spaces : \A j \in spaces : j <= i
        BY <1>1, <2>5, GreatestNatural
      <3> QED
        BY <3>1, Zenon
    <2> HIDE DEF last
    <2>8. comment(names) = Join(SubSeq(s, 1, last))
      BY <1>3, <1>5, <2>5
    <2>9. last \in 1 .. Len(s)
      BY <2>6, <2>7
    <2>10. /\ SubSeq(s, 1, last) \in NameSeq /\ Len(SubSeq(s, 1, last)) = last
           /\ \A i \in 1 .. last : SubSeq(s, 1, last)[i] = s[i]
      BY <1>1, <2>9, FirstNames
    <2> DEFINE t == SubSeq(s, 1, last)
    <2>11. \A i \in 1 .. Len(t) : t[i] \in names
      BY <1>1, <2>9, <2>10
    <2>12. Len(t) > 0
      BY <2>9, <2>10
    <2> QED
      BY <1>5, <2>8, <2>10, <2>11, <2>12 DEF s
  <1> QED
    BY <1>4, <1>5

(* The words of names that were joined are the names.                      *)
LEMMA JoinWords ==
    ASSUME NEW t \in NameSeq
    PROVE  /\ Join(t) \in Text
           /\ Words(Join(t)) = {<<t[i]>> : i \in 1 .. Len(t)}
  <1> DEFINE n == Len(t)  j == Join(t)
  <1>1. n \in Nat /\ \A i \in 1 .. n : t[i] \in AllNames /\ t[i] # Space
    BY NamesAssumption DEF NameSeq
  <1>2. j = [i \in 1 .. 2 * n - 1 |-> IF i % 2 = 1 THEN t[(i + 1) \div 2] ELSE Space]
    BY DEF Join
  <1>3. \A i \in 1 .. 2 * n - 1 :
           (i % 2 = 1 => (i + 1) \div 2 \in 1 .. n) /\ (i % 2 # 1 => i - 1 >= 1 /\ i + 1 <= 2 * n - 1)
    BY <1>1, SMT
  <1> HIDE DEF n, j
  <1>4. j \in Text
    BY <1>1, <1>2, <1>3 DEF Text, Atom
  <1> DEFINE Run(a, b) == /\ a <= b /\ \A i \in a .. b : j[i] # Space
                          /\ a = 1 \/ j[a - 1] = Space
                          /\ b = Len(j) \/ j[b + 1] = Space
             Runs == {x \in (DOMAIN j) \X (DOMAIN j) :
                         /\ x[1] <= x[2]
                         /\ \A i \in x[1] .. x[2] : j[i] # Space
                         /\ x[1] = 1 \/ j[x[1] - 1] = Space
                         /\ x[2] = Len(j) \/ j[x[2] + 1] = Space}
  <1>5. DOMAIN j = 1 .. 2 * n - 1 /\ (n > 0 => Len(j) = 2 * n - 1)
    BY <1>1, <1>2, <1>4 DEF Text
  <1>6. \A a, b \in DOMAIN j : Run(a, b) => a = b /\ a % 2 = 1
    <2> SUFFICES ASSUME NEW a \in DOMAIN j, NEW b \in DOMAIN j, Run(a, b)
                 PROVE  a = b /\ a % 2 = 1
      OBVIOUS
    <2>1. \A i \in 1 .. 2 * n - 1 : i % 2 # 1 => j[i] = Space
      BY <1>2
    <2>2. a \in Int /\ b \in Int /\ a <= b /\ a \in 1 .. 2 * n - 1 /\ b \in 1 .. 2 * n - 1
      BY <1>1, <1>5
    <2>3. a % 2 = 1
      BY <2>1, <2>2
    <2>4. a # b => a + 1 \in a .. b /\ a + 1 \in 1 .. 2 * n - 1 /\ (a + 1) % 2 # 1
      BY <1>1, <2>2, <2>3
    <2> QED
      BY <2>1, <2>3, <2>4
  <1>7. \A a \in DOMAIN j : a % 2 = 1 => Run(a, a)
    <2> SUFFICES ASSUME NEW a \in DOMAIN j, a % 2 = 1
                 PROVE  Run(a, a)
      OBVIOUS
    <2>1. a \in Int /\ a \in 1 .. 2 * n - 1 /\ (a + 1) \div 2 \in 1 .. n
      BY <1>1, <1>3, <1>5
    <2>2. j[a] = t[(a + 1) \div 2] /\ j[a] # Space
      BY <1>1, <1>2, <2>1
    <2>3. a # 1 => a - 1 \in 1 .. 2 * n - 1 /\ (a - 1) % 2 # 1
      BY <1>1, <2>1
    <2>4. a # 2 * n - 1 => a + 1 \in 1 .. 2 * n - 1 /\ (a + 1) % 2 # 1
      BY <1>1, <2>1
    <2>5. a # 1 => j[a - 1] = Space
      BY <1>2, <2>3
    <2>6. a # 2 * n - 1 => j[a + 1] = Space
      BY <1>2, <2>4
    <2>7. Len(j) = 2 * n - 1
      BY <1>1, <1>5, <2>1
    <2>8. \A i \in a .. a : j[i] # Space
      BY <2>1, <2>2
    <2>9. a <= a
      BY <2>1
    <2> QED
      BY <2>5, <2>6, <2>7, <2>8, <2>9
  <1>8. Words(j) = {SubSeq(j, r[1], r[2]) : r \in Runs}
    BY Zenon DEF Words
  <1>9. \A a \in DOMAIN j : SubSeq(j, a, a) = <<j[a]>>
    <2> TAKE a \in DOMAIN j
    <2>1. a \in 1 .. Len(j) /\ Len(j) \in Nat /\ j \in Seq(Atom)
      BY <1>4 DEF Text
    <2> DEFINE w == SubSeq(j, a, a)
    <2>2. w \in Seq(Atom) /\ Len(w) = 1 /\ w[1] = j[a]
      BY <2>1
    <2> HIDE DEF w
    <2>3. w = <<j[a]>>
      BY <2>2
    <2> QED
      BY <2>3 DEF w
  <1>10. \A r \in Runs : r[1] = r[2] /\ r[1] \in DOMAIN j /\ r[1] % 2 = 1
    BY <1>6
  <1>11. \A a \in DOMAIN j : a % 2 = 1 => <<a, a>> \in Runs
    BY <1>7
  <1> HIDE DEF Runs, Run
  <1>12. \A a \in DOMAIN j : a % 2 = 1 => (a + 1) \div 2 \in 1 .. n /\ j[a] = t[(a + 1) \div 2]
    BY <1>2, <1>3, <1>5
  <1>13. \A i \in 1 .. n : 2 * i - 1 \in DOMAIN j /\ (2 * i - 1) % 2 = 1 /\ ((2 * i - 1) + 1) \div 2 = i
    BY <1>1, <1>5
  <1>14. Words(j) \subseteq {<<t[i]>> : i \in 1 .. n}
    <2> SUFFICES ASSUME NEW r \in Runs PROVE SubSeq(j, r[1], r[2]) \in {<<t[i]>> : i \in 1 .. n}
      BY <1>8
    <2>1. SubSeq(j, r[1], r[2]) = <<j[r[1]]>>
      BY <1>9, <1>10
    <2>2. (r[1] + 1) \div 2 \in 1 .. n /\ j[r[1]] = t[(r[1] + 1) \div 2]
      BY <1>10, <1>12
    <2> QED
      BY <2>1, <2>2
  <1>15. {<<t[i]>> : i \in 1 .. n} \subseteq Words(j)
    <2> SUFFICES ASSUME NEW i \in 1 .. n PROVE <<t[i]>> \in Words(j)
      OBVIOUS
    <2> DEFINE a == 2 * i - 1
    <2>1. a \in DOMAIN j /\ a % 2 = 1 /\ (a + 1) \div 2 = i
      BY <1>13
    <2> HIDE DEF a
    <2>2. <<a, a>> \in Runs /\ SubSeq(j, a, a) = <<j[a]>> /\ j[a] = t[i]
      BY <1>9, <1>11, <1>12, <2>1
    <2>3. SubSeq(j, <<a, a>>[1], <<a, a>>[2]) = SubSeq(j, a, a)
      OBVIOUS
    <2> QED
      BY <1>8, <2>2, <2>3
  <1> QED
    BY <1>4, <1>14, <1>15 DEF n, j


(* The words of a comment are the names it was made of, all of them when   *)
(* they fit.                                                               *)
LEMMA CommentWords ==
    ASSUME NEW names, names \subseteq AllNames
    PROVE  /\ comment(names) \in Text
           /\ Words(comment(names)) \subseteq {<<n>> : n \in names}
           /\ names # {} => Words(comment(names)) # {}
           /\ Joined(Sorted(names)) <= MaxCommentLen => Words(comment(names)) = {<<n>> : n \in names}
  <1>1. PICK t \in NameSeq :
              /\ comment(names) = Join(t)
              /\ \A i \in 1 .. Len(t) : t[i] \in names
              /\ names # {} => Len(t) > 0
              /\ Joined(Sorted(names)) <= MaxCommentLen =>
                     \A x \in names : \E i \in 1 .. Len(t) : t[i] = x
    BY CommentIs
  <1>2. Join(t) \in Text /\ Words(Join(t)) = {<<t[i]>> : i \in 1 .. Len(t)}
    BY JoinWords
  <1>3. Len(t) \in Nat
    BY DEF NameSeq
  <1>4. Words(Join(t)) \subseteq {<<n>> : n \in names}
    BY <1>1, <1>2
  <1>5. names # {} => 1 \in 1 .. Len(t)
    BY <1>1, <1>3
  <1>6. names # {} => Words(Join(t)) # {}
    BY <1>2, <1>5
  <1>7. ASSUME Joined(Sorted(names)) <= MaxCommentLen
        PROVE  {<<n>> : n \in names} \subseteq Words(Join(t))
    <2>1. \A x \in names : \E i \in 1 .. Len(t) : t[i] = x
      BY <1>1, <1>7
    <2> QED
      BY <1>2, <2>1
  <1> QED
    BY <1>1, <1>2, <1>4, <1>6, <1>7

(* SetToSeq lists each element of a finite set once.                       *)
LEMMA SetToSeqIs ==
    ASSUME NEW S, IsFiniteSet(S)
    PROVE  /\ SetToSeq(S) \in Seq(S) /\ DOMAIN SetToSeq(S) = 1 .. Cardinality(S)
           /\ Cardinality(S) \in Nat
           /\ \A i, j \in 1 .. Cardinality(S) : SetToSeq(S)[i] = SetToSeq(S)[j] => i = j
           /\ \A x \in S : \E i \in 1 .. Cardinality(S) : SetToSeq(S)[i] = x
  <1> DEFINE n == Cardinality(S)
             f == CHOOSE g \in [1 .. Cardinality(S) -> S] : IsInjective(g)
  <1>1. n \in Nat /\ ExistsBijection(1 .. n, S)
    BY FS_CardinalityType
  <1>2. \E g \in [1 .. n -> S] : IsInjective(g)
    BY <1>1 DEF ExistsBijection, Bijection, Injection
  <1>3. f \in [1 .. n -> S] /\ IsInjective(f)
    BY <1>2, Zenon
  <1>4. SetToSeq(S) = f
    BY Zenon DEF SetToSeq
  <1> HIDE DEF f, n
  <1>5. f \in Injection(1 .. n, S)
    BY <1>3 DEF Injection
  <1>6. IsFiniteSet(1 .. n) /\ Cardinality(1 .. n) = n
    BY <1>1, FS_Interval
  <1>7. f \in Surjection(1 .. n, S)
    BY <1>5, <1>6, FS_Injection DEF n
  <1>8. \A x \in S : \E i \in 1 .. n : f[i] = x
    BY <1>7 DEF Surjection
  <1>9. \A i, j \in 1 .. n : f[i] = f[j] => i = j
    BY <1>3 DEF IsInjective
  <1>10. f \in Seq(S) /\ DOMAIN f = 1 .. n
    BY <1>1, <1>3
  <1> QED
    BY <1>1, <1>4, <1>8, <1>9, <1>10 DEF n

(* A map is written as one rule for each address, which carries its names. *)
LEMMA WrittenIs ==
    ASSUME NEW m, DOMAIN m \subseteq Destinations, \A a \in DOMAIN m : m[a] \subseteq AllNames
    PROVE  /\ render_restore(m) \in Seq(Rule)
           /\ \A i, j \in DOMAIN render_restore(m) :
                 render_restore(m)[i].dst = render_restore(m)[j].dst => i = j
           /\ \A i \in DOMAIN render_restore(m) :
                 /\ render_restore(m)[i].dst \in DOMAIN m
                 /\ RuleNames(render_restore(m)[i]) = Words(comment(m[render_restore(m)[i].dst]))
           /\ \A a \in DOMAIN m : \E i \in DOMAIN render_restore(m) : render_restore(m)[i].dst = a
  <1> DEFINE S == DOMAIN m  ips == SetToSeq(S)  n == Cardinality(S)  rs == render_restore(m)
  <1>1. IsFiniteSet(S)
    BY NamesAssumption, FS_Subset
  <1>2. /\ ips \in Seq(S) /\ DOMAIN ips = 1 .. n /\ n \in Nat
        /\ \A i, j \in 1 .. n : ips[i] = ips[j] => i = j
        /\ \A x \in S : \E i \in 1 .. n : ips[i] = x
    BY <1>1, SetToSeqIs
  <1>3. rs = [i \in DOMAIN ips |-> [dst |-> ips[i], comments |-> <<comment(m[ips[i]])>>]]
    BY Zenon DEF render_restore
  <1> HIDE DEF rs, ips, n
  <1>4. DOMAIN rs = 1 .. n
    BY <1>2, <1>3
  <1>5. \A i \in 1 .. n : ips[i] \in S
    BY <1>2
  <1>6. \A i \in 1 .. n : rs[i] = [dst |-> ips[i], comments |-> <<comment(m[ips[i]])>>]
    BY <1>2, <1>3
  <1>7. \A i \in 1 .. n : rs[i].dst = ips[i] /\ rs[i].comments = <<comment(m[ips[i]])>>
    <2> DEFINE C(i) == <<comment(m[ips[i]])>>
    <2>1. \A i \in 1 .. n : rs[i] = [dst |-> ips[i], comments |-> C(i)]
      BY <1>6
    <2> HIDE DEF C
    <2>2. \A i \in 1 .. n : rs[i].dst = ips[i] /\ rs[i].comments = C(i)
      <3> TAKE i \in 1 .. n
      <3> DEFINE a == ips[i]  c == C(i)
      <3>1. rs[i] = [dst |-> a, comments |-> c]
        BY <2>1
      <3> HIDE DEF a, c
      <3>2. [dst |-> a, comments |-> c].dst = a /\ [dst |-> a, comments |-> c].comments = c
        OBVIOUS
      <3>3. rs[i].dst = a /\ rs[i].comments = c
        BY <3>1, <3>2
      <3> QED
        BY <3>3 DEF a, c
    <2> QED
      BY <2>2 DEF C
  <1>8. \A i \in 1 .. n : comment(m[ips[i]]) \in Text
    <2>1. \A names : names \subseteq AllNames => comment(names) \in Text
      BY CommentWords
    <2> QED
      BY <1>5, <2>1
  <1>9. \A x \in Text : <<x>> \in Seq(Text)
    OBVIOUS
  <1>10. \A i \in 1 .. n : rs[i] \in Rule
    <2> TAKE i \in 1 .. n
    <2> DEFINE a == ips[i]  c == <<comment(m[ips[i]])>>
    <2>1. a \in Destinations /\ c \in Seq(Text)
      BY <1>5, <1>8, <1>9
    <2>2. rs[i] = [dst |-> a, comments |-> c]
      BY <1>6
    <2> HIDE DEF a, c
    <2> QED
      BY <2>1, <2>2 DEF Rule
  <1>11. rs \in Seq(Rule)
    <2> DEFINE R(i) == [dst |-> ips[i], comments |-> <<comment(m[ips[i]])>>]
    <2>1. rs = [i \in 1 .. n |-> R(i)] /\ \A i \in 1 .. n : rs[i] = R(i)
      BY <1>2, <1>3, <1>6
    <2> HIDE DEF R
    <2>2. rs \in [1 .. n -> Rule]
      BY <1>10, <2>1
    <2> QED
      BY <1>2, <2>2
  <1>12. \A i \in 1 .. n : RuleNames(rs[i]) = Words(comment(m[ips[i]]))
    <2> TAKE i \in 1 .. n
    <2> DEFINE c == comment(m[ips[i]])
    <2>1. rs[i].comments = <<c>>
      BY <1>7
    <2> HIDE DEF c
    <2>2. {Words(<<c>>[k]) : k \in DOMAIN <<c>>} = {Words(c)}
      OBVIOUS
    <2>3. RuleNames(rs[i]) = UNION {Words(c)}
      BY <2>1, <2>2 DEF RuleNames
    <2> QED
      BY <2>3 DEF c
  <1> QED
    BY <1>2, <1>4, <1>5, <1>7, <1>11, <1>12 DEF rs


-----------------------------------------------------------------------------
(* The invariant.                                                          *)

(* The names that were accepted fit one comment.                           *)
NamesFit == endpoints \subseteq AllNames /\ Joined(Sorted(endpoints)) <= MaxCommentLen

(* A plan maps addresses to names, of endpoints in the production chain.   *)
PlanType == /\ \A c \in Chains : /\ DOMAIN plan[c] \subseteq Destinations
                                 /\ \A a \in DOMAIN plan[c] : plan[c][a] \subseteq AllNames
            /\ \A a \in DOMAIN plan[Production] : plan[Production][a] \subseteq endpoints

(* Until others add a rule, a chain is what was rendered from its plan.    *)
AsPlanned == added = 0 => \A c \in Chains : chains[c] = render_restore(plan[c])

ChainInv == /\ NamesFit
            /\ PlanType
            /\ added \in Nat
            /\ chains \in [Chains -> Seq(Rule)]
            /\ AsPlanned

(* An empty map is an empty chain.                                         *)
LEMMA EmptyRestore == render_restore([a \in {} |-> {}]) = <<>>
  <1> DEFINE m == [a \in {} |-> {}]  rs == render_restore(m)
  <1>1. DOMAIN m = {}
    OBVIOUS
  <1> HIDE DEF m
  <1>2. rs \in Seq(Rule) /\ \A i \in DOMAIN rs : rs[i].dst \in DOMAIN m
    BY <1>1, WrittenIs
  <1> HIDE DEF rs
  <1>3. DOMAIN rs = 1 .. Len(rs) /\ Len(rs) \in Nat
    BY <1>2
  <1>4. Len(rs) = 0
    <2>1. Len(rs) # 0 => 1 \in DOMAIN rs
      BY <1>3
    <2> QED
      BY <1>1, <1>2, <2>1
  <1>5. rs = <<>>
    BY <1>2, <1>4
  <1> QED
    BY <1>5 DEF rs, m

(* It holds initially.                                                     *)
LEMMA ChainInitInv == ChainInit => ChainInv
  <1> SUFFICES ASSUME ChainInit PROVE ChainInv
    OBVIOUS
  <1>1. NamesFit
    <2>1. endpoints \subseteq AllNames /\ Accepts(endpoints)
      BY DEF ChainInit
    <2> QED
      BY <2>1 DEF NamesFit, Accepts
  <1>2. added = 0 /\ \A c \in Chains : chains[c] = <<>> /\ plan[c] = [a \in {} |-> {}]
    BY DEF ChainInit
  <1>3. Production \in Chains
    BY DEF Chains
  <1>4. PlanType
    BY <1>2, <1>3 DEF PlanType
  <1>5. chains \in [Chains -> Seq(Rule)]
    BY DEF ChainInit
  <1>6. AsPlanned
    BY <1>2, EmptyRestore DEF AsPlanned
  <1> QED
    BY <1>1, <1>2, <1>4, <1>5, <1>6 DEF ChainInv

(* What others add is a rule like any other.                               *)
LEMMA ForeignIsRule == ForeignRules \subseteq Rule
  <1>1. Atoms \subseteq Atom
    BY DEF Atom
  <1>2. Seq(Atoms) \subseteq Text
    BY <1>1 DEF Text
  <1>3. Seq(Seq(Atoms)) \subseteq Seq(Text)
    BY <1>2
  <1> QED
    BY <1>3, ForeignAssumption DEF Rule

(* The seen set that is written maps addresses to names, and holds the     *)
(* addresses that were read and those that are allowed.                    *)
LEMMA MergedIs ==
    ASSUME NamesFit, chains \in [Chains -> Seq(Rule)], NEW p \in Allowed, NEW quoted \in BOOLEAN
    PROVE  /\ DOMAIN p \subseteq Destinations
           /\ \A a \in DOMAIN p : p[a] \subseteq endpoints
           /\ DOMAIN Merged(p, quoted) \subseteq Destinations
           /\ \A a \in DOMAIN Merged(p, quoted) : Merged(p, quoted)[a] \subseteq AllNames
           /\ \A i \in DOMAIN chains[Maintenance] :
                 chains[Maintenance][i].dst # NoDestination =>
                     chains[Maintenance][i].dst \in DOMAIN Merged(p, quoted)
  <1> DEFINE seen == Map(Maintenance, quoted)
  <1>1. Maintenance \in Chains /\ chains[Maintenance] \in Seq(Rule)
    BY DEF Chains
  <1>2. DOMAIN seen = {chains[Maintenance][i].dst : i \in WithDst(chains[Maintenance])}
    BY <1>1, ReadIs
  <1>3. Merged(p, quoted) = [a \in DOMAIN seen \cup DOMAIN p |->
            (IF a \in DOMAIN seen THEN NamesIn(seen[a]) ELSE {})
            \cup (IF a \in DOMAIN p THEN p[a] ELSE {})]
    BY Zenon DEF Merged, Map
  <1> HIDE DEF seen
  <1>4. DOMAIN p \subseteq Destinations /\ \A a \in DOMAIN p : p[a] \subseteq endpoints
    BY DEF Allowed
  <1>5. \A i \in WithDst(chains[Maintenance]) : chains[Maintenance][i].dst \in Destinations
    <2> DEFINE rs == chains[Maintenance]
    <2>1. rs \in Seq(Rule)
      BY <1>1
    <2> HIDE DEF rs
    <2>2. \A i \in WithDst(rs) : rs[i] \in Rule /\ rs[i].dst # NoDestination
      BY <2>1 DEF WithDst
    <2>3. \A r \in Rule : r.dst \in Destinations \cup {NoDestination}
      BY DEF Rule
    <2>4. \A i \in WithDst(rs) : rs[i].dst \in Destinations
      BY <2>2, <2>3
    <2> QED
      BY <2>4 DEF rs
  <1>6. \A a : NamesIn(seen[a]) \subseteq AllNames
    BY DEF NamesIn
  <1>7. endpoints \subseteq AllNames
    BY DEF NamesFit
  <1>8. DOMAIN Merged(p, quoted) = DOMAIN seen \cup DOMAIN p
    BY <1>3
  <1>9. \A a \in DOMAIN Merged(p, quoted) : Merged(p, quoted)[a] \subseteq AllNames
    BY <1>3, <1>4, <1>6, <1>7, <1>8
  <1>10. \A i \in DOMAIN chains[Maintenance] :
            chains[Maintenance][i].dst # NoDestination => i \in WithDst(chains[Maintenance])
    BY <1>1 DEF WithDst
  <1> QED
    BY <1>2, <1>4, <1>5, <1>8, <1>9, <1>10

(* A restore keeps it, whatever was in the chains.                         *)
LEMMA RestoreInv ==
    ASSUME ChainInv, Restore
    PROVE  ChainInv'
  <1> USE DEF ChainInv
  <1>1. PICK p \in Allowed, quoted \in BOOLEAN :
            /\ plan' = [c \in Chains |-> IF c = Production THEN p ELSE Merged(p, quoted)]
            /\ chains' = [c \in Chains |-> render_restore(plan'[c])]
            /\ added' = 0
            /\ UNCHANGED endpoints
    BY DEF Restore
  <1>2. /\ DOMAIN p \subseteq Destinations
        /\ \A a \in DOMAIN p : p[a] \subseteq endpoints
        /\ DOMAIN Merged(p, quoted) \subseteq Destinations
        /\ \A a \in DOMAIN Merged(p, quoted) : Merged(p, quoted)[a] \subseteq AllNames
    BY MergedIs
  <1>3. Production \in Chains /\ endpoints \subseteq AllNames
    BY DEF Chains, NamesFit
  <1>4. NamesFit'
    BY <1>1 DEF NamesFit
  <1>5. PlanType'
    BY <1>1, <1>2, <1>3 DEF PlanType
  <1>6. \A c \in Chains : render_restore(plan'[c]) \in Seq(Rule)
    <2> TAKE c \in Chains
    <2> DEFINE m == plan'[c]
    <2>1. DOMAIN m \subseteq Destinations /\ \A a \in DOMAIN m : m[a] \subseteq AllNames
      BY <1>5 DEF PlanType
    <2> HIDE DEF m
    <2>2. render_restore(m) \in Seq(Rule)
      BY <2>1, WrittenIs
    <2> QED
      BY <2>2 DEF m
  <1>7. (chains \in [Chains -> Seq(Rule)])'
    BY <1>1, <1>6
  <1>8. AsPlanned'
    BY <1>1 DEF AsPlanned
  <1> QED
    BY <1>1, <1>4, <1>5, <1>7, <1>8

(* So does a rule that others add.                                         *)
LEMMA ForeignInv ==
    ASSUME ChainInv, Foreign
    PROVE  ChainInv'
  <1> USE DEF ChainInv
  <1>0. PICK c \in Chains :
            \E r \in ForeignRules \cup {chains[c][i] : i \in DOMAIN chains[c]} :
                chains' = [chains EXCEPT ![c] = Append(@, r)]
    BY DEF Foreign
  <1>1. PICK r \in ForeignRules \cup {chains[c][i] : i \in DOMAIN chains[c]} :
            chains' = [chains EXCEPT ![c] = Append(@, r)]
    BY <1>0
  <1>2. added' = added + 1 /\ UNCHANGED <<endpoints, plan>>
    BY DEF Foreign
  <1>3. r \in Rule
    BY <1>1, ForeignIsRule
  <1>4. (chains \in [Chains -> Seq(Rule)])'
    BY <1>1, <1>3
  <1>5. NamesFit' /\ PlanType'
    BY <1>2 DEF NamesFit, PlanType
  <1>6. AsPlanned'
    BY <1>2 DEF AsPlanned
  <1> QED
    BY <1>2, <1>4, <1>5, <1>6

(* The chains hold rules, and until others add to them exactly those of    *)
(* the plan that was written last.                                         *)
THEOREM ChainInvThm == ChainSpec => []ChainInv
  <1>1. ChainInv /\ [ChainNext]_chainVars => ChainInv'
    <2> SUFFICES ASSUME ChainInv, [ChainNext]_chainVars PROVE ChainInv'
      OBVIOUS
    <2>1. CASE Restore
      BY <2>1, RestoreInv
    <2>2. CASE Foreign
      BY <2>2, ForeignInv
    <2>3. CASE UNCHANGED chainVars
      BY <2>3 DEF chainVars, ChainInv, NamesFit, PlanType, AsPlanned
    <2> QED
      BY <2>1, <2>2, <2>3 DEF ChainNext
  <1> QED
    BY <1>1, ChainInitInv, PTL DEF ChainSpec


-----------------------------------------------------------------------------
(* The properties.                                                         *)

(* A chain is found dirty exactly when it holds a rule without destination *)
(* or two rules for an address, whatever others add.                       *)
THEOREM DirtyIsExactThm == ChainSpec => []DirtyIsExact
  <1>1. ChainInv => DirtyIsExact
    <2> SUFFICES ASSUME ChainInv, NEW c \in Chains, NEW quoted \in BOOLEAN
                 PROVE  is_dirty(read_chain(c, quoted)) <=>
                            \/ \E i \in DOMAIN chains[c] : chains[c][i].dst = NoDestination
                            \/ \E i, j \in DOMAIN chains[c] : i # j /\ chains[c][i].dst = chains[c][j].dst
      BY DEF DirtyIsExact
    <2>1. chains[c] \in Seq(Rule)
      BY DEF ChainInv
    <2> QED
      BY <2>1, DirtyIs
  <1> QED
    BY <1>1, ChainInvThm, PTL

(* What is read from a chain that was written from m and left alone.       *)
LEMMA WrittenRead ==
    ASSUME NEW c \in Chains, NEW quoted \in BOOLEAN, NEW m, chains[c] = render_restore(m),
           DOMAIN m \subseteq Destinations, \A a \in DOMAIN m : m[a] \subseteq AllNames
    PROVE  /\ ~ is_dirty(read_chain(c, quoted))
           /\ DOMAIN Map(c, quoted) = DOMAIN m
           /\ \A a \in DOMAIN m : Map(c, quoted)[a] = Words(comment(m[a]))
  <1> DEFINE rs == chains[c]
  <1>1. /\ rs \in Seq(Rule)
        /\ \A i, j \in DOMAIN rs : rs[i].dst = rs[j].dst => i = j
        /\ \A i \in DOMAIN rs : /\ rs[i].dst \in DOMAIN m
                                /\ RuleNames(rs[i]) = Words(comment(m[rs[i].dst]))
        /\ \A a \in DOMAIN m : \E i \in DOMAIN rs : rs[i].dst = a
    BY WrittenIs
  <1>2. NoDestination \notin DOMAIN m
    BY NamesAssumption
  <1>3. is_dirty(read_chain(c, quoted)) <=>
               \/ \E i \in DOMAIN rs : rs[i].dst = NoDestination
               \/ \E i, j \in DOMAIN rs : i # j /\ rs[i].dst = rs[j].dst
    BY <1>1, DirtyIs
  <1>4. /\ DOMAIN Map(c, quoted) = {rs[i].dst : i \in WithDst(rs)}
        /\ \A a \in DOMAIN Map(c, quoted) :
              Map(c, quoted)[a] = UNION {RuleNames(rs[i]) : i \in {j \in WithDst(rs) : rs[j].dst = a}}
    BY <1>1, ReadIs
  <1> HIDE DEF rs
  <1>5. WithDst(rs) = DOMAIN rs
    <2>1. DOMAIN rs = 1 .. Len(rs)
      BY <1>1
    <2> QED
      BY <1>1, <1>2, <2>1 DEF WithDst
  <1>6. ~ is_dirty(read_chain(c, quoted))
    BY <1>1, <1>2, <1>3
  <1>7. DOMAIN Map(c, quoted) = DOMAIN m
    <2>1. DOMAIN Map(c, quoted) = {rs[i].dst : i \in DOMAIN rs}
      BY <1>4, <1>5
    <2>2. {rs[i].dst : i \in DOMAIN rs} = DOMAIN m
      <3>1. \A i \in DOMAIN rs : rs[i].dst \in DOMAIN m
        BY <1>1
      <3>2. \A a \in DOMAIN m : \E i \in DOMAIN rs : rs[i].dst = a
        BY <1>1
      <3> QED
        BY <3>1, <3>2
    <2> QED
      BY <2>1, <2>2
  <1>8. ASSUME NEW a \in DOMAIN m PROVE Map(c, quoted)[a] = Words(comment(m[a]))
    <2>1. PICK i \in DOMAIN rs : rs[i].dst = a
      BY <1>1
    <2>2. {j \in DOMAIN rs : rs[j].dst = a} = {i}
      BY <1>1, <2>1
    <2>3. Map(c, quoted)[a] = UNION {RuleNames(rs[k]) : k \in {i}}
      BY <1>4, <1>5, <1>7, <2>2
    <2>4. Map(c, quoted)[a] = RuleNames(rs[i])
      BY <2>3
    <2> QED
      BY <1>1, <2>1, <2>4
  <1> QED
    BY <1>6, <1>7, <1>8

(* Reading back what was written gives the plan, for the production chain  *)
(* name for name; no name is ever cut off a production comment.            *)
THEOREM ReadBackThm == ChainSpec => []ReadBack
  <1>1. ChainInv => ReadBack
    <2> SUFFICES ASSUME ChainInv, added = 0, NEW c \in Chains, NEW quoted \in BOOLEAN
                 PROVE  /\ ~is_dirty(read_chain(c, quoted))
                        /\ DOMAIN Map(c, quoted) = DOMAIN plan[c]
                        /\ \A a \in DOMAIN plan[c] :
                              LET names == {<<n>> : n \in plan[c][a]}
                              IN  IF c = Production THEN Map(c, quoted)[a] = names
                                  ELSE /\ Map(c, quoted)[a] \subseteq names
                                       /\ names # {} => Map(c, quoted)[a] # {}
      BY DEF ReadBack
    <2> USE DEF ChainInv
    <2> DEFINE m == plan[c]
    <2>1. /\ chains[c] = render_restore(m)
          /\ DOMAIN m \subseteq Destinations /\ \A a \in DOMAIN m : m[a] \subseteq AllNames
      BY DEF AsPlanned, PlanType
    <2>2. c = Production => \A a \in DOMAIN m : m[a] \subseteq endpoints
      BY DEF PlanType
    <2> HIDE DEF m
    <2>3. /\ ~ is_dirty(read_chain(c, quoted))
          /\ DOMAIN Map(c, quoted) = DOMAIN m
          /\ \A a \in DOMAIN m : Map(c, quoted)[a] = Words(comment(m[a]))
      BY <2>1, WrittenRead
    <2>4. ASSUME NEW a \in DOMAIN m
          PROVE  /\ Map(c, quoted)[a] \subseteq {<<n>> : n \in m[a]}
                 /\ m[a] # {} => Map(c, quoted)[a] # {}
                 /\ c = Production => Map(c, quoted)[a] = {<<n>> : n \in m[a]}
      <3> DEFINE names == m[a]
      <3>1. names \subseteq AllNames /\ Map(c, quoted)[a] = Words(comment(names))
        BY <2>1, <2>3, <2>4
      <3>2. c = Production => names \subseteq endpoints
        BY <2>2, <2>4
      <3> HIDE DEF names
      <3>3. /\ Words(comment(names)) \subseteq {<<n>> : n \in names}
            /\ names # {} => Words(comment(names)) # {}
            /\ Joined(Sorted(names)) <= MaxCommentLen => Words(comment(names)) = {<<n>> : n \in names}
        BY <3>1, CommentWords
      <3>4. c = Production => Joined(Sorted(names)) <= MaxCommentLen
        <4> SUFFICES ASSUME c = Production PROVE Joined(Sorted(names)) <= MaxCommentLen
          OBVIOUS
        <4>1. /\ Joined(Sorted(names)) \in Nat /\ Joined(Sorted(endpoints)) \in Nat
              /\ Joined(Sorted(names)) <= Joined(Sorted(endpoints))
          BY <3>2, FewerFit DEF NamesFit
        <4> QED
          BY <4>1, NamesAssumption DEF NamesFit
      <3> QED
        BY <3>1, <3>3, <3>4 DEF names
    <2>5. \A a : {<<n>> : n \in m[a]} # {} => m[a] # {}
      OBVIOUS
    <2> QED
      BY <2>3, <2>4, <2>5 DEF m
  <1> QED
    BY <1>1, ChainInvThm, PTL

(* The seen set never loses an address on its way through text and back.   *)
THEOREM SeenAddressesStayThm == ChainSpec => SeenAddressesStay
  <1> DEFINE Kept == \A i \in DOMAIN chains[Maintenance] :
                        chains[Maintenance][i].dst = NoDestination
                        \/ \E j \in DOMAIN chains'[Maintenance] :
                              chains'[Maintenance][j].dst = chains[Maintenance][i].dst
  <1>1. ChainInv /\ [ChainNext]_chainVars => Kept
    <2> SUFFICES ASSUME ChainInv, [ChainNext]_chainVars PROVE Kept
      OBVIOUS
    <2> USE DEF ChainInv
    <2>0. Maintenance \in Chains /\ Maintenance # Production /\ chains[Maintenance] \in Seq(Rule)
      BY DEF Chains, Maintenance, Production
    <2>1. CASE Restore
      <3>1. PICK p \in Allowed, quoted \in BOOLEAN :
                /\ plan' = [c \in Chains |-> IF c = Production THEN p ELSE Merged(p, quoted)]
                /\ chains' = [c \in Chains |-> render_restore(plan'[c])]
        BY <2>1 DEF Restore
      <3> DEFINE m == Merged(p, quoted)
      <3>2. chains'[Maintenance] = render_restore(m)
        BY <2>0, <3>1
      <3>3. /\ DOMAIN m \subseteq Destinations
            /\ \A a \in DOMAIN m : m[a] \subseteq AllNames
            /\ \A i \in DOMAIN chains[Maintenance] :
                 chains[Maintenance][i].dst # NoDestination =>
                     chains[Maintenance][i].dst \in DOMAIN m
        BY MergedIs
      <3> HIDE DEF m
      <3>4. \A a \in DOMAIN m : \E j \in DOMAIN chains'[Maintenance] : chains'[Maintenance][j].dst = a
        BY <3>2, <3>3, WrittenIs
      <3> QED
        BY <3>3, <3>4
    <2>2. CASE Foreign
      <3>1. PICK c \in Chains :
                \E r \in ForeignRules \cup {chains[c][i] : i \in DOMAIN chains[c]} :
                    chains' = [chains EXCEPT ![c] = Append(@, r)]
        BY <2>2 DEF Foreign
      <3>2. PICK r \in ForeignRules \cup {chains[c][i] : i \in DOMAIN chains[c]} :
                chains' = [chains EXCEPT ![c] = Append(@, r)]
        BY <3>1
      <3>3. r \in Rule
        BY <3>2, ForeignIsRule
      <3> DEFINE w == Append(chains[Maintenance], r)
      <3>4. chains'[Maintenance] \in {chains[Maintenance], w}
        BY <2>0, <3>2
      <3>5. \A i \in DOMAIN chains[Maintenance] : i \in DOMAIN w /\ w[i] = chains[Maintenance][i]
        BY <2>0, <3>3
      <3> HIDE DEF w
      <3> QED
        BY <3>4, <3>5
    <2>3. CASE UNCHANGED chainVars
      BY <2>3 DEF chainVars
    <2> QED
      BY <2>1, <2>2, <2>3 DEF ChainNext
  <1>2. ChainSpec => [][Kept]_chainVars
    BY <1>1, ChainInvThm, PTL DEF ChainSpec
  <1> QED
    BY <1>2 DEF SeenAddressesStay

-----------------------------------------------------------------------------
(* Host names.                                                             *)

(* The dots of a name and its two ends.                                    *)
Dots(s) == {k \in DOMAIN s : s[k] = Dot} \cup {0, Len(s) + 1}

(* Two dots with none between them: a label lies there.                    *)
Bounds(s, a, b) == /\ a \in Dots(s) /\ b \in Dots(s) /\ a < b
                   /\ \A k \in Dots(s) : k <= a \/ k >= b

LabelAt(s, a, b) == SubSeq(s, a + 1, b - 1)

(* The labels are what lies between two neighbouring dots.                 *)
LEMMA LabelsByBounds ==
    ASSUME NEW s \in Seq(Chars)
    PROVE  (\A l \in Labels(s) : is_label(l))
              <=> \A a, b \in Dots(s) : Bounds(s, a, b) => is_label(LabelAt(s, a, b))
  <1> DEFINE D == Dots(s)
             Pairs == {x \in D \X D : x[1] < x[2] /\ \A k \in D : k <= x[1] \/ k >= x[2]}
             ls == {SubSeq(s, r[1] + 1, r[2] - 1) : r \in Pairs}
  <1>1. Labels(s) = ls
    BY DEF Labels, Dots
  <1>2. \A a, b \in D : Bounds(s, a, b) <=> <<a, b>> \in Pairs
    BY DEF Bounds
  <1>3. \A r \in Pairs : r = <<r[1], r[2]>> /\ r[1] \in D /\ r[2] \in D
    OBVIOUS
  <1> HIDE DEF D, Pairs
  <1>4. \A l : l \in ls <=> \E r \in Pairs : l = LabelAt(s, r[1], r[2])
    BY DEF LabelAt
  <1>5. \A a, b \in D : <<a, b>>[1] = a /\ <<a, b>>[2] = b
    OBVIOUS
  <1>6. \A a, b \in D : Bounds(s, a, b) => LabelAt(s, a, b) \in ls
    BY <1>2, <1>4, <1>5
  <1>7. \A l \in ls : \E a, b \in D : Bounds(s, a, b) /\ l = LabelAt(s, a, b)
    BY <1>2, <1>3, <1>4
  <1> HIDE DEF ls
  <1> QED
    BY <1>1, <1>6, <1>7, Zenon DEF D

(* What a label between two dots is, by the characters of the name.        *)
LEMMA LabelByCharacters ==
    ASSUME NEW s \in Seq(Chars), NEW a \in Dots(s), NEW b \in Dots(s), Bounds(s, a, b)
    PROVE  /\ a \in 0 .. Len(s) /\ b \in 1 .. Len(s) + 1
           /\ a # 0 => s[a] = Dot
           /\ b # Len(s) + 1 => s[b] = Dot
           /\ \A k \in a + 1 .. b - 1 : k \in DOMAIN s /\ s[k] # Dot
           /\ is_label(LabelAt(s, a, b)) <=>
                 /\ a + 1 < b /\ b - a - 1 <= MaxLabel
                 /\ s[a + 1] # Hyphen /\ s[b - 1] # Hyphen
                 /\ \A k \in a + 1 .. b - 1 : s[k] \in {Lower, Upper, Hyphen}
  <1> DEFINE l == LabelAt(s, a, b)
  <1>1. /\ Len(s) \in Nat /\ DOMAIN s = 1 .. Len(s)
        /\ Dots(s) \subseteq 0 .. Len(s) + 1
    BY DEF Dots
  <1>2. a \in 0 .. Len(s) /\ b \in 1 .. Len(s) + 1 /\ a < b
    BY <1>1 DEF Bounds
  <1>3. (a # 0 => s[a] = Dot) /\ (b # Len(s) + 1 => s[b] = Dot)
    BY <1>1, <1>2 DEF Dots
  <1>4. ASSUME NEW k \in a + 1 .. b - 1 PROVE k \in DOMAIN s /\ s[k] # Dot
    <2>1. k \in DOMAIN s
      BY <1>1, <1>2
    <2>2. k \notin Dots(s)
      BY <1>2 DEF Bounds
    <2> QED
      BY <2>1, <2>2 DEF Dots
  <1>5. /\ l \in Seq(Chars) /\ Len(l) = b - a - 1
        /\ \A i \in 1 .. b - a - 1 : l[i] = s[a + i]
    BY <1>1, <1>2 DEF LabelAt
  <1>6. l # <<>> <=> a + 1 < b
    BY <1>2, <1>5
  <1>7. a + 1 < b => l[1] = s[a + 1] /\ l[Len(l)] = s[b - 1]
    <2>1. a + 1 < b => 1 \in 1 .. b - a - 1 /\ b - a - 1 \in 1 .. b - a - 1 /\ a + (b - a - 1) = b - 1
      BY <1>2
    <2> QED
      BY <1>5, <2>1
  <1>8. (\A k \in DOMAIN l : l[k] \in {Lower, Upper, Hyphen})
           <=> \A k \in a + 1 .. b - 1 : s[k] \in {Lower, Upper, Hyphen}
    <2> DEFINE Ok(ch) == ch \in {Lower, Upper, Hyphen}
    <2>1. DOMAIN l = 1 .. b - a - 1
      BY <1>5
    <2>2. \A k \in a + 1 .. b - 1 : k - a \in 1 .. b - a - 1 /\ a + (k - a) = k
      BY <1>2
    <2>3. \A i \in 1 .. b - a - 1 : a + i \in a + 1 .. b - 1
      BY <1>2
    <2> HIDE DEF Ok, l
    <2>4. (\A i \in 1 .. b - a - 1 : Ok(l[i])) <=> \A k \in a + 1 .. b - 1 : Ok(s[k])
      BY <1>5, <2>2, <2>3
    <2> QED
      BY <2>1, <2>4 DEF Ok
  <1>9. is_label(l) <=> /\ a + 1 < b /\ b - a - 1 <= MaxLabel
                        /\ s[a + 1] # Hyphen /\ s[b - 1] # Hyphen
                        /\ \A k \in a + 1 .. b - 1 : s[k] \in {Lower, Upper, Hyphen}
    <2> HIDE DEF l
    <2> QED
      BY <1>5, <1>6, <1>7, <1>8 DEF is_label
  <1> QED
    BY <1>2, <1>3, <1>4, <1>9

(* Every place of a name but its dots lies between two of them.            *)
LEMMA BoundsAround ==
    ASSUME NEW s \in Seq(Chars), NEW i \in 0 .. Len(s), NEW j \in 1 .. Len(s) + 1, i < j,
           \A k \in Dots(s) : k <= i \/ k >= j
    PROVE  \E a, b \in Dots(s) : Bounds(s, a, b) /\ a <= i /\ b >= j
  <1> DEFINE before == {k \in Dots(s) : k <= i}
             after == {k \in Dots(s) : k >= j}
  <1>1. Len(s) \in Nat /\ Dots(s) \subseteq 0 .. Len(s) + 1 /\ 0 \in Dots(s) /\ Len(s) + 1 \in Dots(s)
    BY DEF Dots
  <1>2. /\ before \subseteq 0 .. Len(s) + 1 /\ 0 \in before
        /\ after \subseteq Nat /\ Len(s) + 1 \in after
    BY <1>1
  <1> HIDE DEF before, after
  <1>3. PICK a \in before : \A k \in before : k <= a
    <2>1. Len(s) + 1 \in Nat /\ before # {}
      BY <1>1, <1>2
    <2> QED
      BY <1>2, <2>1, GreatestNatural
  <1>4. PICK b \in after : \A k \in after : b <= k
    <2>1. after # {}
      BY <1>2
    <2> QED
      BY <1>2, <2>1, LeastNatural
  <1> USE DEF before, after
  <1>5. a \in Dots(s) /\ b \in Dots(s) /\ a <= i /\ b >= j /\ a < b
    BY <1>1, <1>3, <1>4
  <1>6. \A k \in Dots(s) : k <= a \/ k >= b
    BY <1>3, <1>4
  <1> QED
    BY <1>5, <1>6 DEF Bounds

(* Label by label or character by character, the language is the same.     *)
LEMMA SameLanguage ==
    ASSUME NEW s \in Seq(Chars)
    PROVE  is_hostname(s) <=> Hostname(s)
  <1> DEFINE n == Len(s)
             Good(a, b) == is_label(LabelAt(s, a, b))
  <1>0. n \in Nat /\ DOMAIN s = 1 .. n /\ MaxLabel \in Nat /\ MaxName \in Nat
    BY LimitsAssumption
  <1>1. \A ch \in Chars : /\ ch \in Alphanumeric <=> ch \in {Lower, Upper}
                          /\ ch \in {Lower, Upper, Hyphen} => ch # Dot
                          /\ ch \in {Lower, Upper, Hyphen} /\ ch # Hyphen => ch \in Alphanumeric
                          /\ ch \in Alphanumeric => ch # Dot /\ ch # Hyphen
    BY DEF Chars, Alphanumeric, Lower, Upper, Hyphen, Dot, Blank
  <1>2. \A k \in 1 .. n : s[k] \in Chars
    BY <1>0
  <1>3. \A k \in 1 .. n : k \in Dots(s) <=> s[k] = Dot
    BY <1>0 DEF Dots
  <1>4. 0 \in Dots(s) /\ n + 1 \in Dots(s) /\ Dots(s) \subseteq 0 .. n + 1
    BY <1>0 DEF Dots
  <1>5. ASSUME is_hostname(s) PROVE Hostname(s)
    <2>1. n \in 1 .. MaxName /\ \A a, b \in Dots(s) : Bounds(s, a, b) => Good(a, b)
      BY <1>0, <1>5, LabelsByBounds DEF is_hostname
    <2>2. ASSUME NEW i \in 0 .. n, NEW j \in 1 .. n + 1, i < j, \A k \in Dots(s) : k <= i \/ k >= j
          PROVE  \E a, b \in Dots(s) :
                    /\ a \in 0 .. i /\ b \in j .. n + 1
                    /\ a + 1 < b /\ b - a - 1 <= MaxLabel
                    /\ b # n + 1 => s[b] = Dot
                    /\ s[a + 1] \in Alphanumeric /\ s[b - 1] \in Alphanumeric
                    /\ \A k \in a + 1 .. b - 1 : s[k] \in {Lower, Upper, Hyphen}
      <3>1. PICK a, b \in Dots(s) : Bounds(s, a, b) /\ a <= i /\ b >= j
        BY <2>2, BoundsAround
      <3>2. /\ a \in 0 .. n /\ b \in 1 .. n + 1
            /\ b # n + 1 => s[b] = Dot
            /\ a + 1 < b /\ b - a - 1 <= MaxLabel
            /\ s[a + 1] # Hyphen /\ s[b - 1] # Hyphen
            /\ \A k \in a + 1 .. b - 1 : s[k] \in {Lower, Upper, Hyphen}
        BY <2>1, <3>1, LabelByCharacters
      <3>3. a + 1 \in 1 .. n /\ b - 1 \in 1 .. n /\ a + 1 \in a + 1 .. b - 1 /\ b - 1 \in a + 1 .. b - 1
        BY <3>2
      <3>4. s[a + 1] \in Alphanumeric /\ s[b - 1] \in Alphanumeric
        BY <1>1, <1>2, <3>2, <3>3
      <3> QED
        BY <1>4, <3>1, <3>2, <3>4
    <2>3. ASSUME NEW k \in Dots(s), k <= n PROVE s[k + 1] \in Alphanumeric
      <3>1. k \in 0 .. n /\ k + 1 \in 1 .. n + 1 /\ k < k + 1 /\ \A x \in Dots(s) : x <= k \/ x >= k + 1
        BY <1>0, <1>4, <2>3
      <3>2. PICK a, b \in Dots(s) :
                /\ a \in 0 .. k /\ b \in k + 1 .. n + 1 /\ a + 1 < b
                /\ s[a + 1] \in Alphanumeric
                /\ \A x \in a + 1 .. b - 1 : s[x] \in {Lower, Upper, Hyphen}
        BY <2>2, <3>1
      <3>3. a = k
        <4> SUFFICES ASSUME a # k PROVE FALSE
          OBVIOUS
        <4>1. k \in a + 1 .. b - 1 /\ k \in 1 .. n
          BY <3>1, <3>2
        <4>2. s[k] = Dot /\ s[k] \in {Lower, Upper, Hyphen}
          BY <1>3, <3>2, <4>1
        <4> QED
          BY <4>2 DEF Lower, Upper, Hyphen, Dot
      <3> QED
        BY <3>2, <3>3
    <2>4. ASSUME NEW k \in Dots(s), k >= 1 PROVE s[k - 1] \in Alphanumeric
      <3>1. k - 1 \in 0 .. n /\ k \in 1 .. n + 1 /\ k - 1 < k /\ \A x \in Dots(s) : x <= k - 1 \/ x >= k
        BY <1>0, <1>4, <2>4
      <3>2. PICK a, b \in Dots(s) :
                /\ a \in 0 .. k - 1 /\ b \in k .. n + 1 /\ a + 1 < b
                /\ s[b - 1] \in Alphanumeric
                /\ \A x \in a + 1 .. b - 1 : s[x] \in {Lower, Upper, Hyphen}
        BY <2>2, <3>1
      <3>3. b = k
        <4> SUFFICES ASSUME b # k PROVE FALSE
          OBVIOUS
        <4>1. k \in a + 1 .. b - 1 /\ k \in 1 .. n
          BY <3>1, <3>2
        <4>2. s[k] = Dot /\ s[k] \in {Lower, Upper, Hyphen}
          BY <1>3, <3>2, <4>1
        <4> QED
          BY <4>2 DEF Lower, Upper, Hyphen, Dot
      <3> QED
        BY <3>2, <3>3
    <2>5. s[1] \in Alphanumeric /\ s[n] \in Alphanumeric
      <3>1. s[0 + 1] \in Alphanumeric
        BY <1>0, <1>4, <2>3
      <3>2. s[n + 1 - 1] \in Alphanumeric
        BY <1>0, <1>4, <2>1, <2>4
      <3>3. 0 + 1 = 1 /\ n + 1 - 1 = n
        BY <1>0
      <3> QED
        BY <3>1, <3>2, <3>3
    <2>6. ASSUME NEW k \in 1 .. n, s[k] # Dot
          PROVE  \E a, b \in Dots(s) :
                    /\ a < k /\ k < b /\ b - a - 1 <= MaxLabel /\ (b # n + 1 => s[b] = Dot)
                    /\ s[k] \in {Lower, Upper, Hyphen}
      <3>1. k - 1 \in 0 .. n /\ k + 1 \in 1 .. n + 1 /\ k - 1 < k + 1
        BY <1>0
      <3>2. \A x \in Dots(s) : x <= k - 1 \/ x >= k + 1
        BY <1>3, <1>4, <2>6
      <3>3. PICK a, b \in Dots(s) :
                /\ a \in 0 .. k - 1 /\ b \in k + 1 .. n + 1 /\ b - a - 1 <= MaxLabel
                /\ b # n + 1 => s[b] = Dot
                /\ \A x \in a + 1 .. b - 1 : s[x] \in {Lower, Upper, Hyphen}
        BY <2>2, <3>1, <3>2
      <3>4. a < k /\ k < b /\ k \in a + 1 .. b - 1
        BY <3>3
      <3> QED
        BY <3>3, <3>4
    <2>7. ASSUME NEW k \in DOMAIN s
          PROVE  \/ s[k] \in Alphanumeric \cup {Hyphen}
                 \/ s[k] = Dot /\ {s[k - 1], s[k + 1]} \subseteq Alphanumeric
      <3>1. CASE s[k] = Dot
        <4>1. k \in Dots(s) /\ k >= 1 /\ k <= n
          BY <1>0, <1>3, <3>1
        <4> QED
          BY <2>3, <2>4, <3>1, <4>1
      <3>2. CASE s[k] # Dot
        BY <1>0, <2>6, <3>2 DEF Alphanumeric
      <3> QED
        BY <3>1, <3>2
    <2>8. ASSUME NEW k \in 1 .. n - MaxLabel PROVE \E j \in k .. k + MaxLabel : s[j] = Dot
      <3>1. k \in 1 .. n /\ k \in k .. k + MaxLabel
        BY <1>0
      <3>2. CASE s[k] = Dot
        BY <3>1, <3>2
      <3>3. CASE s[k] # Dot
        <4>1. PICK a, b \in Dots(s) :
                  a < k /\ k < b /\ b - a - 1 <= MaxLabel /\ (b # n + 1 => s[b] = Dot)
          BY <2>6, <3>1, <3>3
        <4>2. b \in k .. k + MaxLabel /\ b # n + 1
          BY <1>0, <1>4, <4>1
        <4> QED
          BY <4>1, <4>2
      <3> QED
        BY <3>2, <3>3
    <2> QED
      BY <2>1, <2>5, <2>7, <2>8 DEF Hostname
  <1>6. ASSUME Hostname(s) PROVE is_hostname(s)
    <2>1. /\ n \in 1 .. MaxName
          /\ s[1] \in Alphanumeric /\ s[n] \in Alphanumeric
          /\ \A k \in 1 .. n : \/ s[k] \in Alphanumeric \cup {Hyphen}
                               \/ s[k] = Dot /\ {s[k - 1], s[k + 1]} \subseteq Alphanumeric
          /\ \A k \in 1 .. n - MaxLabel : \E j \in k .. k + MaxLabel : s[j] = Dot
      BY <1>0, <1>6 DEF Hostname
    <2>2. \A k \in 1 .. n : s[k] = Dot => s[k - 1] \in Alphanumeric /\ s[k + 1] \in Alphanumeric
      BY <2>1 DEF Alphanumeric, Lower, Upper, Hyphen, Dot
    <2>3. \A k \in 1 .. n : s[k] # Dot => s[k] \in {Lower, Upper, Hyphen}
      BY <2>1 DEF Alphanumeric
    <2>4. ASSUME NEW a \in Dots(s), NEW b \in Dots(s), Bounds(s, a, b) PROVE Good(a, b)
      <3>1. /\ a \in 0 .. n /\ b \in 1 .. n + 1 /\ a < b
            /\ a # 0 => s[a] = Dot
            /\ b # n + 1 => s[b] = Dot
            /\ \A k \in a + 1 .. b - 1 : k \in 1 .. n /\ s[k] # Dot
        BY <1>0, <2>4, LabelByCharacters DEF Bounds
      <3>2. s[a + 1] \in Alphanumeric /\ s[b - 1] \in Alphanumeric
        <4>1. s[a + 1] \in Alphanumeric
          <5>1. CASE a = 0
            BY <2>1, <5>1
          <5>2. CASE a # 0
            <6>1. a \in 1 .. n
              BY <3>1, <5>2
            <6> QED
              BY <2>2, <3>1, <5>2, <6>1
          <5> QED
            BY <5>1, <5>2
        <4>2. s[b - 1] \in Alphanumeric
          <5>1. CASE b = n + 1
            <6>1. b - 1 = n
              BY <1>0, <5>1
            <6> QED
              BY <2>1, <6>1
          <5>2. CASE b # n + 1
            <6>1. b \in 1 .. n
              BY <3>1, <5>2
            <6> QED
              BY <2>2, <3>1, <5>2, <6>1
          <5> QED
            BY <5>1, <5>2
        <4> QED
          BY <4>1, <4>2
      <3>3. s[a + 1] # Hyphen /\ s[b - 1] # Hyphen /\ s[a + 1] # Dot
        BY <3>2 DEF Alphanumeric, Lower, Upper, Hyphen, Dot
      <3>4. a + 1 < b
        <4> SUFFICES ASSUME b = a + 1 PROVE FALSE
          BY <3>1
        <4>1. b = n + 1
          BY <3>1, <3>3
        <4>2. a # 0 /\ s[a] = Dot /\ b - 1 = a
          BY <2>1, <3>1, <4>1
        <4> QED
          BY <3>2, <4>2 DEF Alphanumeric, Lower, Upper, Dot
      <3>5. b - a - 1 <= MaxLabel
        <4> SUFFICES ASSUME b - a - 1 > MaxLabel PROVE FALSE
          BY <1>0, <3>1
        <4>1. a + 1 \in 1 .. n - MaxLabel
          BY <1>0, <3>1
        <4>2. PICK j \in a + 1 .. a + 1 + MaxLabel : s[j] = Dot
          BY <2>1, <4>1
        <4>3. j \in a + 1 .. b - 1
          BY <1>0, <3>1, <4>2
        <4> QED
          BY <3>1, <4>2, <4>3
      <3>6. \A k \in a + 1 .. b - 1 : s[k] \in {Lower, Upper, Hyphen}
        BY <2>3, <3>1
      <3> QED
        BY <2>4, <3>3, <3>4, <3>5, <3>6, LabelByCharacters
    <2>5. \A l \in Labels(s) : is_label(l)
      BY <2>4, LabelsByBounds
    <2>6. s # <<>> /\ Len(s) <= MaxName
      BY <1>0, <2>1
    <2> QED
      BY <2>5, <2>6 DEF is_hostname
  <1> QED
    BY <1>5, <1>6

-----------------------------------------------------------------------------
(* Names with blanks between them.                                         *)

CharText == Seq(Chars)

(* A run between blanks.                                                   *)
FieldAt(s, a, b) == /\ a <= b
                    /\ \A k \in a .. b : s[k] # Blank
                    /\ a = 1 \/ s[a - 1] = Blank
                    /\ b = Len(s) \/ s[b + 1] = Blank

(* The fields of a text are its runs between blanks.                       *)
LEMMA FieldsByBounds ==
    ASSUME NEW s \in CharText
    PROVE  \A w : w \in Fields(s) <=>
              \E a, b \in 1 .. Len(s) : FieldAt(s, a, b) /\ w = SubSeq(s, a, b)
  <1> DEFINE D == DOMAIN s
             Pairs == {x \in D \X D : /\ x[1] <= x[2]
                                      /\ \A k \in x[1] .. x[2] : s[k] # Blank
                                      /\ x[1] = 1 \/ s[x[1] - 1] = Blank
                                      /\ x[2] = Len(s) \/ s[x[2] + 1] = Blank}
             ws == {SubSeq(s, r[1], r[2]) : r \in Pairs}
  <1>1. Fields(s) = ws
    BY DEF Fields
  <1>2. \A a, b \in D : FieldAt(s, a, b) <=> <<a, b>> \in Pairs
    BY DEF FieldAt
  <1>3. \A r \in Pairs : r = <<r[1], r[2]>> /\ r[1] \in D /\ r[2] \in D
    OBVIOUS
  <1>4. \A a, b \in D : <<a, b>>[1] = a /\ <<a, b>>[2] = b
    OBVIOUS
  <1>5. D = 1 .. Len(s)
    BY DEF CharText
  <1> HIDE DEF D, Pairs
  <1>6. \A a, b \in D : FieldAt(s, a, b) => SubSeq(s, a, b) \in ws
    BY <1>2, <1>4
  <1>7. \A w \in ws : \E a, b \in D : FieldAt(s, a, b) /\ w = SubSeq(s, a, b)
    BY <1>2, <1>3
  <1> HIDE DEF ws
  <1> QED
    BY <1>1, <1>5, <1>6, <1>7

(* Part of a sequence, element by element.                                 *)
LEMMA PartIs ==
    ASSUME NEW S, NEW s \in Seq(S), NEW a \in 1 .. Len(s), NEW b \in 0 .. Len(s), a <= b + 1
    PROVE  /\ SubSeq(s, a, b) \in Seq(S) /\ Len(SubSeq(s, a, b)) = b - a + 1
           /\ \A i \in 1 .. b - a + 1 : SubSeq(s, a, b)[i] = s[a + i - 1]
  <1> DEFINE w == SubSeq(s, a, b)
  <1>1. \A k \in a .. b : s[k] \in S
    OBVIOUS
  <1>2. Len(w) = b - a + 1
    OBVIOUS
  <1>3. \A i \in 1 .. b - a + 1 : w[i] = s[a + i - 1]
    OBVIOUS
  <1>4. w \in Seq(S)
    BY <1>1
  <1> QED
    BY <1>2, <1>3, <1>4

(* Sequences of the same elements are the same.                            *)
LEMMA SameSeq ==
    ASSUME NEW S, NEW s \in Seq(S), NEW t \in Seq(S), Len(s) = Len(t),
           \A i \in 1 .. Len(s) : s[i] = t[i]
    PROVE  s = t
  OBVIOUS

(* A text and its characters.                                              *)
LEMMA TextIs ==
    \A s \in CharText : /\ s \in Seq(Chars) /\ Len(s) \in Nat /\ DOMAIN s = 1 .. Len(s)
                        /\ \A k \in 1 .. Len(s) : s[k] \in Chars
  BY DEF CharText

(* Part of a text, character by character.                                 *)
LEMMA PartOfText ==
    ASSUME NEW s \in CharText, NEW a \in 1 .. Len(s), NEW b \in 0 .. Len(s), a <= b + 1
    PROVE  /\ SubSeq(s, a, b) \in CharText /\ Len(SubSeq(s, a, b)) = b - a + 1
           /\ \A i \in 1 .. b - a + 1 : SubSeq(s, a, b)[i] = s[a + i - 1]
  <1>1. s \in Seq(Chars)
    BY DEF CharText
  <1> HIDE DEF CharText
  <1>2. /\ SubSeq(s, a, b) \in Seq(Chars) /\ Len(SubSeq(s, a, b)) = b - a + 1
        /\ \A i \in 1 .. b - a + 1 : SubSeq(s, a, b)[i] = s[a + i - 1]
    BY <1>1, PartIs
  <1> QED
    BY <1>2, Zenon DEF CharText

(* One text after another.                                                 *)
LEMMA TwoTexts ==
    ASSUME NEW u \in Seq(Chars), NEW v \in Seq(Chars)
    PROVE  /\ u \o v \in Seq(Chars) /\ Len(u \o v) = Len(u) + Len(v)
           /\ \A i \in 1 .. Len(u) : (u \o v)[i] = u[i]
           /\ \A i \in 1 .. Len(v) : (u \o v)[Len(u) + i] = v[i]
  BY ConcatIs

(* Texts of the same characters are the same.                              *)
LEMMA SameText ==
    ASSUME NEW s \in CharText, NEW t \in CharText, Len(s) = Len(t),
           \A i \in 1 .. Len(s) : s[i] = t[i]
    PROVE  s = t
  <1>1. s \in Seq(Chars) /\ t \in Seq(Chars)
    BY DEF CharText
  <1> QED
    BY <1>1, SameSeq

(* The two texts on either side of a blank.                                *)
LEMMA BlankBetween ==
    ASSUME NEW u \in CharText, NEW v \in CharText
    PROVE  /\ u \o <<Blank>> \o v \in CharText
           /\ Len(u \o <<Blank>> \o v) = Len(u) + 1 + Len(v)
           /\ Len(u) \in Nat /\ Len(v) \in Nat
           /\ \A i \in 1 .. Len(u) : (u \o <<Blank>> \o v)[i] = u[i]
           /\ (u \o <<Blank>> \o v)[Len(u) + 1] = Blank
           /\ \A i \in 1 .. Len(v) : (u \o <<Blank>> \o v)[Len(u) + 1 + i] = v[i]
  <1> DEFINE B == <<Blank>>  x == u \o B  w == x \o v
  <1>0. Blank \in Chars
    BY DEF Chars
  <1>1. B \in Seq(Chars) /\ Len(B) = 1 /\ B[1] = Blank
    BY <1>0
  <1>2. u \in Seq(Chars) /\ v \in Seq(Chars)
    BY DEF CharText
  <1> HIDE DEF B
  <1>3. /\ x \in Seq(Chars) /\ Len(x) = Len(u) + Len(B)
        /\ \A i \in 1 .. Len(u) : x[i] = u[i]
        /\ \A i \in 1 .. Len(B) : x[Len(u) + i] = B[i]
    BY <1>1, <1>2, TwoTexts
  <1>4. Len(u) \in Nat /\ Len(v) \in Nat
    BY <1>2
  <1>5. Len(x) = Len(u) + 1 /\ x[Len(u) + 1] = Blank
    BY <1>1, <1>3, <1>4
  <1> HIDE DEF x
  <1>6. /\ w \in Seq(Chars) /\ Len(w) = Len(x) + Len(v)
        /\ \A i \in 1 .. Len(x) : w[i] = x[i]
        /\ \A i \in 1 .. Len(v) : w[Len(x) + i] = v[i]
    BY <1>2, <1>3, TwoTexts
  <1> HIDE DEF w
  <1>7. w \in CharText
    BY <1>6, Zenon DEF CharText
  <1>8. \A i \in 1 .. Len(u) : w[i] = u[i]
    BY <1>3, <1>4, <1>5, <1>6
  <1>9. w[Len(u) + 1] = Blank
    BY <1>4, <1>5, <1>6
  <1>10. Len(w) = Len(u) + 1 + Len(v) /\ \A i \in 1 .. Len(v) : w[Len(u) + 1 + i] = v[i]
    BY <1>5, <1>6
  <1> QED
    BY <1>4, <1>7, <1>8, <1>9, <1>10 DEF w, x, B

(* Its fields are those of either.                                         *)
LEMMA FieldsApart ==
    ASSUME NEW u \in CharText, NEW v \in CharText
    PROVE  Fields(u \o <<Blank>> \o v) = Fields(u) \cup Fields(v)
  <1> DEFINE w == u \o <<Blank>> \o v  m == Len(u)  n == Len(v)
  <1>1. /\ w \in CharText /\ Len(w) = m + 1 + n /\ m \in Nat /\ n \in Nat
        /\ \A i \in 1 .. m : w[i] = u[i]
        /\ w[m + 1] = Blank
        /\ \A i \in 1 .. n : w[m + 1 + i] = v[i]
    BY BlankBetween
  <1> HIDE DEF w
  <1>2. \A a, b \in 1 .. m : FieldAt(w, a, b) <=> FieldAt(u, a, b)
    <2> SUFFICES ASSUME NEW a \in 1 .. m, NEW b \in 1 .. m
                 PROVE  FieldAt(w, a, b) <=> FieldAt(u, a, b)
      OBVIOUS
    <2>1. \A k \in a .. b : w[k] = u[k]
      BY <1>1
    <2>2. a # 1 => w[a - 1] = u[a - 1]
      BY <1>1
    <2>3. b # m => w[b + 1] = u[b + 1]
      BY <1>1
    <2>4. b = m => w[b + 1] = Blank
      BY <1>1
    <2>5. b # Len(w)
      BY <1>1
    <2> QED
      BY <2>1, <2>2, <2>3, <2>4, <2>5 DEF FieldAt
  <1>3. \A a, b \in 1 .. n : FieldAt(w, m + 1 + a, m + 1 + b) <=> FieldAt(v, a, b)
    <2> SUFFICES ASSUME NEW a \in 1 .. n, NEW b \in 1 .. n
                 PROVE  FieldAt(w, m + 1 + a, m + 1 + b) <=> FieldAt(v, a, b)
      OBVIOUS
    <2>1. (\A k \in m + 1 + a .. m + 1 + b : w[k] # Blank) <=> \A k \in a .. b : v[k] # Blank
      <3>1. \A k \in a .. b : k \in 1 .. n /\ m + 1 + k \in m + 1 + a .. m + 1 + b
        BY <1>1
      <3>2. \A k \in m + 1 + a .. m + 1 + b : k - m - 1 \in a .. b /\ m + 1 + (k - m - 1) = k
        BY <1>1
      <3>3. \A k \in a .. b : w[m + 1 + k] = v[k]
        BY <1>1, <3>1
      <3> QED
        BY <3>1, <3>2, <3>3
    <2>2. (m + 1 + a) - 1 = m + a /\ (a # 1 => m + a = m + 1 + (a - 1) /\ a - 1 \in 1 .. n)
      BY <1>1
    <2>3. a # 1 => w[(m + 1 + a) - 1] = v[a - 1]
      BY <1>1, <2>2
    <2>4. a = 1 => w[(m + 1 + a) - 1] = Blank
      BY <1>1, <2>2
    <2>5. m + 1 + a # 1
      BY <1>1
    <2>6. b = n <=> m + 1 + b = Len(w)
      <3>1. Len(w) = m + 1 + n /\ m \in Nat /\ n \in Nat /\ b \in Nat
        BY <1>1
      <3> QED
        BY <3>1
    <2>7. b # n => b + 1 \in 1 .. n /\ (m + 1 + b) + 1 = m + 1 + (b + 1)
      BY <1>1
    <2>8. b # n => w[(m + 1 + b) + 1] = v[b + 1]
      BY <1>1, <2>7
    <2>9. m + 1 + a <= m + 1 + b <=> a <= b
      BY <1>1
    <2> QED
      BY <2>1, <2>3, <2>4, <2>5, <2>6, <2>8, <2>9 DEF FieldAt
  <1>4. \A a, b \in 1 .. m : a <= b => SubSeq(w, a, b) = SubSeq(u, a, b)
    <2> SUFFICES ASSUME NEW a \in 1 .. m, NEW b \in 1 .. m, a <= b
                 PROVE  SubSeq(w, a, b) = SubSeq(u, a, b)
      OBVIOUS
    <2>1. a \in 1 .. Len(w) /\ b \in 0 .. Len(w) /\ b \in 0 .. Len(u) /\ a <= b + 1
      BY <1>1
    <2>2. /\ SubSeq(w, a, b) \in CharText /\ Len(SubSeq(w, a, b)) = b - a + 1
          /\ \A i \in 1 .. b - a + 1 : SubSeq(w, a, b)[i] = w[a + i - 1]
      BY <1>1, <2>1, PartOfText
    <2>3. /\ SubSeq(u, a, b) \in CharText /\ Len(SubSeq(u, a, b)) = b - a + 1
          /\ \A i \in 1 .. b - a + 1 : SubSeq(u, a, b)[i] = u[a + i - 1]
      BY <1>1, <2>1, PartOfText
    <2>4. \A i \in 1 .. b - a + 1 : w[a + i - 1] = u[a + i - 1]
      BY <1>1, <2>1
    <2> QED
      BY <2>2, <2>3, <2>4, SameText
  <1>5. \A a, b \in 1 .. n : a <= b => SubSeq(w, m + 1 + a, m + 1 + b) = SubSeq(v, a, b)
    <2> SUFFICES ASSUME NEW a \in 1 .. n, NEW b \in 1 .. n, a <= b
                 PROVE  SubSeq(w, m + 1 + a, m + 1 + b) = SubSeq(v, a, b)
      OBVIOUS
    <2> DEFINE c == m + 1 + a  d == m + 1 + b
    <2>1. c \in 1 .. Len(w) /\ d \in 0 .. Len(w) /\ c <= d + 1 /\ d - c + 1 = b - a + 1
      BY <1>1
    <2>2. \A i \in 1 .. b - a + 1 : c + i - 1 = m + 1 + (a + i - 1) /\ a + i - 1 \in 1 .. n
      BY <1>1
    <2> HIDE DEF c, d
    <2>3. /\ SubSeq(w, c, d) \in CharText /\ Len(SubSeq(w, c, d)) = d - c + 1
          /\ \A i \in 1 .. d - c + 1 : SubSeq(w, c, d)[i] = w[c + i - 1]
      BY <1>1, <2>1, PartOfText
    <2>4. /\ SubSeq(v, a, b) \in CharText /\ Len(SubSeq(v, a, b)) = b - a + 1
          /\ \A i \in 1 .. b - a + 1 : SubSeq(v, a, b)[i] = v[a + i - 1]
      <3>1. a \in 1 .. Len(v) /\ b \in 0 .. Len(v) /\ a <= b + 1
        BY <1>1
      <3> QED
        BY <3>1, PartOfText
    <2>5. \A i \in 1 .. b - a + 1 : w[c + i - 1] = v[a + i - 1]
      BY <1>1, <2>2
    <2>6. SubSeq(w, c, d) = SubSeq(v, a, b)
      <3> DEFINE p == SubSeq(w, c, d)  q == SubSeq(v, a, b)
      <3> HIDE DEF p, q
      <3>1. p \in CharText /\ q \in CharText /\ Len(p) = Len(q) /\ Len(p) = b - a + 1
        BY <2>1, <2>3, <2>4 DEF p, q
      <3>2. \A i \in 1 .. b - a + 1 : p[i] = q[i]
        BY <2>1, <2>3, <2>4, <2>5 DEF p, q
      <3>3. \A i \in 1 .. Len(p) : p[i] = q[i]
        BY <3>1, <3>2
      <3> QED
        BY <3>1, <3>3, SameText DEF p, q
    <2> QED
      BY <2>6 DEF c, d
  <1>6. ASSUME NEW x \in Fields(w) PROVE x \in Fields(u) \cup Fields(v)
    <2>1. PICK a, b \in 1 .. Len(w) : FieldAt(w, a, b) /\ x = SubSeq(w, a, b)
      BY <1>1, <1>6, FieldsByBounds
    <2>2. a <= b /\ ~ (m + 1 \in a .. b)
      BY <1>1, <2>1 DEF FieldAt
    <2>3. b <= m \/ a >= m + 2
      BY <1>1, <2>2
    <2>4. CASE b <= m
      <3>1. a \in 1 .. m /\ b \in 1 .. m
        BY <1>1, <2>2, <2>4
      <3> QED
        BY <1>2, <1>4, <2>1, <2>2, <3>1, FieldsByBounds
    <2>5. CASE a >= m + 2
      <3> DEFINE c == a - m - 1  d == b - m - 1
      <3>1. c \in 1 .. n /\ d \in 1 .. n /\ c <= d /\ a = m + 1 + c /\ b = m + 1 + d
        BY <1>1, <2>2, <2>5
      <3> HIDE DEF c, d
      <3>2. FieldAt(v, c, d) /\ x = SubSeq(v, c, d)
        BY <1>3, <1>5, <2>1, <3>1
      <3> QED
        BY <3>1, <3>2, FieldsByBounds
    <2> QED
      BY <2>3, <2>4, <2>5
  <1>7. ASSUME NEW x \in Fields(u) PROVE x \in Fields(w)
    <2>1. PICK a, b \in 1 .. m : FieldAt(u, a, b) /\ x = SubSeq(u, a, b)
      BY <1>7, FieldsByBounds
    <2>2. a <= b /\ a \in 1 .. Len(w) /\ b \in 1 .. Len(w)
      BY <1>1, <2>1 DEF FieldAt
    <2>3. FieldAt(w, a, b) /\ x = SubSeq(w, a, b)
      BY <1>2, <1>4, <2>1, <2>2
    <2> QED
      BY <1>1, <2>2, <2>3, FieldsByBounds
  <1>8. ASSUME NEW x \in Fields(v) PROVE x \in Fields(w)
    <2>1. PICK a, b \in 1 .. n : FieldAt(v, a, b) /\ x = SubSeq(v, a, b)
      BY <1>8, FieldsByBounds
    <2> DEFINE c == m + 1 + a  d == m + 1 + b
    <2>2. a <= b /\ c \in 1 .. Len(w) /\ d \in 1 .. Len(w)
      BY <1>1, <2>1 DEF FieldAt
    <2>3. FieldAt(w, c, d) /\ x = SubSeq(w, c, d)
      BY <1>3, <1>5, <2>1, <2>2
    <2> HIDE DEF c, d
    <2> QED
      BY <1>1, <2>2, <2>3, FieldsByBounds
  <1> QED
    BY <1>6, <1>7, <1>8 DEF w

-----------------------------------------------------------------------------
(* Joined names.                                                           *)

(* A joined text, name by name.                                            *)
LEMMA JoinFold ==
    ASSUME NEW names \in Seq(CharText)
    PROVE  \E f \in [0 .. Len(names) -> CharText] :
              /\ f[0] = <<>>
              /\ \A k \in 1 .. Len(names) : f[k] = join_name(f[k - 1], k, names)
              /\ join(names) = f[Len(names)]
  <1> DEFINE n == Len(names)
             States(h) == h = [k \in 0 .. Len(names) |->
                                  IF k = 0 THEN <<>> ELSE join_name(h[k - 1], k, names)]
             F == [k \in 1 .. n |-> [t \in CharText |-> join_name(t, k, names)]]
  <1>1. n \in Nat /\ \A k \in 1 .. n : names[k] \in CharText
    OBVIOUS
  <1>2. <<>> \in CharText
    BY DEF CharText
  <1>3. \A t \in CharText, k \in 1 .. n : join_name(t, k, names) \in CharText
    <2>1. \A t, u \in CharText : t \o <<Blank>> \o u \in CharText
      BY BlankBetween
    <2> QED
      BY <1>1, <2>1 DEF join_name
  <1>4. F \in [1 .. n -> [CharText -> CharText]]
    BY <1>1, <1>3, SMT
  <1> HIDE DEF n
  <1>5. Computes(n, CharText, F, <<>>)
    BY <1>1, <1>2, <1>4, RecursionAt
  <1>6. PICK f \in [0 .. n -> CharText] : f[0] = <<>> /\ \A k \in 1 .. n : f[k] = F[k][f[k - 1]]
    BY <1>5 DEF Computes
  <1>7. \A k \in 1 .. n : f[k] = join_name(f[k - 1], k, names)
    <2> TAKE k \in 1 .. n
    <2>1. k - 1 \in 0 .. n
      BY <1>1
    <2> QED
      BY <1>6, <2>1
  <1>8. States(f)
    BY <1>1, <1>6, <1>7 DEF n
  <1> DEFINE h == CHOOSE g : States(g)
  <1>9. States(h)
    BY <1>8, Zenon
  <1>10. join(names) = h[n]
    BY Zenon DEF join, n
  <1> HIDE DEF h
  <1> DEFINE P == {k \in 0 .. n : h[k] = f[k]}
  <1>11. 0 \in P
    BY <1>1, <1>6, <1>9 DEF n
  <1>12. \A k \in 0 .. n - 1 : k \in P => k + 1 \in P
    BY <1>1, <1>7, <1>9 DEF n
  <1> HIDE DEF P
  <1>13. \A k \in 0 .. n : k \in P
    BY <1>1, <1>11, <1>12, Induction
  <1>14. join(names) = f[n]
    BY <1>1, <1>10, <1>13 DEF P
  <1> QED
    BY <1>6, <1>7, <1>14 DEF n

(* A total, name by name.                                                  *)
LEMMA TotalFold ==
    ASSUME NEW names \in Seq(CharText)
    PROVE  \E f \in [0 .. Len(names) -> Nat] :
              /\ f[0] = 0
              /\ \A k \in 1 .. Len(names) : f[k] = f[k - 1] + Len(names[k])
              /\ Total(names) = f[Len(names)]
  <1> DEFINE n == Len(names)
             States(h) == h = [k \in 0 .. Len(names) |-> IF k = 0 THEN 0 ELSE h[k - 1] + Len(names[k])]
             F == [k \in 1 .. n |-> [b \in Nat |-> b + Len(names[k])]]
  <1>1. n \in Nat /\ \A k \in 1 .. n : Len(names[k]) \in Nat
    BY TextIs
  <1>2. F \in [1 .. n -> [Nat -> Nat]]
    BY <1>1
  <1> HIDE DEF n
  <1>3. Computes(n, Nat, F, 0)
    BY <1>1, <1>2, RecursionAt
  <1>4. PICK f \in [0 .. n -> Nat] : f[0] = 0 /\ \A k \in 1 .. n : f[k] = F[k][f[k - 1]]
    BY <1>3 DEF Computes
  <1>5. \A k \in 1 .. n : f[k] = f[k - 1] + Len(names[k])
    <2> TAKE k \in 1 .. n
    <2>1. k - 1 \in 0 .. n
      BY <1>1
    <2> QED
      BY <1>4, <2>1
  <1>6. States(f)
    BY <1>1, <1>4, <1>5 DEF n
  <1> DEFINE h == CHOOSE g : States(g)
  <1>7. States(h)
    BY <1>6, Zenon
  <1>8. Total(names) = h[n]
    BY Zenon DEF Total, n
  <1> HIDE DEF h
  <1> DEFINE P == {k \in 0 .. n : h[k] = f[k]}
  <1>9. 0 \in P
    BY <1>1, <1>4, <1>7 DEF n
  <1>10. \A k \in 0 .. n - 1 : k \in P => k + 1 \in P
    BY <1>1, <1>5, <1>7 DEF n
  <1> HIDE DEF P
  <1>11. \A k \in 0 .. n : k \in P
    BY <1>1, <1>9, <1>10, Induction
  <1>12. Total(names) = f[n]
    BY <1>1, <1>8, <1>11 DEF P
  <1> QED
    BY <1>4, <1>5, <1>12 DEF n

(* Names that are joined have their fields still, and one blank is added   *)
(* between each two.                                                       *)
LEMMA JoinIs ==
    ASSUME NEW names \in Seq(CharText)
    PROVE  /\ join(names) \in CharText
           /\ Fields(join(names)) = UNION {Fields(names[i]) : i \in 1 .. Len(names)}
           /\ names = <<>> => join(names) = <<>>
           /\ names # <<>> => Len(join(names)) = Total(names) + Len(names) - 1
  <1> DEFINE n == Len(names)  All(k) == UNION {Fields(names[i]) : i \in 1 .. k}
  <1>0. All(0) = {}
    OBVIOUS
  <1>1. n \in Nat /\ \A k \in 1 .. n : names[k] \in CharText /\ Len(names[k]) \in Nat
    BY TextIs
  <1>2. PICK f \in [0 .. n -> CharText] :
            /\ f[0] = <<>>
            /\ \A k \in 1 .. n : f[k] = join_name(f[k - 1], k, names)
            /\ join(names) = f[n]
    BY JoinFold
  <1>3. PICK g \in [0 .. n -> Nat] :
            /\ g[0] = 0
            /\ \A k \in 1 .. n : g[k] = g[k - 1] + Len(names[k])
            /\ Total(names) = g[n]
    BY TotalFold
  <1>e. n = 0 <=> names = <<>>
    OBVIOUS
  <1> HIDE DEF n
  <1> DEFINE P == {k \in 0 .. n : /\ Fields(f[k]) = All(k)
                                  /\ k # 0 => Len(f[k]) = g[k] + k - 1}
  <1>4. 0 \in P
    <2>1. Fields(<<>>) = {}
      BY DEF Fields
    <2> QED
      BY <1>0, <1>1, <1>2, <2>1
  <1>5. ASSUME NEW k \in 0 .. n - 1, k \in P PROVE k + 1 \in P
    <2>1. /\ k + 1 \in 1 .. n /\ k + 1 \in 0 .. n /\ k \in 0 .. n /\ k \in Nat
          /\ (k + 1) - 1 = k
      BY <1>1
    <2>2. f[k + 1] = join_name(f[k], k + 1, names) /\ g[k + 1] = g[k] + Len(names[k + 1])
      BY <1>2, <1>3, <2>1
    <2>3. /\ f[k] \in CharText /\ names[k + 1] \in CharText /\ g[k] \in Nat
          /\ Len(names[k + 1]) \in Nat
      BY <1>1, <1>2, <1>3, <2>1
    <2>4. Fields(f[k]) = All(k) /\ (k # 0 => Len(f[k]) = g[k] + k - 1)
      BY <1>5
    <2>5. All(k + 1) = All(k) \cup Fields(names[k + 1])
      <3>1. 1 .. k + 1 = 1 .. k \cup {k + 1}
        BY <2>1
      <3> QED
        BY <3>1
    <2> HIDE DEF All
    <2>6. CASE k = 0
      <3>1. f[1] = names[1] /\ g[1] = Len(names[1])
        BY <1>3, <2>2, <2>3, <2>6 DEF join_name
      <3>2. Fields(f[1]) = All(1)
        <4>1. All(1) = {} \cup Fields(names[1])
          <5>1. All(0 + 1) = All(0) \cup Fields(names[0 + 1])
            BY <2>5, <2>6
          <5>2. 0 + 1 = 1
            OBVIOUS
          <5> QED
            BY <1>0, <5>1, <5>2
        <4>2. {} \cup Fields(names[1]) = Fields(names[1])
          OBVIOUS
        <4> QED
          BY <3>1, <4>1, <4>2
      <3>3. Len(f[1]) = g[1] + 1 - 1
        BY <2>3, <2>6, <3>1
      <3> QED
        BY <2>1, <2>6, <3>2, <3>3
    <2>7. CASE k # 0
      <3>1. f[k + 1] = f[k] \o <<Blank>> \o names[k + 1]
        <4>1. k + 1 # 1
          BY <2>1, <2>7
        <4> QED
          BY <2>2, <4>1 DEF join_name
      <3>2. Fields(f[k + 1]) = All(k + 1)
        <4>1. Fields(f[k] \o <<Blank>> \o names[k + 1]) = Fields(f[k]) \cup Fields(names[k + 1])
          BY <2>3, FieldsApart
        <4> QED
          BY <2>4, <2>5, <3>1, <4>1
      <3>3. Len(f[k + 1]) = Len(f[k]) + 1 + Len(names[k + 1])
        <4> DEFINE u == f[k]  v == names[k + 1]
        <4>1. u \in CharText /\ v \in CharText
          BY <2>3
        <4> HIDE DEF u, v
        <4>2. Len(u \o <<Blank>> \o v) = Len(u) + 1 + Len(v)
          BY <4>1, BlankBetween
        <4> QED
          BY <3>1, <4>2, Zenon DEF u, v
      <3>4. Len(f[k + 1]) = g[k + 1] + (k + 1) - 1
        <4>1. g[k + 1] = g[k] + Len(names[k + 1])
          BY <2>2
        <4>2. Len(f[k]) = g[k] + k - 1
          BY <2>4, <2>7
        <4>3. g[k] \in Nat /\ Len(names[k + 1]) \in Nat /\ k \in Nat
          BY <2>1, <2>3
        <4> QED
          BY <3>3, <4>1, <4>2, <4>3
      <3> QED
        BY <2>1, <3>2, <3>4
    <2> QED
      BY <2>6, <2>7
  <1> HIDE DEF P
  <1>6. \A k \in 0 .. n : k \in P
    BY <1>1, <1>4, <1>5, Induction
  <1>7. n \in P
    BY <1>1, <1>6
  <1>8. Fields(f[n]) = All(n) /\ (n # 0 => Len(f[n]) = g[n] + n - 1)
    BY <1>7 DEF P
  <1>9. f[n] \in CharText
    BY <1>1, <1>2
  <1> QED
    BY <1>2, <1>3, <1>e, <1>8, <1>9 DEF n

-----------------------------------------------------------------------------
(* Normalized names.                                                       *)

(* The ends of a set of numbers.                                           *)
LEMMA MaxIs ==
    ASSUME NEW n \in Nat, NEW T, T \subseteq 0 .. n, T # {}
    PROVE  Max(T) \in T /\ \A y \in T : y <= Max(T)
  <1>1. PICK x \in T : \A y \in T : y <= x
    BY GreatestNatural
  <1>2. \A y \in T : x >= y
    BY <1>1
  <1> DEFINE m == CHOOSE x1 \in T : \A y \in T : x1 >= y
  <1>3. m \in T /\ \A y \in T : m >= y
    BY <1>2, Zenon
  <1>4. Max(T) = m
    BY Zenon DEF Max
  <1> HIDE DEF m
  <1> QED
    BY <1>3, <1>4

(* The same at the other end.                                              *)
LEMMA MinIs ==
    ASSUME NEW T, T \subseteq Nat, T # {}
    PROVE  Min(T) \in T /\ \A y \in T : Min(T) <= y
  <1>1. PICK x \in T : \A y \in T : x <= y
    BY LeastNatural
  <1> DEFINE m == CHOOSE x1 \in T : \A y \in T : x1 <= y
  <1>3. m \in T /\ \A y \in T : m <= y
    BY <1>1, Zenon
  <1>4. Min(T) = m
    BY Zenon DEF Min
  <1> HIDE DEF m
  <1> QED
    BY <1>3, <1>4

(* What lies from the first to the last character that is not a blank.     *)
Kernel(s, a, b) == /\ a \in 1 .. Len(s) /\ b \in 1 .. Len(s) /\ a <= b
                   /\ s[a] # Blank /\ s[b] # Blank
                   /\ \A k \in 1 .. Len(s) : k < a \/ k > b => s[k] = Blank

(* Trimming leaves nothing of blanks, and the kernel of any other text.    *)
LEMMA TrimIs ==
    ASSUME NEW s \in CharText
    PROVE  /\ Trim(s) \in CharText
           /\ \/ Trim(s) = <<>>
              \/ \E a, b \in 1 .. Len(s) : Kernel(s, a, b) /\ Trim(s) = SubSeq(s, a, b)
           /\ Trim(s) = <<>> => \A k \in 1 .. Len(s) : s[k] = Blank
  <1> DEFINE n == Len(s)  ks == {k \in DOMAIN s : s[k] # Blank}
  <1>1. n \in Nat /\ DOMAIN s = 1 .. n
    BY TextIs
  <1>2. Trim(s) = IF ks = {} THEN <<>> ELSE SubSeq(s, Min(ks), Max(ks))
    BY DEF Trim
  <1>3. CASE ks = {}
    <2>1. <<>> \in CharText
      BY DEF CharText
    <2> QED
      BY <1>1, <1>2, <1>3, <2>1
  <1>4. CASE ks # {}
    <2> DEFINE a == Min(ks)  b == Max(ks)
    <2>1. ks \subseteq 0 .. n /\ ks \subseteq Nat
      BY <1>1
    <2> HIDE DEF ks
    <2>2. a \in ks /\ b \in ks /\ (\A y \in ks : a <= y) /\ \A y \in ks : y <= b
      BY <1>1, <1>4, <2>1, MaxIs, MinIs
    <2> HIDE DEF a, b
    <2>3. Kernel(s, a, b)
      BY <1>1, <2>1, <2>2 DEF Kernel, ks
    <2>4. Trim(s) = SubSeq(s, a, b)
      BY <1>2, <1>4 DEF a, b
    <2>5. /\ a \in 1 .. Len(s) /\ b \in 1 .. Len(s) /\ b \in 0 .. Len(s)
          /\ a <= b + 1 /\ b - a + 1 # 0
      BY <1>1, <2>3 DEF Kernel
    <2>6. Trim(s) \in CharText /\ Len(Trim(s)) = b - a + 1
      BY <2>4, <2>5, PartOfText
    <2>7. Trim(s) # <<>>
      <3>1. Len(<<>>) = 0
        OBVIOUS
      <3> QED
        BY <2>5, <2>6, <3>1
    <2> QED
      BY <2>3, <2>4, <2>5, <2>6, <2>7
  <1> QED
    BY <1>3, <1>4

(* What has no blank is left as it is.                                     *)
LEMMA TrimWhole ==
    ASSUME NEW s \in CharText, s # <<>>, \A k \in 1 .. Len(s) : s[k] # Blank
    PROVE  Trim(s) = s
  <1>1. Len(s) \in Nat /\ Len(s) # 0
    BY TextIs
  <1>2. 1 \in 1 .. Len(s) /\ Len(s) \in 1 .. Len(s)
    BY <1>1
  <1>3. Trim(s) # <<>>
    BY <1>2, TrimIs
  <1>4. PICK a, b \in 1 .. Len(s) : Kernel(s, a, b) /\ Trim(s) = SubSeq(s, a, b)
    BY <1>3, TrimIs
  <1>5. a = 1 /\ b = Len(s)
    BY <1>1, <1>2, <1>4 DEF Kernel
  <1> DEFINE t == SubSeq(s, 1, Len(s))
  <1>6. t \in CharText /\ Len(t) = Len(s) - 1 + 1 /\ \A i \in 1 .. Len(s) - 1 + 1 : t[i] = s[1 + i - 1]
    <2>1. 1 \in 1 .. Len(s) /\ Len(s) \in 0 .. Len(s) /\ 1 <= Len(s) + 1
      BY <1>1
    <2> QED
      BY <2>1, PartOfText
  <1> HIDE DEF t
  <1>7. Len(t) = Len(s) /\ \A i \in 1 .. Len(t) : t[i] = s[i]
    BY <1>1, <1>6
  <1>8. t = s
    BY <1>6, <1>7, SameText
  <1> QED
    BY <1>4, <1>5, <1>8 DEF t

(* A text whose only blanks are at its ends is one field.                  *)
LEMMA OneField ==
    ASSUME NEW s \in CharText, NEW a \in 1 .. Len(s), NEW b \in 1 .. Len(s), Kernel(s, a, b),
           \A k \in a .. b : s[k] # Blank
    PROVE  Fields(s) = {SubSeq(s, a, b)}
  <1>1. Len(s) \in Nat
    BY TextIs
  <1>2. FieldAt(s, a, b)
    BY <1>1 DEF Kernel, FieldAt
  <1>3. ASSUME NEW c \in 1 .. Len(s), NEW d \in 1 .. Len(s), FieldAt(s, c, d)
        PROVE  c = a /\ d = b
    <2>1. /\ c <= d /\ (\A k \in c .. d : s[k] # Blank)
          /\ (c = 1 \/ s[c - 1] = Blank) /\ (d = Len(s) \/ s[d + 1] = Blank)
      BY <1>3 DEF FieldAt
    <2>2. s[c] # Blank /\ s[d] # Blank
      BY <1>1, <2>1
    <2>3. c >= a /\ d <= b
      BY <1>1, <2>1, <2>2 DEF Kernel
    <2>4. c = a
      <3> SUFFICES ASSUME c # a PROVE FALSE
        OBVIOUS
      <3>1. c # 1 /\ c - 1 \in a .. b
        BY <1>1, <2>1, <2>3
      <3> QED
        BY <2>1, <3>1
    <2>5. d = b
      <3> SUFFICES ASSUME d # b PROVE FALSE
        OBVIOUS
      <3>1. d # Len(s) /\ d + 1 \in a .. b
        BY <1>1, <2>1, <2>3
      <3> QED
        BY <2>1, <3>1
    <2> QED
      BY <2>4, <2>5
  <1>4. SubSeq(s, a, b) \in Fields(s)
    BY <1>2, FieldsByBounds
  <1>5. \A w \in Fields(s) : w = SubSeq(s, a, b)
    BY <1>3, FieldsByBounds
  <1> HIDE DEF Fields
  <1> QED
    BY <1>4, <1>5

Low(ch) == IF ch = Upper THEN Lower ELSE ch

(* Characters.                                                             *)
LEMMA LowIs ==
    \A ch \in Chars : /\ Low(ch) \in Chars /\ Low(Low(ch)) = Low(ch)
                      /\ (Low(ch) = Blank <=> ch = Blank) /\ (Low(ch) = Dot <=> ch = Dot)
                      /\ Low(ch) # Upper
  BY DEF Low, Chars, Lower, Upper, Hyphen, Dot, Blank

(* A normalized name, by the trimmed one: without the dots at its end, and *)
(* in lower case.                                                          *)
LEMMA NormalIs ==
    ASSUME NEW s \in CharText, NEW t \in CharText, t = Trim(s)
    PROVE  \E m \in 0 .. Len(t) :
              /\ normalize_name(s) \in CharText /\ Len(normalize_name(s)) = m
              /\ \A k \in 1 .. m : normalize_name(s)[k] = Low(t[k])
              /\ m # 0 => t[m] # Dot
              /\ \A k \in m + 1 .. Len(t) : t[k] = Dot
  <1> DEFINE n == Len(t)
             T == {k \in DOMAIN t : t[k] # Dot} \cup {0}
             m == Max(T)
             u == SubSeq(t, 1, m)
             r == [k \in DOMAIN u |-> IF u[k] = Upper THEN Lower ELSE u[k]]
  <1>1. n \in Nat /\ DOMAIN t = 1 .. n /\ \A k \in 1 .. n : t[k] \in Chars
    BY TextIs
  <1>2. normalize_name(s) = r
    BY Zenon DEF normalize_name
  <1>3. T \subseteq 0 .. n /\ T # {} /\ \A k \in 1 .. n : k \in T <=> t[k] # Dot
    BY <1>1
  <1> HIDE DEF T
  <1>4. m \in T /\ \A y \in T : y <= m
    BY <1>1, <1>3, MaxIs
  <1> HIDE DEF m
  <1>5. m \in 0 .. n
    BY <1>3, <1>4
  <1>6. u \in CharText /\ Len(u) = m /\ \A k \in 1 .. m : u[k] = t[k]
    <2>1. CASE n = 0
      <3>1. m = 0
        BY <1>5, <2>1
      <3>2. SubSeq(t, 1, 0) = <<>>
        OBVIOUS
      <3>3. <<>> \in CharText /\ Len(<<>>) = 0
        BY DEF CharText
      <3>4. u = <<>>
        BY <3>1, <3>2
      <3> HIDE DEF u
      <3> QED
        BY <3>1, <3>3, <3>4
    <2>2. CASE n # 0
      <3>1. 1 \in 1 .. Len(t) /\ m \in 0 .. Len(t) /\ 1 <= m + 1
        BY <1>1, <1>5, <2>2
      <3>2. u \in CharText /\ Len(u) = m - 1 + 1 /\ \A k \in 1 .. m - 1 + 1 : u[k] = t[1 + k - 1]
        BY <3>1, PartOfText
      <3> HIDE DEF u
      <3>3. m - 1 + 1 = m /\ \A k \in 1 .. m : 1 + k - 1 = k
        BY <1>5
      <3> QED
        BY <3>2, <3>3
    <2> QED
      BY <2>1, <2>2
  <1> HIDE DEF u
  <1>7. DOMAIN u = 1 .. m /\ \A k \in 1 .. m : u[k] \in Chars
    BY <1>6, TextIs
  <1>8. \A k \in 1 .. m : r[k] = Low(t[k])
    BY <1>6, <1>7 DEF Low
  <1>9. r \in CharText /\ Len(r) = m
    <2>1. r = [k \in 1 .. m |-> Low(u[k])]
      BY <1>7 DEF Low
    <2>2. r \in [1 .. m -> Chars]
      BY <1>7, <2>1, LowIs
    <2>3. m \in Nat
      BY <1>5
    <2> HIDE DEF r
    <2>4. r \in Seq(Chars) /\ Len(r) = m
      BY <2>2, <2>3
    <2> QED
      BY <2>4, Zenon DEF CharText
  <1> HIDE DEF r
  <1>10. m # 0 => t[m] # Dot
    BY <1>3, <1>4, <1>5
  <1>11. \A k \in m + 1 .. n : t[k] = Dot
    <2> SUFFICES ASSUME NEW k \in m + 1 .. n, t[k] # Dot PROVE FALSE
      OBVIOUS
    <2>1. k \in 1 .. n /\ k > m
      BY <1>1, <1>5
    <2> QED
      BY <1>3, <1>4, <1>5, <2>1
  <1> QED
    BY <1>2, <1>5, <1>8, <1>9, <1>10, <1>11

(* A host name has no blank, no capital after normalizing and no dot at    *)
(* its end.                                                                *)
LEMMA HostCharacters ==
    ASSUME NEW s \in CharText, is_hostname(s)
    PROVE  /\ Len(s) \in Nat /\ Len(s) # 0
           /\ \A k \in 1 .. Len(s) : s[k] \in Chars /\ s[k] # Blank
           /\ s[Len(s)] # Dot
  <1>1. s \in Seq(Chars)
    BY DEF CharText
  <1>2. Hostname(s)
    BY <1>1, SameLanguage
  <1>3. Len(s) \in Nat /\ DOMAIN s = 1 .. Len(s) /\ \A k \in 1 .. Len(s) : s[k] \in Chars
    BY TextIs
  <1>4. Len(s) # 0 /\ s[Len(s)] \in Alphanumeric
    BY <1>2, <1>3, LimitsAssumption DEF Hostname
  <1>5. \A k \in 1 .. Len(s) : s[k] \in Alphanumeric \cup {Hyphen} \/ s[k] = Dot
    BY <1>2, <1>3 DEF Hostname
  <1>6. Blank \notin Alphanumeric \cup {Hyphen} /\ Blank # Dot /\ Dot \notin Alphanumeric
    BY DEF Alphanumeric, Lower, Upper, Hyphen, Dot, Blank
  <1> QED
    BY <1>3, <1>4, <1>5, <1>6

(* A name that is a host name when normalized is one field, which is       *)
(* normalized to the same; and normalizing that again changes nothing.     *)
LEMMA NormalAgain ==
    ASSUME NEW s \in CharText, is_hostname(normalize_name(s))
    PROVE  /\ normalize_name(s) \in CharText
           /\ Fields(s) = {Trim(s)}
           /\ normalize_name(Trim(s)) = normalize_name(s)
           /\ normalize_name(normalize_name(s)) = normalize_name(s)
           /\ Fields(normalize_name(s)) = {normalize_name(s)}
  <1> DEFINE t == Trim(s)  r == normalize_name(s)
  <1>1. t \in CharText /\ Trim(s) = t
    BY TrimIs
  <1> HIDE DEF t
  <1>2. PICK m \in 0 .. Len(t) :
            /\ r \in CharText /\ Len(r) = m
            /\ \A k \in 1 .. m : r[k] = Low(t[k])
            /\ \A k \in m + 1 .. Len(t) : t[k] = Dot
    BY <1>1, NormalIs
  <1> HIDE DEF r
  <1>3. is_hostname(r)
    BY DEF r
  <1>4. m # 0 /\ (\A k \in 1 .. m : r[k] \in Chars /\ r[k] # Blank) /\ r[m] # Dot
    BY <1>2, <1>3, HostCharacters
  <1>5. Len(t) \in Nat /\ \A k \in 1 .. Len(t) : t[k] \in Chars
    BY <1>1, TextIs
  <1>6. \A k \in 1 .. Len(t) : t[k] # Blank
    <2> TAKE k \in 1 .. Len(t)
    <2>1. CASE k <= m
      <3>1. k \in 1 .. m
        BY <1>2, <2>1
      <3> QED
        BY <1>2, <1>4, <1>5, <3>1, LowIs
    <2>2. CASE k > m
      <3>1. k \in m + 1 .. Len(t)
        BY <1>2, <1>5, <2>2
      <3>2. Dot # Blank
        BY DEF Dot, Blank
      <3> QED
        BY <1>2, <3>1, <3>2
    <2> QED
      BY <1>2, <2>1, <2>2
  <1>7. t # <<>>
    BY <1>2, <1>4, <1>5
  <1>8. Trim(t) = t
    BY <1>1, <1>6, <1>7, TrimWhole
  <1>9. normalize_name(t) = normalize_name(s)
    BY <1>1, <1>8, Zenon DEF normalize_name
  <1>10. Fields(s) = {t}
    <2>1. PICK a, b \in 1 .. Len(s) : Kernel(s, a, b) /\ t = SubSeq(s, a, b)
      BY <1>1, <1>7, TrimIs
    <2>2. a \in 1 .. Len(s) /\ b \in 0 .. Len(s) /\ a <= b + 1 /\ a <= b /\ b - a + 1 \in Nat
      BY <2>1 DEF Kernel
    <2>3. Len(t) = b - a + 1 /\ \A i \in 1 .. b - a + 1 : t[i] = s[a + i - 1]
      BY <2>1, <2>2, PartOfText
    <2>4. \A k \in a .. b : s[k] # Blank
      <3> TAKE k \in a .. b
      <3>1. k - a + 1 \in 1 .. b - a + 1 /\ a + (k - a + 1) - 1 = k
        BY <2>2
      <3> QED
        BY <1>6, <2>3, <3>1
    <2> QED
      BY <2>1, <2>4, OneField
  <1>11. r # <<>>
    BY <1>2, <1>4
  <1>12. Trim(r) = r
    BY <1>2, <1>4, <1>11, TrimWhole
  <1>13. normalize_name(r) = r
    <2>1. PICK j \in 0 .. Len(r) :
              /\ normalize_name(r) \in CharText /\ Len(normalize_name(r)) = j
              /\ \A k \in 1 .. j : normalize_name(r)[k] = Low(r[k])
              /\ \A k \in j + 1 .. Len(r) : r[k] = Dot
      BY <1>2, <1>12, NormalIs
    <2>2. j = m
      <3> SUFFICES ASSUME j # m PROVE FALSE
        OBVIOUS
      <3>1. m \in j + 1 .. Len(r)
        BY <1>2, <2>1
      <3> QED
        BY <1>4, <2>1, <3>1
    <2>3. \A k \in 1 .. m : normalize_name(r)[k] = r[k]
      <3> TAKE k \in 1 .. m
      <3>1. k \in 1 .. Len(t) /\ t[k] \in Chars
        BY <1>2, <1>5
      <3>2. r[k] = Low(t[k]) /\ normalize_name(r)[k] = Low(r[k])
        BY <1>2, <2>1, <2>2
      <3> QED
        BY <3>1, <3>2, LowIs
    <2> QED
      BY <1>2, <2>1, <2>2, <2>3, SameText
  <1>14. Fields(r) = {r}
    <2>1. 1 \in 1 .. Len(r) /\ Len(r) \in 1 .. Len(r)
      BY <1>2, <1>4
    <2>2. Kernel(r, 1, Len(r))
      BY <1>2, <1>4, <2>1 DEF Kernel
    <2>3. \A k \in 1 .. Len(r) : r[k] # Blank
      BY <1>2, <1>4
    <2>4. Fields(r) = {SubSeq(r, 1, Len(r))}
      BY <1>2, <2>1, <2>2, <2>3, OneField
    <2>5. Len(r) \in 0 .. Len(r) /\ 1 <= Len(r) + 1 /\ Len(r) - 1 + 1 = Len(r) /\ Len(r) \in Nat
      BY <1>2
    <2>6. /\ SubSeq(r, 1, Len(r)) \in CharText /\ Len(SubSeq(r, 1, Len(r))) = Len(r) - 1 + 1
          /\ \A k \in 1 .. Len(r) - 1 + 1 : SubSeq(r, 1, Len(r))[k] = r[1 + k - 1]
      BY <1>2, <2>1, <2>5, PartOfText
    <2>7. \A k \in 1 .. Len(r) : SubSeq(r, 1, Len(r))[k] = r[k]
      <3>1. \A k \in 1 .. Len(r) : 1 + k - 1 = k
        BY <2>5
      <3> QED
        BY <2>5, <2>6, <3>1
    <2>8. SubSeq(r, 1, Len(r)) = r
      BY <1>2, <2>5, <2>6, <2>7, SameText
    <2> QED
      BY <2>4, <2>8
  <1> HIDE DEF Fields
  <1> QED
    BY <1>1, <1>2, <1>9, <1>10, <1>13, <1>14 DEF r

-----------------------------------------------------------------------------
(* Totals.                                                                 *)

(* A total over some places of a list of names only, place by place.       *)
PartSum(q, V, g) ==
    /\ g \in [0 .. Len(q) -> Nat] /\ g[0] = 0
    /\ \A j \in 1 .. Len(q) : g[j] = g[j - 1] + (IF j \in V THEN Len(q[j]) ELSE 0)

PartTotal(q, V, sum) == \E g : PartSum(q, V, g) /\ g[Len(q)] = sum

(* One more place adds the length of its name.                             *)
LEMMA PartTotalAdd ==
    \A q \in Seq(CharText) : \A V, sum : \A c \in 1 .. Len(q) :
        PartTotal(q, V, sum) /\ c \notin V => PartTotal(q, V \cup {c}, sum + Len(q[c]))
  <1> SUFFICES ASSUME NEW q \in Seq(CharText), NEW V, NEW sum, NEW g,
                      PartSum(q, V, g), g[Len(q)] = sum, NEW c \in 1 .. Len(q), c \notin V
               PROVE  PartTotal(q, V \cup {c}, sum + Len(q[c]))
    BY DEF PartTotal
  <1> DEFINE n == Len(q)
             w == Len(q[c])
             e == [j \in 0 .. n |-> IF j >= c THEN g[j] + w ELSE g[j]]
  <1>1. n \in Nat /\ (\A k \in 1 .. n : Len(q[k]) \in Nat) /\ w \in Nat
    BY TextIs
  <1>2. /\ g \in [0 .. n -> Nat] /\ g[0] = 0
        /\ \A j \in 1 .. n : g[j] = g[j - 1] + (IF j \in V THEN Len(q[j]) ELSE 0)
    BY DEF PartSum
  <1>3. e \in [0 .. n -> Nat]
    BY <1>1, <1>2
  <1>4. e[0] = 0
    BY <1>1, <1>2
  <1>5. ASSUME NEW j \in 1 .. n
        PROVE  e[j] = e[j - 1] + (IF j \in V \cup {c} THEN Len(q[j]) ELSE 0)
    <2>1. j \in 0 .. n /\ j - 1 \in 0 .. n /\ j \in Nat /\ c \in Nat
      BY <1>1
    <2>2. g[j] \in Nat /\ g[j - 1] \in Nat /\ Len(q[j]) \in Nat
      BY <1>1, <1>2, <2>1
    <2>3. /\ e[j] = IF j >= c THEN g[j] + w ELSE g[j]
          /\ e[j - 1] = IF j - 1 >= c THEN g[j - 1] + w ELSE g[j - 1]
      BY <2>1
    <2>4. g[j] = g[j - 1] + (IF j \in V THEN Len(q[j]) ELSE 0)
      BY <1>2
    <2> HIDE DEF e
    <2>5. CASE j < c
      BY <2>1, <2>2, <2>3, <2>4, <2>5
    <2>6. CASE j = c
      <3>1. e[j] = g[j] + w /\ e[j - 1] = g[j - 1]
        BY <2>1, <2>3, <2>6
      <3>2. g[j] = g[j - 1] + 0
        BY <2>4, <2>6
      <3> QED
        BY <1>1, <2>2, <2>6, <3>1, <3>2
    <2>7. CASE j > c
      <3>1. e[j] = g[j] + w /\ e[j - 1] = g[j - 1] + w
        BY <2>1, <2>3, <2>7
      <3>2. j \in V \cup {c} <=> j \in V
        BY <2>1, <2>7
      <3> QED
        BY <1>1, <2>2, <2>4, <3>1, <3>2
    <2> QED
      BY <2>1, <2>5, <2>6, <2>7
  <1>6. e[n] = g[n] + w
    BY <1>1
  <1> HIDE DEF e
  <1>7. PartSum(q, V \cup {c}, e)
    BY <1>3, <1>4, <1>5 DEF PartSum
  <1> QED
    BY <1>6, <1>7 DEF PartTotal

(* Fewer names have a smaller total.                                       *)
LEMMA TotalOfSome ==
    ASSUME NEW p \in Seq(CharText), NEW q \in Seq(CharText),
           \A i, j \in 1 .. Len(p) : p[i] = p[j] => i = j,
           \A i \in 1 .. Len(p) : \E j \in 1 .. Len(q) : q[j] = p[i]
    PROVE  Total(p) <= Total(q) /\ Total(p) \in Nat /\ Total(q) \in Nat
  <1> DEFINE m == Len(p)  n == Len(q)
             place == [i \in 1 .. m |-> CHOOSE j \in 1 .. n : q[j] = p[i]]
  <1>1. /\ m \in Nat /\ n \in Nat
        /\ \A k \in 1 .. n : Len(q[k]) \in Nat
    BY TextIs
  <1>2. \A i \in 1 .. m : place[i] \in 1 .. n /\ q[place[i]] = p[i]
    OBVIOUS
  <1> HIDE DEF place
  <1>3. \A i, j \in 1 .. m : place[i] = place[j] => i = j
    BY <1>2
  <1>4. PICK f \in [0 .. m -> Nat] :
            /\ f[0] = 0
            /\ \A k \in 1 .. m : f[k] = f[k - 1] + Len(p[k])
            /\ Total(p) = f[m]
    BY TotalFold
  <1>5. PICK h \in [0 .. n -> Nat] :
            /\ h[0] = 0
            /\ \A k \in 1 .. n : h[k] = h[k - 1] + Len(q[k])
            /\ Total(q) = h[n]
    BY TotalFold
  <1> DEFINE Places(k) == {place[i] : i \in 1 .. k}
             P == {k \in 0 .. m : PartTotal(q, Places(k), f[k])}
  <1>6. 0 \in P
    <2> DEFINE g == [j \in 0 .. n |-> 0]
    <2>1. Places(0) = {}
      OBVIOUS
    <2>2. PartSum(q, {}, g) /\ g[n] = 0
      BY <1>1 DEF PartSum
    <2> HIDE DEF g, Places
    <2> QED
      BY <1>1, <1>4, <2>1, <2>2 DEF PartTotal
  <1>7. ASSUME NEW k \in 0 .. m - 1, k \in P PROVE k + 1 \in P
    <2>1. /\ k + 1 \in 1 .. m /\ k + 1 \in 0 .. m /\ (k + 1) - 1 = k
          /\ 1 .. k + 1 = 1 .. k \cup {k + 1} /\ 1 .. k \subseteq 1 .. m /\ k + 1 \notin 1 .. k
      BY <1>1
    <2>2. PartTotal(q, Places(k), f[k])
      BY <1>7
    <2>3. Places(k + 1) = Places(k) \cup {place[k + 1]}
      <3>1. 1 .. k + 1 = 1 .. k \cup {k + 1}
        BY <2>1
      <3> QED
        BY <3>1
    <2>4. place[k + 1] \in 1 .. n /\ place[k + 1] \notin Places(k)
      BY <1>2, <1>3, <2>1
    <2> HIDE DEF Places
    <2>5. PartTotal(q, Places(k) \cup {place[k + 1]}, f[k] + Len(q[place[k + 1]]))
      BY <2>2, <2>4, PartTotalAdd
    <2>6. f[k + 1] = f[k] + Len(p[k + 1]) /\ q[place[k + 1]] = p[k + 1]
      BY <1>2, <1>4, <2>1
    <2>7. PartTotal(q, Places(k + 1), f[k + 1])
      BY <2>3, <2>5, <2>6
    <2> QED
      BY <2>1, <2>7
  <1> HIDE DEF P
  <1>8. \A k \in 0 .. m : k \in P
    BY <1>1, <1>6, <1>7, Induction
  <1>9. m \in P
    BY <1>1, <1>8
  <1>10. PICK g : PartSum(q, Places(m), g) /\ g[n] = f[m]
    BY <1>9 DEF P, PartTotal
  <1> HIDE DEF Places
  <1>11. /\ g \in [0 .. n -> Nat] /\ g[0] = 0
         /\ \A j \in 1 .. n : g[j] = g[j - 1] + (IF j \in Places(m) THEN Len(q[j]) ELSE 0)
    BY <1>10 DEF PartSum
  <1> DEFINE Q == {j \in 0 .. n : g[j] <= h[j]}
  <1>12. 0 \in Q
    BY <1>1, <1>5, <1>11
  <1>13. ASSUME NEW j \in 0 .. n - 1, j \in Q PROVE j + 1 \in Q
    <2>1. j + 1 \in 1 .. n /\ j + 1 \in 0 .. n /\ j \in 0 .. n /\ (j + 1) - 1 = j
      BY <1>1
    <2>2. /\ g[j + 1] = g[j] + (IF j + 1 \in Places(m) THEN Len(q[j + 1]) ELSE 0)
          /\ h[j + 1] = h[j] + Len(q[j + 1])
      BY <1>5, <1>11, <2>1
    <2>3. /\ g[j] \in Nat /\ h[j] \in Nat /\ Len(q[j + 1]) \in Nat /\ g[j] <= h[j]
          /\ g[j + 1] \in Nat /\ h[j + 1] \in Nat
      BY <1>1, <1>5, <1>11, <1>13, <2>1
    <2>4. g[j + 1] <= h[j + 1]
      BY <2>2, <2>3
    <2> QED
      BY <2>1, <2>4
  <1> HIDE DEF Q
  <1>14. \A j \in 0 .. n : j \in Q
    BY <1>1, <1>12, <1>13, Induction
  <1>15. n \in Q /\ n \in 0 .. n /\ m \in 0 .. m
    BY <1>1, <1>14
  <1>16. g[n] <= h[n]
    BY <1>15 DEF Q
  <1> QED
    BY <1>4, <1>5, <1>10, <1>15, <1>16

-----------------------------------------------------------------------------
(* What validate accepts.                                                  *)

FileType ==
    /\ DOMAIN cfg = {"production_chain", "maintenance_chain", "endpoints", "static_hosts"}
    /\ cfg.production_chain \in CharText /\ cfg.maintenance_chain \in CharText
    /\ cfg.endpoints \in Seq(CharText) /\ cfg.static_hosts \in Seq(Seq(CharText))

(* The names of the endpoints of an accepted file, one for each.           *)
LEMMA NamesAccepted ==
    ASSUME FileType, validate(cfg)
    PROVE  LET names == endpoint_names(cfg)
               n     == Len(cfg.endpoints)
           IN  /\ n \in Nat /\ DOMAIN names = 1 .. n
               /\ \A i \in 1 .. n : /\ names[i] \in CharText
                                    /\ normalize_name(names[i]) = names[i]
                                    /\ Fields(names[i]) = {names[i]}
               /\ \A i, j \in 1 .. n : names[i] = names[j] => i = j
               /\ IsFiniteSet(ToSet(names)) /\ Cardinality(ToSet(names)) = n
  <1> DEFINE es == cfg.endpoints  n == Len(es)  names == endpoint_names(cfg)
  <1>1. es \in Seq(CharText)
    BY DEF FileType
  <1> HIDE DEF es
  <1>2. n \in Nat /\ DOMAIN es = 1 .. n /\ \A i \in 1 .. n : es[i] \in CharText
    BY <1>1
  <1>3. names = [i \in 1 .. n |-> normalize_name(es[i])]
    BY <1>2 DEF endpoint_names, es
  <1>4. DOMAIN names = 1 .. n /\ \A i \in 1 .. n : names[i] = normalize_name(es[i])
    BY <1>3
  <1> HIDE DEF names
  <1>5. /\ \A i \in DOMAIN names : is_hostname(names[i])
        /\ \A i, j \in DOMAIN names : names[i] = names[j] => i = j
    BY Zenon DEF validate, endpoints_ok, names
  <1>6. ASSUME NEW i \in 1 .. n
        PROVE  /\ names[i] \in CharText
               /\ normalize_name(names[i]) = names[i]
               /\ Fields(names[i]) = {names[i]}
    <2>1. es[i] \in CharText /\ is_hostname(normalize_name(es[i])) /\ names[i] = normalize_name(es[i])
      BY <1>2, <1>4, <1>5
    <2> QED
      BY <2>1, NormalAgain
  <1>7. IsFiniteSet(ToSet(names)) /\ Cardinality(ToSet(names)) = n
    <2> DEFINE S == ToSet(names)
    <2>1. S = {names[i] : i \in 1 .. n}
      BY <1>4 DEF ToSet
    <2>2. names = [i \in 1 .. n |-> names[i]]
      BY <1>3, <1>4
    <2>3. names \in [1 .. n -> S]
      BY <2>1, <2>2
    <2> HIDE DEF S
    <2>4. \A x \in S : \E i \in 1 .. n : names[i] = x
      BY <2>1
    <2>5. names \in Surjection(1 .. n, S)
      BY <2>3, <2>4 DEF Surjection
    <2>6. \A i, j \in 1 .. n : names[i] = names[j] => i = j
      BY <1>4, <1>5
    <2>7. names \in Injection(1 .. n, S)
      BY <2>3, <2>6 DEF Injection, IsInjective
    <2>8. IsFiniteSet(1 .. n) /\ Cardinality(1 .. n) = n
      BY <1>2, FS_Interval
    <2>9. IsFiniteSet(S) /\ Cardinality(S) = n
      BY <2>5, <2>7, <2>8, FS_Surjection
    <2> QED
      BY <2>9 DEF S
  <1>8. \A i, j \in 1 .. n : names[i] = names[j] => i = j
    BY <1>4, <1>5
  <1> QED
    BY <1>2, <1>4, <1>6, <1>7, <1>8 DEF names, es

(* Accepted endpoints are keys.                                            *)
LEMMA KeysHold ==
    ASSUME FileType
    PROVE  EndpointsAreKeys
  <1> SUFFICES ASSUME validate(cfg) PROVE EndpointsAreKeys
    BY DEF EndpointsAreKeys
  <1> DEFINE n == Len(cfg.endpoints)  names == endpoint_names(cfg)
  <1>1. /\ n \in Nat /\ DOMAIN names = 1 .. n
        /\ \A i \in 1 .. n : normalize_name(names[i]) = names[i]
        /\ Cardinality(ToSet(names)) = n
    BY NamesAccepted
  <1> HIDE DEF names
  <1>2. \A x \in ToSet(names) : normalize_name(x) = x
    BY <1>1 DEF ToSet
  <1> QED
    BY <1>1, <1>2 DEF EndpointsAreKeys, names

(* A comment for some of them fits, since one for all of them does, and    *)
(* its fields are their names.                                             *)
LEMMA CommentsHold ==
    ASSUME FileType
    PROVE  CommentsKeepNames
  <1> SUFFICES ASSUME validate(cfg), NEW S \in SUBSET ToSet(endpoint_names(cfg))
               PROVE  /\ Len(join(SetToSeq(S))) <= MaxJoined
                      /\ Fields(join(SetToSeq(S))) = S
    BY Zenon DEF CommentsKeepNames
  <1> DEFINE n == Len(cfg.endpoints)  names == endpoint_names(cfg)  E == ToSet(names)
             p == SetToSeq(S)  q == SetToSeq(E)
  <1>1. /\ n \in Nat /\ DOMAIN names = 1 .. n
        /\ \A i \in 1 .. n : names[i] \in CharText /\ Fields(names[i]) = {names[i]}
        /\ IsFiniteSet(E)
    BY NamesAccepted
  <1>2. Total(q) + Cardinality(E) - 1 <= MaxJoined
    BY Zenon DEF validate, joined
  <1> HIDE DEF names
  <1>3. \A x \in E : x \in CharText /\ Fields(x) = {x}
    BY <1>1 DEF ToSet
  <1>4. S \subseteq E
    BY DEF names
  <1> HIDE DEF E
  <1>5. IsFiniteSet(S) /\ Cardinality(S) <= Cardinality(E)
    BY <1>1, <1>4, FS_Subset
  <1>6. /\ p \in Seq(S) /\ DOMAIN p = 1 .. Cardinality(S) /\ Cardinality(S) \in Nat
        /\ \A i, j \in 1 .. Cardinality(S) : p[i] = p[j] => i = j
        /\ \A x \in S : \E i \in 1 .. Cardinality(S) : p[i] = x
    BY <1>5, SetToSeqIs
  <1>7. /\ q \in Seq(E) /\ DOMAIN q = 1 .. Cardinality(E) /\ Cardinality(E) \in Nat
        /\ \A x \in E : \E i \in 1 .. Cardinality(E) : q[i] = x
    BY <1>1, SetToSeqIs
  <1> HIDE DEF p, q
  <1>8. Len(p) = Cardinality(S) /\ Len(q) = Cardinality(E)
    BY <1>6, <1>7
  <1>9. p \in Seq(CharText) /\ q \in Seq(CharText)
    <2>1. S \subseteq CharText /\ E \subseteq CharText
      BY <1>3, <1>4
    <2> HIDE DEF CharText
    <2>2. \A i \in 1 .. Len(p) : p[i] \in CharText
      BY <1>6, <2>1
    <2>3. \A i \in 1 .. Len(q) : q[i] \in CharText
      BY <1>7, <2>1
    <2> QED
      BY <1>6, <1>7, <2>2, <2>3
  <1>10. \A i \in 1 .. Len(p) : p[i] \in S
    BY <1>6
  <1>11. Total(p) <= Total(q) /\ Total(p) \in Nat /\ Total(q) \in Nat
    <2>1. \A i, j \in 1 .. Len(p) : p[i] = p[j] => i = j
      BY <1>6, <1>8
    <2>2. \A i \in 1 .. Len(p) : \E j \in 1 .. Len(q) : q[j] = p[i]
      BY <1>4, <1>7, <1>8, <1>10
    <2> QED
      BY <1>9, <2>1, <2>2, TotalOfSome
  <1>12. /\ Fields(join(p)) = UNION {Fields(p[i]) : i \in 1 .. Len(p)}
         /\ p = <<>> => join(p) = <<>>
         /\ p # <<>> => Len(join(p)) = Total(p) + Len(p) - 1
    BY <1>9, JoinIs
  <1>13. Len(join(p)) <= MaxJoined
    <2>1. CASE p = <<>>
      <3>1. Len(join(p)) = 0
        BY <1>12, <2>1
      <3> QED
        BY <3>1, LimitsAssumption
    <2>2. CASE p # <<>>
      <3>1. Len(join(p)) = Total(p) + Cardinality(S) - 1
        BY <1>8, <1>12, <2>2
      <3>2. MaxJoined \in Nat
        BY LimitsAssumption
      <3> QED
        BY <1>2, <1>5, <1>6, <1>7, <1>11, <3>1, <3>2
    <2> QED
      BY <2>1, <2>2
  <1>14. Fields(join(p)) = S
    <2>1. \A i \in 1 .. Len(p) : Fields(p[i]) = {p[i]}
      BY <1>3, <1>4, <1>10
    <2>2. \A x \in S : \E i \in 1 .. Len(p) : p[i] = x
      BY <1>6, <1>8
    <2> DEFINE U == UNION {Fields(p[i]) : i \in 1 .. Len(p)}
    <2>3. \A x : x \in U <=> \E i \in 1 .. Len(p) : x \in Fields(p[i])
      OBVIOUS
    <2> HIDE DEF U
    <2>4. \A x : x \in U <=> \E i \in 1 .. Len(p) : x = p[i]
      <3>1. \A i \in 1 .. Len(p) : \A x : x \in Fields(p[i]) <=> x = p[i]
        BY <2>1
      <3> QED
        BY <2>3, <3>1, Zenon
    <2>5. U = S
      BY <1>10, <2>2, <2>4
    <2> QED
      BY <1>12, <2>5 DEF U
  <1> QED
    BY <1>13, <1>14 DEF p

(* The fields of a static line are the trimmed names of its host.          *)
LEMMA LinesHold ==
    ASSUME FileType
    PROVE  StaticLinesFaithful
  <1> SUFFICES ASSUME validate(cfg), NEW h \in ToSet(cfg.static_hosts)
               PROVE  {normalize_name(w) : w \in Fields(join(h))} = {normalize_name(x) : x \in ToSet(h)}
    BY Zenon DEF StaticLinesFaithful
  <1> DEFINE hs == cfg.static_hosts
  <1>1. hs \in Seq(Seq(CharText))
    BY DEF FileType
  <1>2. \A j \in DOMAIN hs : \A i \in DOMAIN hs[j] : is_hostname(normalize_name(hs[j][i]))
    BY Zenon DEF validate, static_hosts_ok
  <1>3. PICK j \in DOMAIN hs : h = hs[j]
    BY DEF ToSet
  <1>4. h \in Seq(CharText)
    BY <1>1, <1>3
  <1>5. \A i \in DOMAIN h : is_hostname(normalize_name(h[i]))
    BY <1>2, <1>3
  <1>6. DOMAIN h = 1 .. Len(h) /\ \A i \in 1 .. Len(h) : h[i] \in CharText
    BY <1>4
  <1>7. \A i \in 1 .. Len(h) : /\ Fields(h[i]) = {Trim(h[i])}
                               /\ normalize_name(Trim(h[i])) = normalize_name(h[i])
    BY <1>5, <1>6, NormalAgain
  <1> DEFINE F == Fields(join(h))
  <1>8. F = UNION {Fields(h[i]) : i \in 1 .. Len(h)}
    BY <1>4, JoinIs
  <1> HIDE DEF F
  <1>9. \A w : w \in F <=> \E i \in 1 .. Len(h) : w \in Fields(h[i])
    BY <1>8
  <1>10. \A w : w \in F <=> \E i \in 1 .. Len(h) : w = Trim(h[i])
    <2>1. \A i \in 1 .. Len(h) : \A w : w \in Fields(h[i]) <=> w = Trim(h[i])
      BY <1>7
    <2> QED
      BY <1>9, <2>1, Zenon
  <1>11. \A x : x \in ToSet(h) <=> \E i \in 1 .. Len(h) : x = h[i]
    BY <1>6 DEF ToSet
  <1> DEFINE A == {normalize_name(w) : w \in F}  B == {normalize_name(x) : x \in ToSet(h)}
  <1>12. \A y : y \in A <=> \E w \in F : y = normalize_name(w)
    OBVIOUS
  <1>13. \A y : y \in B <=> \E x \in ToSet(h) : y = normalize_name(x)
    OBVIOUS
  <1> HIDE DEF A, B
  <1>14. \A y : y \in A <=> \E i \in 1 .. Len(h) : y = normalize_name(h[i])
    BY <1>7, <1>10, <1>12
  <1>15. \A y : y \in B <=> \E i \in 1 .. Len(h) : y = normalize_name(h[i])
    BY <1>11, <1>13
  <1>16. A = B
    BY <1>14, <1>15
  <1> QED
    BY <1>16 DEF A, B, F

-----------------------------------------------------------------------------
(* Chains.                                                                 *)

(* What precedes the rules of a chain, character by character.             *)
LEMMA PrefixIs ==
    ASSUME NEW c \in CharText
    PROVE  /\ prefix(c) \in CharText /\ Len(prefix(c)) = Len(c) + 4 /\ Len(c) \in Nat
           /\ \A i \in 1 .. Len(c) : prefix(c)[3 + i] = c[i]
           /\ prefix(c)[Len(c) + 4] = Blank
  <1> DEFINE start == <<Hyphen, Upper, Blank>>  B == <<Blank>>
             u == start \o c  w == u \o B
  <1>1. Hyphen \in Chars /\ Upper \in Chars /\ Blank \in Chars
    BY DEF Chars
  <1>2. start \in Seq(Chars) /\ Len(start) = 3 /\ B \in Seq(Chars) /\ Len(B) = 1 /\ B[1] = Blank
    BY <1>1
  <1>3. c \in Seq(Chars) /\ Len(c) \in Nat
    BY TextIs
  <1> HIDE DEF start, B
  <1>4. /\ u \in Seq(Chars) /\ Len(u) = Len(start) + Len(c)
        /\ \A i \in 1 .. Len(c) : u[Len(start) + i] = c[i]
    BY <1>2, <1>3, TwoTexts
  <1> HIDE DEF u
  <1>5. /\ w \in Seq(Chars) /\ Len(w) = Len(u) + Len(B)
        /\ \A i \in 1 .. Len(u) : w[i] = u[i]
        /\ \A i \in 1 .. Len(B) : w[Len(u) + i] = B[i]
    BY <1>2, <1>4, TwoTexts
  <1>6. prefix(c) = w
    BY Zenon DEF prefix, w, u, start, B
  <1> HIDE DEF w
  <1>7. Len(u) = 3 + Len(c) /\ Len(w) = Len(c) + 4
    BY <1>2, <1>3, <1>4, <1>5
  <1>8. \A i \in 1 .. Len(c) : w[3 + i] = c[i]
    <2> TAKE i \in 1 .. Len(c)
    <2>1. 3 + i \in 1 .. Len(u)
      BY <1>3, <1>7
    <2> QED
      BY <1>2, <1>4, <1>5, <2>1
  <1>9. w[Len(c) + 4] = Blank
    <2>1. 1 \in 1 .. Len(B) /\ Len(u) + 1 = Len(c) + 4
      BY <1>2, <1>3, <1>7
    <2> QED
      BY <1>2, <1>5, <2>1
  <1>10. w \in CharText
    BY <1>5, Zenon DEF CharText
  <1> QED
    BY <1>3, <1>6, <1>7, <1>8, <1>9, <1>10

(* A chain whose listing starts like a rule of another is that other.      *)
LEMMA SameChain ==
    ASSUME NEW p \in CharText, NEW m \in CharText, p # <<>>,
           \A k \in 1 .. Len(m) : m[k] # Blank, \A k \in 1 .. Len(p) : p[k] # Blank,
           IsPrefix(prefix(p), prefix(m) \o <<Hyphen>>)
    PROVE  p = m
  <1> DEFINE a == prefix(p)  b == prefix(m)  H == <<Hyphen>>  r == b \o H
  <1>1. /\ a \in CharText /\ Len(a) = Len(p) + 4 /\ Len(p) \in Nat
        /\ \A i \in 1 .. Len(p) : a[3 + i] = p[i]
        /\ a[Len(p) + 4] = Blank
    BY PrefixIs
  <1>2. /\ b \in CharText /\ Len(b) = Len(m) + 4 /\ Len(m) \in Nat
        /\ \A i \in 1 .. Len(m) : b[3 + i] = m[i]
        /\ b[Len(m) + 4] = Blank
    BY PrefixIs
  <1>3. Hyphen \in Chars /\ Hyphen # Blank
    BY DEF Chars, Hyphen, Blank
  <1>4. H \in Seq(Chars) /\ Len(H) = 1 /\ H[1] = Hyphen
    BY <1>3
  <1> HIDE DEF H
  <1>5. Len(a) <= Len(r) /\ SubSeq(a, 1, Len(a)) = SubSeq(r, 1, Len(a))
    BY DEF IsPrefix, H
  <1>6. Len(p) # 0
    BY <1>1, TextIs
  <1> HIDE DEF a, b
  <1>7. b \in Seq(Chars)
    BY <1>2, TextIs
  <1>8. /\ r \in Seq(Chars) /\ Len(r) = Len(b) + Len(H)
        /\ \A i \in 1 .. Len(b) : r[i] = b[i]
        /\ \A i \in 1 .. Len(H) : r[Len(b) + i] = H[i]
    BY <1>4, <1>7, TwoTexts
  <1> HIDE DEF r
  <1>9. r \in CharText /\ Len(r) = Len(m) + 5
    <2>1. r \in CharText
      BY <1>8, Zenon DEF CharText
    <2>2. Len(r) = Len(m) + 5
      BY <1>2, <1>4, <1>8
    <2> QED
      BY <2>1, <2>2
  <1>10. r[Len(m) + 5] = Hyphen
    <2>1. 1 \in 1 .. Len(H) /\ Len(b) + 1 = Len(m) + 5
      BY <1>2, <1>4
    <2> QED
      BY <1>4, <1>8, <2>1
  <1>11. \A k \in 1 .. Len(a) : a[k] = r[k]
    <2>1. /\ 1 \in 1 .. Len(a) /\ Len(a) \in 0 .. Len(a) /\ 1 <= Len(a) + 1
          /\ 1 \in 1 .. Len(r) /\ Len(a) \in 0 .. Len(r) /\ Len(a) - 1 + 1 = Len(a)
      BY <1>1, <1>2, <1>5, <1>9
    <2>2. \A i \in 1 .. Len(a) - 1 + 1 : SubSeq(a, 1, Len(a))[i] = a[1 + i - 1]
      BY <1>1, <2>1, PartOfText
    <2>3. \A i \in 1 .. Len(a) - 1 + 1 : SubSeq(r, 1, Len(a))[i] = r[1 + i - 1]
      BY <1>9, <2>1, PartOfText
    <2> TAKE k \in 1 .. Len(a)
    <2>4. 1 + k - 1 = k /\ k \in 1 .. Len(a) - 1 + 1
      BY <2>1
    <2> QED
      BY <1>5, <2>2, <2>3, <2>4
  <1>12. r[Len(p) + 4] = Blank
    <2>1. Len(p) + 4 \in 1 .. Len(a)
      BY <1>1
    <2> QED
      BY <1>1, <1>11, <2>1
  <1>13. \A i \in 1 .. Len(m) : r[3 + i] = m[i]
    <2> TAKE i \in 1 .. Len(m)
    <2>1. 3 + i \in 1 .. Len(b)
      BY <1>2
    <2> QED
      BY <1>2, <1>8, <2>1
  <1>14. Len(p) = Len(m)
    <2>1. Len(p) + 4 <= Len(m) + 5
      BY <1>1, <1>5, <1>9
    <2>2. Len(p) + 4 # Len(m) + 5
      BY <1>3, <1>10, <1>12
    <2>3. ASSUME Len(p) < Len(m) PROVE FALSE
      <3>1. Len(p) + 1 \in 1 .. Len(m) /\ 3 + (Len(p) + 1) = Len(p) + 4
        BY <1>1, <1>2, <2>3
      <3> QED
        BY <1>12, <1>13, <3>1
    <2> QED
      BY <1>1, <1>2, <2>1, <2>2, <2>3
  <1>15. \A i \in 1 .. Len(p) : p[i] = m[i]
    <2> TAKE i \in 1 .. Len(p)
    <2>1. 3 + i \in 1 .. Len(a) /\ i \in 1 .. Len(m)
      BY <1>1, <1>14
    <2> QED
      BY <1>1, <1>11, <1>13, <2>1
  <1> QED
    BY <1>14, <1>15, SameText

(* Accepted chain names differ and have no blank.                          *)
LEMMA ChainsHold ==
    ASSUME FileType
    PROVE  ChainsNotConfused
  <1> SUFFICES ASSUME validate(cfg)
               PROVE  /\ ~IsPrefix(prefix(cfg.production_chain), prefix(cfg.maintenance_chain) \o <<Hyphen>>)
                      /\ ~IsPrefix(prefix(cfg.maintenance_chain), prefix(cfg.production_chain) \o <<Hyphen>>)
    BY Zenon DEF ChainsNotConfused
  <1> DEFINE p == cfg.production_chain  m == cfg.maintenance_chain
  <1>1. p \in CharText /\ m \in CharText
    BY DEF FileType
  <1>2. p # m /\ is_chain_name(p) /\ is_chain_name(m)
    BY Zenon DEF validate
  <1> HIDE DEF p, m
  <1>3. Blank \notin {Lower, Upper, "_", Hyphen}
    BY DEF Lower, Upper, Hyphen, Blank
  <1>4. p # <<>> /\ \A k \in 1 .. Len(p) : p[k] # Blank
    BY <1>1, <1>2, <1>3, TextIs DEF is_chain_name
  <1>5. m # <<>> /\ \A k \in 1 .. Len(m) : m[k] # Blank
    BY <1>1, <1>2, <1>3, TextIs DEF is_chain_name
  <1>6. ~IsPrefix(prefix(p), prefix(m) \o <<Hyphen>>)
    BY <1>1, <1>2, <1>4, <1>5, SameChain
  <1>7. ~IsPrefix(prefix(m), prefix(p) \o <<Hyphen>>)
    BY <1>1, <1>2, <1>4, <1>5, SameChain
  <1> QED
    BY <1>6, <1>7 DEF p, m

-----------------------------------------------------------------------------
(* A file holds texts, whatever is written next.                           *)

(* One more character.                                                     *)
LEMMA OneMore ==
    ASSUME NEW t \in CharText, NEW ch \in Chars
    PROVE  Append(t, ch) \in CharText
  BY DEF CharText

(* A list of texts, or a list of them with something added.                *)
LEMMA LongerType ==
    ASSUME NEW names \in Seq(CharText), NEW chars, chars \subseteq Chars, NEW e \in Longer(names, chars)
    PROVE  e \in Seq(CharText)
  <1>1. CASE e = Append(names, <<>>)
    <2>1. <<>> \in CharText
      BY DEF CharText
    <2> HIDE DEF CharText
    <2> QED
      BY <1>1, <2>1
  <1>2. ASSUME NEW ch \in chars, names # <<>>, e = [names EXCEPT ![Len(names)] = Append(@, ch)]
        PROVE  e \in Seq(CharText)
    <2>1. Len(names) \in DOMAIN names
      BY <1>2
    <2>2. \A t \in CharText : Append(t, ch) \in CharText
      BY <1>2, OneMore
    <2>3. Append(names[Len(names)], ch) \in CharText
      BY <2>1, <2>2
    <2> HIDE DEF CharText
    <2> QED
      BY <1>2, <2>1, <2>3
  <1> QED
    BY <1>1, <1>2 DEF Longer

(* An empty file holds texts.                                              *)
LEMMA FileTypeInit ==
    ASSUME ConfigInit
    PROVE  FileType
  <1>1. <<Lower>> \in CharText /\ <<>> \in CharText
    <2>1. Lower \in Chars
      BY DEF Chars
    <2> QED
      BY <2>1 DEF CharText
  <1>2. <<>> \in Seq(CharText) /\ <<>> \in Seq(Seq(CharText))
    OBVIOUS
  <1> HIDE DEF CharText
  <1> DEFINE L == <<Lower>>  E == <<>>
  <1>3. L \in CharText /\ E \in CharText /\ E \in Seq(CharText) /\ E \in Seq(Seq(CharText))
    BY <1>1, <1>2
  <1>4. cfg = [production_chain |-> L, maintenance_chain |-> E, endpoints |-> E, static_hosts |-> E]
    BY DEF ConfigInit
  <1> HIDE DEF L, E
  <1> QED
    BY <1>3, <1>4 DEF FileType

(* So does a file with something added.                                    *)
LEMMA FileTypeStep ==
    ASSUME FileType, ConfigNext
    PROVE  FileType'
  <1>0. /\ cfg.maintenance_chain \in CharText
        /\ cfg.endpoints \in Seq(CharText) /\ cfg.static_hosts \in Seq(Seq(CharText))
    BY DEF FileType
  <1>1. ASSUME NEW e \in Longer(cfg.endpoints, Chars), cfg' = [cfg EXCEPT !.endpoints = e]
        PROVE  FileType'
    <2>1. e \in Seq(CharText)
      BY <1>0, <1>1, LongerType
    <2> HIDE DEF CharText
    <2> QED
      BY <1>1, <2>1 DEF FileType
  <1>2. ASSUME NEW x \in Seq(Seq(CharText)), cfg' = [cfg EXCEPT !.static_hosts = x]
        PROVE  FileType'
    <2> HIDE DEF CharText
    <2> QED
      BY <1>2 DEF FileType
  <1>3. ASSUME NEW ch \in {Lower, Blank, "_"},
               cfg' = [cfg EXCEPT !.maintenance_chain = Append(cfg.maintenance_chain, ch)]
        PROVE  FileType'
    <2>1. ch \in Chars
      BY DEF Chars
    <2>2. \A t \in CharText : Append(t, ch) \in CharText
      BY <2>1, OneMore
    <2> DEFINE x == Append(cfg.maintenance_chain, ch)
    <2>3. x \in CharText
      BY <1>0, <2>2
    <2> HIDE DEF CharText, x
    <2>4. cfg' = [cfg EXCEPT !.maintenance_chain = x]
      BY <1>3 DEF x
    <2> QED
      BY <2>3, <2>4 DEF FileType
  <1>4. <<>> \in Seq(CharText)
    OBVIOUS
  <1>5. Append(cfg.static_hosts, <<>>) \in Seq(Seq(CharText))
    <2> DEFINE hs == cfg.static_hosts  S == Seq(CharText)
    <2>1. hs \in Seq(S) /\ <<>> \in S
      BY <1>0, <1>4
    <2> HIDE DEF hs, S
    <2>2. Append(hs, <<>>) \in Seq(S)
      BY <2>1
    <2> QED
      BY <2>2 DEF hs, S
  <1>6. ASSUME cfg.static_hosts # <<>>,
               NEW h \in Longer(Last(cfg.static_hosts), {Lower, Upper, Dot, Blank})
        PROVE  Append(Front(cfg.static_hosts), h) \in Seq(Seq(CharText))
    <2> DEFINE hs == cfg.static_hosts  S == Seq(CharText)
    <2>1. hs \in Seq(S) /\ hs # <<>>
      BY <1>0, <1>6
    <2> HIDE DEF hs, S
    <2>2. Last(hs) \in S /\ Front(hs) \in Seq(S)
      BY <2>1 DEF Last, Front
    <2>3. {Lower, Upper, Dot, Blank} \subseteq Chars
      BY DEF Chars
    <2>4. h \in S
      BY <1>6, <2>2, <2>3, LongerType DEF hs, S
    <2>5. Append(Front(hs), h) \in Seq(S)
      BY <2>2, <2>4
    <2> QED
      BY <2>5 DEF hs, S
  <1>7. \/ \E e \in Longer(cfg.endpoints, Chars) : cfg' = [cfg EXCEPT !.endpoints = e]
        \/ cfg' = [cfg EXCEPT !.static_hosts = Append(cfg.static_hosts, <<>>)]
        \/ /\ cfg.static_hosts # <<>>
           /\ \E h \in Longer(Last(cfg.static_hosts), {Lower, Upper, Dot, Blank}) :
                 cfg' = [cfg EXCEPT !.static_hosts = Append(Front(cfg.static_hosts), h)]
        \/ \E ch \in {Lower, Blank, "_"} :
              cfg' = [cfg EXCEPT !.maintenance_chain = Append(cfg.maintenance_chain, ch)]
    <2>1. PICK c \in {[cfg EXCEPT !.endpoints = e] : e \in Longer(cfg.endpoints, Chars)}
                     \cup {[cfg EXCEPT !.static_hosts = Append(cfg.static_hosts, <<>>)]}
                     \cup {[cfg EXCEPT !.static_hosts = Append(Front(cfg.static_hosts), h)] :
                              h \in IF cfg.static_hosts = <<>> THEN {}
                                    ELSE Longer(Last(cfg.static_hosts), {Lower, Upper, Dot, Blank})}
                     \cup {[cfg EXCEPT !.maintenance_chain = Append(cfg.maintenance_chain, ch)] :
                              ch \in {Lower, Blank, "_"}} : cfg' = c
      BY DEF ConfigNext
    <2> QED
      BY <2>1
  <1> QED
    BY <1>1, <1>2, <1>3, <1>5, <1>6, <1>7

(* The check of host names accepts the documented language, however long   *)
(* names and labels may be (is_hostname, is_label).                        *)
THEOREM HostnamesExactThm == ConfigSpec => []HostnamesExact
  <1>1. FileType /\ [ConfigNext]_cfg => FileType'
    <2>1. FileType /\ UNCHANGED cfg => FileType'
      BY DEF FileType
    <2> QED
      BY <2>1, FileTypeStep
  <1>2. FileType => HostnamesExact
    <2> SUFFICES ASSUME FileType, NEW i \in DOMAIN cfg.endpoints
                 PROVE  is_hostname(cfg.endpoints[i]) <=> Hostname(cfg.endpoints[i])
      BY DEF HostnamesExact
    <2>1. cfg.endpoints[i] \in CharText
      BY DEF FileType
    <2> QED
      BY <2>1, SameLanguage DEF CharText
  <1> QED
    BY <1>1, <1>2, FileTypeInit, PTL DEF ConfigSpec

(* What validate accepts, the other parts can take for atoms, whatever the *)
(* limits: names are keys, and comments, hosts lines and listings keep     *)
(* them apart (Config::validate).                                          *)
THEOREM TextKeepsNamesThm == ConfigSpec => []TextKeepsNames
  <1>1. FileType /\ [ConfigNext]_cfg => FileType'
    <2>1. FileType /\ UNCHANGED cfg => FileType'
      BY DEF FileType
    <2> QED
      BY <2>1, FileTypeStep
  <1>2. FileType => TextKeepsNames
    BY KeysHold, CommentsHold, LinesHold, ChainsHold DEF TextKeepsNames
  <1> QED
    BY <1>1, <1>2, FileTypeInit, PTL DEF ConfigSpec

=============================================================================
