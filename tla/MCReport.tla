------------------------------ MODULE MCReport -------------------------------
(* Two endpoints, one of them required, that share two addresses.           *)
EXTENDS Report

CONSTANTS n1, n2, a1, a2

MCNames == {n1, n2}
MCRequired == {n1}
MCAddrs == {a1, a2}

Ok(S) == [outcome |-> "ok", addrs |-> S]
Empty == [outcome |-> "empty", addrs |-> {}]
Transient == [outcome |-> "transient", addrs |-> {}]

MCReplies == {Ok({a1}), Ok({a2}), Empty, Transient}

Both(x, y) == [n \in MCNames |-> IF n = n1 THEN x ELSE y]

(* The endpoints share an address; the required one moves, which is over    *)
(* the limit while the other one keeps its address; it is cleared; there    *)
(* are no answers.                                                          *)
MCInputs == {Both(Ok({a1}), Ok({a1})), Both(Ok({a2}), Transient), Both(Empty, Transient), NoResults}

=============================================================================
