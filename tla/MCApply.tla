------------------------------ MODULE MCApply -------------------------------
(* Apply with one endpoint.                                                *)
EXTENDS Apply, TLC

CONSTANTS n1, a1, a2, p1, p2, r1, r2

MCNames == {n1}
MCAddrs == {a1, a2}

Ok(S) == [outcome |-> "ok", addrs |-> S]
Empty == [outcome |-> "empty", addrs |-> {}]
Transient == [outcome |-> "transient", addrs |-> {}]

(* The endpoint moves between two addresses.                               *)
MoveReplies == {Ok({a1}), Ok({a2})}

(* The same with a negative answer and a failure.                          *)
MovingReplies == MoveReplies \cup {Empty, Transient}

(* With max_addresses = 1, the second answer is over the limit.            *)
GrowingReplies == {Ok({a1}), Ok({a1, a2}), Empty}

(* Every definition treats the processes of a kind alike, and both         *)
(* addresses alike where the replies do.                                   *)
ProcessSymmetry == Permutations({p1, p2}) \cup Permutations({r1, r2})
AddrSymmetry == Permutations({a1, a2})
RaceSymmetry == ProcessSymmetry \cup AddrSymmetry

=============================================================================
