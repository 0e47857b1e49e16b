---------------------------- MODULE MCAtomicWrite ----------------------------
(* Two writers that may share a moment, a value or a pid's leftovers.       *)
EXTENDS AtomicWrite, TLC

CONSTANTS p1, p2, r1, v1, v2, i1, i2, i3, i4

MCProcs == {p1, p2}
MCReaders == {r1}
MCValues == {v1, v2}
MCInodes == {i1, i2, i3, i4}

(* Any unused inode is as good as another.                                  *)
SymInodes == Permutations(MCInodes)

=============================================================================
