\* Two apply and two resolve processes overlap; restores may fail.
CONSTANTS
    n1 = n1
    a1 = a1
    a2 = a2
    p1 = p1
    p2 = p2
    r1 = r1
    r2 = r2
    Names <- MCNames
    Required <- MCNames
    Addrs <- MCAddrs
    Global <- MCAddrs
    Replies <- MoveReplies
    MaxAddresses = 2
    Appliers = {p1, p2}
    Resolvers = {r1, r2}
    MaxAge = 1
    MaxTime = 3
    Faults = {"restore"}

SYMMETRY RaceSymmetry

SPECIFICATION Spec

INVARIANTS
    AtRestConsistent

PROPERTIES
    NoRollback
