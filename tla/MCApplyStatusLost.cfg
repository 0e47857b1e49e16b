\* Writing status.json may fail, nothing else does; two resolves overlap.
CONSTANTS
    n1 = n1
    a1 = a1
    a2 = a2
    p1 = p1
    p2 = p2
    r1 = r1
    r2 = r2
    Names <- MCNames
    Required <- MCNames
    Addrs <- MCAddrs
    Global <- MCAddrs
    Replies <- MoveReplies
    MaxAddresses = 2
    Appliers = {p1}
    Resolvers = {r1, r2}
    MaxAge = 2
    MaxTime = 3
    Faults = {"status"}

SPECIFICATION Spec

PROPERTIES
    NoRollback
