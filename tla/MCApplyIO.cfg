\* One endpoint, one apply and one resolve process: commands and writes fail,
\* the lock or the clock cannot be had; nobody is killed.
CONSTANTS
    n1 = n1
    a1 = a1
    a2 = a2
    p1 = p1
    p2 = p2
    r1 = r1
    r2 = r2
    Names <- MCNames
    Required <- MCNames
    Addrs <- MCAddrs
    Global <- MCAddrs
    Replies <- MovingReplies
    MaxAddresses = 2
    Appliers = {p1}
    Resolvers = {r1}
    MaxAge = 1
    MaxTime = 2
    Faults = {"timeout", "clock", "read", "restore", "hosts", "kill"}

SYMMETRY AddrSymmetry

SPECIFICATION Spec

PROPERTIES
    ProductionReady
    FreshMeansInstalled
