\* Kills that come to an end and restores that do not fail for ever.
CONSTANTS
    n1 = n1
    a1 = a1
    a2 = a2
    p1 = p1
    p2 = p2
    r1 = r1
    r2 = r2
    Names <- MCNames
    Required <- MCNames
    Addrs <- MCAddrs
    Global <- MCAddrs
    Replies <- MoveReplies
    MaxAddresses = 2
    Appliers = {p1}
    Resolvers = {r1}
    MaxAge = 1
    MaxTime = 2
    Faults = {"crash", "restore"}

SPECIFICATION FairSpec

PROPERTIES
    FreshAnswersLand
    RetiredFlowsDie
