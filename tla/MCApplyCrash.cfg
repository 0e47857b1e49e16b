\* One endpoint, one apply and one resolve process: kills at any step, lost
\* status files, failed and late restores, and rules added by others.
CONSTANTS
    n1 = n1
    a1 = a1
    a2 = a2
    p1 = p1
    p2 = p2
    r1 = r1
    r2 = r2
    Names <- MCNames
    Required <- MCNames
    Addrs <- MCAddrs
    Global <- MCAddrs
    Replies <- GrowingReplies
    MaxAddresses = 1
    Appliers = {p1}
    Resolvers = {r1}
    MaxAge = 1
    MaxTime = 2
    Faults = {"crash", "status", "foreign", "restore", "late"}

SPECIFICATION Spec

INVARIANTS
    PublishedWasInstalled
    DescribesInstalled
    SweptClean

PROPERTIES
    ImplementsPolicy
