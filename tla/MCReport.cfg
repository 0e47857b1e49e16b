\* Two endpoints, two addresses, at most one rule, two ticks; every output may fail.
CONSTANTS
    n1 = n1
    n2 = n2
    a1 = a1
    a2 = a2
    Names <- MCNames
    Required <- MCRequired
    Addrs <- MCAddrs
    Global <- MCAddrs
    Replies <- MCReplies
    Inputs <- MCInputs
    MaxAddresses = 1
    MaxTime = 2

SPECIFICATION Spec

INVARIANTS
    ExitZeroMeansReconciled
    AgeNeverUnderstated
    MetricsDescribeKernel

PROPERTIES
    FailedKillsRetried
