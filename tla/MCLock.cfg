\* Three processes on time; one tenure is shorter than the timeout, two are not.
CONSTANTS
    p1 = p1
    p2 = p2
    p3 = p3
    Free = Free
    Procs <- MCProcs
    Timeout = 2
    Hold = 1
    Delay = 0

SPECIFICATION FairSpec

INVARIANTS
    Overtaken

PROPERTIES
    EveryWaitEnds
