\* Two names share each of two servers; every name has two attempts on each.
CONSTANTS
    n1 = n1
    n2 = n2
    Names <- MCNames
    Servers = 2
    Attempts = 2

SPECIFICATION FairSpec

INVARIANTS
    NothingLost
    TransientIsExhaustive

PROPERTIES
    NoNeedlessQuery
    Terminates

\* The process exits once the answers file is written.
CHECK_DEADLOCK FALSE
