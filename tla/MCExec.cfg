\* Input and output both exceed a pipe; the early output may fill one. A call ends.
CONSTANTS
    Cap = 2
    Early = 2
    MaxInput = 4
    MaxOutput = 4

SPECIFICATION ExecFairSpec

CHECK_DEADLOCK FALSE

INVARIANTS
    NoCommandLeftRunning
    OkIsComplete

PROPERTIES
    EveryCallEnds
