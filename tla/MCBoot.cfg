CONSTANTS
    MaxAge = 2
    MaxUptime = 4
    MaxBoot = 2
    Survives <- StatusOnly
    IdFails = FALSE
SPECIFICATION FairSpec
INVARIANTS
    PrevIsOfThisBoot
PROPERTIES
    InstalledIsCurrent
    NewAnswersLand
