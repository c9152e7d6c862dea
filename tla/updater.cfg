SPECIFICATION FairSpec
CONSTANTS
    MaxVersion = 3
    Broken <- SecondBroken
    Tier = "auto"
    StalePolls = FALSE
    LockRaces = FALSE
    Cancels = {"scheduled", "preflight", "draining"}
    Deaths = {"rest", "prepare", "boot"}
    MaxKills = 1
INVARIANTS
    TypeOK
    OneRunHoldsTheLock
    TreeMatchesState
    CanceledStaysCanceled
PROPERTIES
    BrokenReleaseIsLeft
    GateOpensAgain
    UpdateEnds
CHECK_DEADLOCK FALSE
