SPECIFICATION FairSpec
CONSTANTS
    MaxVersion = 3
    Broken <- SecondBroken
    Tier = "auto"
    StalePolls = FALSE
    LockRaces = FALSE
    Cancels = {"scheduled", "preflight", "draining", "timer"}
    Deaths = {"rest", "prepare", "boot"}
    MaxKills = 1
INVARIANTS
    CanceledStaysCanceled
CHECK_DEADLOCK FALSE
