SPECIFICATION FairSpec
CONSTANTS
    MaxVersion = 3
    Broken <- SecondBroken
    Tier = "auto"
    StalePolls = TRUE
    LockRaces = FALSE
    Cancels = {"scheduled", "preflight", "draining"}
    Deaths = {"rest", "prepare", "boot"}
    MaxKills = 1
INVARIANTS
    HealthyIsVerified
CHECK_DEADLOCK FALSE
