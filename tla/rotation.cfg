SPECIFICATION Spec
CONSTANTS
    Instances = {"a", "b"}
    Skew <- OneAhead
    Slack = 1
    Intervals = {4}
    Lifetime = 6
    LegacyKey = TRUE
    Live = TRUE
    RacingStarts = FALSE
    Epoch = 7
    MaxTime = 21
    MaxStarts = 3
INVARIANTS
    TypeOK
    SignedIsAccepted
    OldSecretsGo
CHECK_DEADLOCK FALSE
