SPECIFICATION Spec
CONSTANTS
    Instances = {"a", "b"}
    Skew <- OneAhead
    Slack = 1
    Intervals = {4}
    Lifetime = 6
    LegacyKey = TRUE
    Live = FALSE
    RacingStarts = FALSE
    Epoch = 6
    MaxTime = 14
    MaxStarts = 3
INVARIANTS
    SignedIsAccepted
CHECK_DEADLOCK FALSE
