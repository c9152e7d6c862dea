SPECIFICATION Spec
CONSTANTS
    t1 = t1
    t2 = t2
    Tasks = {t1, t2}
    Pads = {p, q}
    Nothing = Nothing
    Stored = p
    Ops = {"open", "append", "chat", "save", "remove", "copy", "snapshot", "move", "compact", "collapse"}
    KeyInterval = 2
    KeepRevisions = 1
    CopyBatch = 3
    Overlaps = {"chat"}
    MaxCalls = 4
    MaxHead = 3
    MaxCrashes = 1
SYMMETRY TaskSymmetry
INVARIANTS
    TypeOK
    CheckPasses
    CacheMatches
    NothingLeftBehind
    AcknowledgedKept
PROPERTIES
    CopyIsSnapshot
CHECK_DEADLOCK FALSE
