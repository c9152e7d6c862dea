SPECIFICATION Spec
CONSTANTS
    Authors = {"a", "b"}
    InitialText <- OneLine
    MaxEdits <- TwoAndOne
    MaxLosses = 1
    Edits = {"insert", "newline", "remove", "replace", "bold"}
INVARIANTS
    TypeOK
    DocIsLayers
    BaseIsRevision
    NeverRejected
PROPERTIES
    TypedTextArrives
    Converges
CHECK_DEADLOCK FALSE
