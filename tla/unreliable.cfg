SPECIFICATION FairSpec
CONSTANTS
    c1 = c1
    c2 = c2
    a1 = a1
    a2 = a2
    Clients <- TwoClients
    Authors = {a1, a2}
    AuthorOf <- OwnAuthor
    Joined = {c1, c2}
    Writers = {c1}
    Flaky = {c1}
    Api = Api
    Fix = Fix
    Authenticated = FALSE
    LateReconnect = FALSE
    MaxEdits = 2
    MaxApi = 0
    MaxFix = 0
    MaxConn = 3
INVARIANTS
    OneTabPerAuthor
    PendingRevisionsExist
    HistoryApplies
    RoomSocketsHaveSessions
PROPERTIES
    RevNeverGoesBack
CHECK_DEADLOCK FALSE
