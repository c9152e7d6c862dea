SPECIFICATION FairSpec
CONSTANTS
    c1 = c1
    c2 = c2
    a1 = a1
    a2 = a2
    Clients <- TwoClients
    Authors = {a1, a2}
    AuthorOf <- OwnAuthor
    Joined = {c1, c2}
    Writers = {}
    Flaky = {c1}
    Api = Api
    Fix = Fix
    Authenticated = FALSE
    LateReconnect = FALSE
    MaxEdits = 1
    MaxApi = 2
    MaxFix = 0
    MaxConn = 2
INVARIANTS
    ReadersShowPad
PROPERTIES
    EveryoneCatchesUp
CHECK_DEADLOCK FALSE
