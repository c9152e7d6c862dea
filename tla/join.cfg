SPECIFICATION FairSpec
CONSTANTS
    c1 = c1
    c2 = c2
    a1 = a1
    a2 = a2
    Clients <- TwoClients
    Authors = {a1, a2}
    AuthorOf <- OwnAuthor
    Joined = {c1}
    Writers = {c1, c2}
    Flaky = {}
    Api = Api
    Fix = Fix
    Authenticated = FALSE
    LateReconnect = FALSE
    MaxEdits = 1
    MaxApi = 0
    MaxFix = 0
    MaxConn = 1
INVARIANTS
    BaseMatchesRevision
CHECK_DEADLOCK FALSE
