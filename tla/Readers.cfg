SPECIFICATION RunSpec
CONSTANTS
    Requests = {r1, r2}
    Addresses = {x1}
    Handlers = {h1, h2}
    NoOne = NoOne
    Life = 1
    MaxAttempts = 2
    MaxTime = 2
    Revisions = {0, 1, 2}
    Stories = {s1}
    Accounts = {a1, a2}
    NoRevision = NoRevision
    States <- MCStates
    CardLimit = 1
    MaxViews = 1
    Keys = {k1, k2, k3}
    Limit = 1
    Window = 2
    MaxKeys = 2
    MaxInstant = 3
    MaxBurst = 2
    People <- MCPeople
    Newcomers <- MCNewcomers
    RoleOf <- MCRoleOf
    Corpora <- MCCorpora
    Edited <- MCEdited
    Sayings <- MCSayings
    QueuePage = 1
    TablePage = 1
    MaxActs = 2
INVARIANTS
    
    PublicationSound
    PagesSound
    LimitsHold
PROPERTIES
    ImplementsLife
SYMMETRY Symmetry
CHECK_DEADLOCK FALSE
