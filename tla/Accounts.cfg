SPECIFICATION RunSpec
CONSTANTS
    Accounts = {h1, h2}
    SessionIds = {s1, s2}
    Requests = {r1, r2}
    NoOne = NoOne
    Roles = {"admin", "editor"}
    FirstRole <- MCFirstRole
    Expiries = {1}
    Never = Never
    Absolute = 3
    IdleLife = 2
    TouchInterval = 1
    MaxTime = 3
    MaxChanges = 1
    h1 = h1
    h2 = h2
    s1 = s1
    s2 = s2
    Recipients = {a1}
    Challenges = {c1, c2, c3}
    Life = 1
    MaxAttempts = 1
    FailureLimit = 1
    MaxMoment = 1
    MaxDeaths = 1
    c1 = c1
    c2 = c2
    c3 = c3
SYMMETRY AccountSymmetry
INVARIANTS
    TypeOK
    OneSessionPerCode
    ConsumedWithinLimit
    NewerCodeWins
    SignInsSound
    StandsOnItsAccount
PROPERTIES
    EndedLetsNobodyIn
CHECK_DEADLOCK FALSE
