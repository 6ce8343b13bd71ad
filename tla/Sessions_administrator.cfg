SPECIFICATION StandingSpec
CONSTANTS
    Accounts = {h1, h2}
    SessionIds = {s1, s2}
    Requests = {r1, r2}
    NoOne = NoOne
    Roles = {"admin", "editor"}
    FirstRole <- MCFirstRole
    Expiries = {}
    Never = Never
    Absolute = 9
    IdleLife = 3
    TouchInterval = 2
    MaxTime = 0
    MaxChanges = 2
    h1 = h1
    h2 = h2
    s1 = s1
    s2 = s2
    Recipients = {a1}
    Challenges = {c1, c2, c3}
    Life = 1
    MaxAttempts = 1
    FailureLimit = 1
    MaxMoment = 0
    MaxDeaths = 0
    c1 = c1
    c2 = c2
    c3 = c3
SYMMETRY AccountSymmetry
INVARIANT AdministratorRemains
CHECK_DEADLOCK FALSE
