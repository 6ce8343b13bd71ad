SPECIFICATION Spec
CONSTANTS
    Accounts = {a1}
    Challenges = {c1, c2}
    Requests = {r1, r2}
    NoOne = NoOne
    Life = 1
    MaxAttempts = 1
    FailureLimit = 1
    MaxTime = 1
    MaxDeaths = 1
INVARIANT OneLiveCode
CHECK_DEADLOCK FALSE
