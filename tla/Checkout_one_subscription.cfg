SPECIFICATION Spec
CONSTANTS
    Accounts = {a1}
    Requests = {r1, r2}
    Keys = {k1, k2}
    NoOne = NoOne
    AttemptLife = 2
    MaxWait = 0
    MaxTime = 1
    MaxChanges = 1
INVARIANT OneSubscription
CHECK_DEADLOCK FALSE
