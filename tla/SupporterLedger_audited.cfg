SPECIFICATION LedgerSpec
CONSTANTS
    Accounts = {a1}
    Requests = {r1, r2}
    Keys = {k1}
    NoOne = NoOne
    AttemptLife = 2
    MaxWait = 1
    MaxTime = 0
    MaxChanges = 0
    Supporters = {alice, bob}
    Events <- FirstEvents
    Owner <- MCOwner
    Recorded = {s1}
    MaxClock = 0
    MaxReplays = 0
    MaxDeaths = 0
    alice = alice
    bob = bob
    s1 = s1
    s2 = s2
    s4 = s4
    c1 = c1
    c4 = c4
INVARIANT ChangesAudited
CHECK_DEADLOCK FALSE
