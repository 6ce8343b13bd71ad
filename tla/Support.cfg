SPECIFICATION RunSpec
CONSTANTS
    Accounts = {a1}
    Requests = {r1, r2}
    Keys = {k1, k2, k3}
    NoOne = NoOne
    AttemptLife = 2
    MaxWait = 1
    MaxTime = 3
    MaxChanges = 2
    Supporters = {alice, bob}
    Events <- TwoSubscriptions
    Owner <- MCOwner
    Recorded = {s1}
    MaxClock = 1
    MaxReplays = 1
    MaxDeaths = 1
    alice = alice
    bob = bob
    s1 = s1
    s2 = s2
    s4 = s4
    c1 = c1
    c4 = c4
SYMMETRY Symmetry
INVARIANTS
    TypeOK
    SinglePayable
    OneAsking
    BoundToOwnSession
    CompletionCloses
    LedgerSound
PROPERTIES
    OpensAfterOutcome
    ImplementsMark
CHECK_DEADLOCK FALSE
