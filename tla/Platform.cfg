SPECIFICATION RunSpec
CONSTANTS
    u1 = u1
    u2 = u2
    Urls = {u1, u2}
    Bad = Bad
    Blank = Blank
    NoOne = NoOne
    Importers = {i1, i2}
    Texts <- MCTexts
    Labels = {l1}
    MaxEdits = 1
    MaxImports = 2
    Requests = {r1, r2, r3}
    Locks = {k1}
    Size = 2
    MaxDeliveries = 1
    Calls = {c1, c2}
    Permits = 1
    Rate = 1
    Window = 1
    MaxTime = 1
    Runners = {m1, m2}
    Releases <- MCReleases
    Broken = {"bad"}
INVARIANTS
    IntakeSound
    ConnectionsSound
    CallsSound
    MigrationsSound
PROPERTIES
    EveryoneIsServed
CHECK_DEADLOCK FALSE
