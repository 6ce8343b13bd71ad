SPECIFICATION RunSpec
CONSTANTS
    Rows = {w1, w2}
    Selections = {{w1}, {w1, w2}}
    Accounts = {a1, a2}
    Handlers = {h1, h2}
    NoOne = NoOne
    Life = 1
    MaxRevisions = 3
    MaxReadings = 2
    MaxTime = 1
    ClusterRows = {m1, m2, m3}
    Cluster = c1
    Base <- MCBase
    None = None
    MaxActions = 2
    Incidents = {i1}
    Signals = {s1}
    Targets = {t1, t2}
    Seen = t1
    MaxDecisions = 2
    MaxRuns = 2
    MaxPerEntry = 2
    MaxSelections = 3
INVARIANTS
    WellFormed
    ArticleSound
    ActsOnWhatItSaw
    
    DraftSound
PROPERTIES
    ImplementsGrouping
SYMMETRY Symmetry
CHECK_DEADLOCK FALSE
