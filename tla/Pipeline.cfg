SPECIFICATION RunSpec
CONSTANTS
    Outputs = {o1}
    Requests = {r1, r2}
    Editors = {e1, e2}
    Cap <- MCCap
    Estimates <- MCEstimates
    Retries = 1
    MaxRevisions = 3
    Months <- MCMonths
    MaxBilled = 4
    Workers = {w1, w2}
    Hand = Hand
    CategoryLists <- MCRequests
    Oversized <- MCOversized
    NoOne = NoOne
    b1 = b1
    c1 = c1
    c2 = c2
    Batches = {b1}
    MaxRows = 2
    MaxWeeks = 2
    NoUrl = 0
    MaxCluster = 3
    MaxLinks = 2
    KeysPerItem = 2
    MaxBlock = 3
    MaxComparisons = 2
    MinShared = 2
    MinRare = 1
    TimeWindow = 1
    Submissions <- MCSubmissions
    MaxEntries = 2
    HistoryBound = 1
    MaxClock = 1
    MaxRuns = 2
    MaxAnswers = 2
    Registries <- MCRegistries
    Unasked <- MCUnasked
    Answers <- MCAnswers
    NoDeployment = "none"
    Limit = 2
    Minimum = 2
    BaseMinimum = 1
    Nearest = 1
    Aim = 2
    Farthest = 4
    FreshFor = 2
    Skew = 1
    Instants <- MCInstants
    SheetKinds <- MCSheetKinds
    TabRows = 4
    FirstDataRow = 2
    PerPage = 2
    MaxRowsPerRun = 2
    MaxAttempts = 2
    Tabs = 2
    Zone <- MCZone
    MaxEdits = 1
    MaxRenewals = 1
    Sources <- MCSources
    Readers = {r1, r2}
    Urls <- MCUrls
    Origin <- MCOrigin
    Https <- MCHttps
    RefusedUrls <- MCRefusedUrls
    PageAnswers <- MCPageAnswers
    Permissions <- MCPermissions
    RedirectLimit = 1
    BodyBytes = 2
    CharsPerSource = 2
    CharsPerReading = 3
    StageTimeout = 1
    Nowhere = "nowhere"
    MaxTime = 1
    Loaded <- MCLoaded
    Policies <- MCPolicies
    Vocabulary <- MCVocabulary
    Names <- MCNames
    RowKinds <- MCRows
    Break = "|"
INVARIANTS
    TypeOK
    OneCallInFlight
    LedgerWithinCap
    RevisionsOnLedger
    WeeksSound
    SourcesSound
    EnginesSound
PROPERTIES
    ImplementsHistory
    LockGivenBack
CHECK_DEADLOCK FALSE
