---------------------------- MODULE MCPipeline -----------------------------
(***************************************************************************)
(* The read of the workbook a week starts from, the editorial week, the    *)
(* classifier and the clustering engine it runs, the generation of a       *)
(* round-up of what it made, the reading of the sources of an article, and *)
(* the on-chain signals with what is told of them, checked one beside the  *)
(* other: a behaviour picks one of them and takes its steps only, the      *)
(* others staying where they start.                                        *)
(***************************************************************************)
EXTENDS Generation, FiniteSets, TLC

CONSTANTS Workers, Hand, Batches, CategoryLists, Oversized, b1, c1, c2, MaxRows, MaxWeeks,
          NoUrl, MaxCluster, MaxLinks, KeysPerItem, MaxBlock, MaxComparisons,
          MinShared, MinRare, TimeWindow,
          Submissions, MaxEntries, HistoryBound, MaxClock, MaxRuns, MaxAnswers,
          Registries, Unasked, Answers, NoDeployment, Limit, Minimum, BaseMinimum,
          Nearest, Aim, Farthest, FreshFor, Skew, Instants,
          SheetKinds, TabRows, FirstDataRow, PerPage, MaxRowsPerRun, MaxAttempts, Tabs, Zone,
          MaxEdits, MaxRenewals,
          Sources, Readers, Urls, Origin, Https, RefusedUrls, PageAnswers, Permissions,
          RedirectLimit, BodyBytes, CharsPerSource, CharsPerReading, StageTimeout,
          Nowhere, MaxTime,
          Loaded, Policies, Vocabulary, Names, RowKinds, Break

VARIABLES part,
          batch, classified, clustered, weeks, worker,
          rows, stage, units, reports, root, pairs, refused, links, reasons,
          clock, stored, ingester, results, feed,
          asked, told,
          registry, mode, instant, inFlight, call, verdict,
          content, changes, command, transport, token, signal, exit,
          time, next, reader, fetch, robots, fetched, reading,
          registered, contracts, owner, answer, scored

\* One call fits the cap whatever it costs; two of the dearest do not.
MCEstimates == {1, 2}
MCCap == 3

\* The clock passes the end of one month.
MCMonths == 1..2

\* One category alone, and two of them; the engine refuses the batch of the second.
MCRequests == {<<c1>>, <<c1, c2>>}
MCOversized == {<<b1, c2>>}

\* Articles of one URL or none, at three instants or none, that share a few of
\* four distinctive tokens, one wording or none, and one that is excluded.
Article(url, at, tokens, wording, decision) ==
    [url |-> url, time |-> at, tokens |-> tokens, wording |-> wording, decision |-> decision]

MCNoTime == -1

MCKinds == {
    Article(NoUrl, 0, {1, 2}, {}, "include"),
    Article(NoUrl, 1, {1, 2}, {}, "review"),
    Article(NoUrl, 2, {1, 2}, {}, "include"),
    Article(NoUrl, 0, {1, 2, 3, 4}, {7}, "include"),
    Article(NoUrl, MCNoTime, {2, 3}, {7}, "review"),
    Article(1, 0, {3, 4}, {7}, "include"),
    Article(1, 0, {}, {7}, "include"),
    Article(NoUrl, 0, {1}, {}, "exclude") }

MCInputs == [1..4 -> MCKinds]
MCHash == [t \in 1..4 |-> 10 - t]

\* Shares and thresholds of so few articles.
MCShare == <<3, 4>>
MCHalf == <<1, 2>>
MCNear == <<1, 4>>

W == INSTANCE WeekRun WITH Requests <- CategoryLists

ASSUME PipelineAssumption ==
    /\ {Hand, NoOne} \cap Workers = {} /\ Hand # NoOne
    /\ Batches # {} /\ CategoryLists # {}
    /\ CategoryLists \subseteq Seq(W!Categories) \ {<<>>}
    /\ MaxRows \in Nat \ {0} /\ MaxWeeks \in Nat

K == INSTANCE Clustering WITH
        Inputs <- MCInputs, Hash <- MCHash, NoTime <- MCNoTime,
        MaxShare <- MCShare, RareShare <- MCShare,
        Syndication <- MCHalf, Incident <- MCHalf, Near <- MCNear

\* What is given to be ingested: one query of the client in two orders, results
\* that are not valid or of a reserved host, and files that say what they may not.
Seen(target, at) == [target |-> target, at |-> at, sound |-> TRUE]

Given(kind, origin, entries) ==
    [kind |-> kind, origin |-> origin, entries |-> entries, valid |-> TRUE, reserved |-> FALSE]

MCSubmissions == {
    Given("client", "live", <<Seen("a", 0), Seen("b", 1)>>),
    Given("client", "live", <<Seen("b", 1), Seen("a", 0)>>),
    [Given("client", "live", <<Seen("a", 1)>>) EXCEPT !.valid = FALSE],
    [Given("client", "live", <<Seen("a", 1)>>) EXCEPT !.reserved = TRUE],
    Given("client", "replay", <<Seen("a", 1)>>),
    Given("file", "live", <<Seen("a", 1)>>),
    Given("file", "replay", <<Seen("a", 0)>>),
    Given("file", "replay", <<Seen("a", 0), Seen("a", 1)>>) }

S == INSTANCE Signals WITH
        Ingesters <- Workers, Bound <- HistoryBound, MaxTime <- MaxClock, runs <- stored

ASSUME SignalsAssumption ==
    /\ \A s \in Submissions : S!Submission(s)
    /\ MaxEntries \in Nat /\ HistoryBound \in Nat
    /\ MaxClock \in Nat /\ MaxRuns \in Nat /\ MaxAnswers \in Nat

\* Series that arrive in and out of order, with a gap, stale, or of nothing, and
\* windows of few and of many stories.
MCTimes == {<<>>, <<0>>, <<0, 1>>, <<1, 0, 2>>, <<0, 1, 2, 3>>, <<3, 2, 0, 1>>, <<0, 1, 4>>, <<0, 1, 2, 5>>}

MCSeries(id) == UNION { {[id |-> id, observations |-> [n \in DOMAIN t |-> [at |-> t[n], delta |-> d[n]]]] :
                            d \in [DOMAIN t -> {-6, 0, 1, 6}]} : t \in MCTimes }

MCFlat == [id |-> 2, observations |-> <<[at |-> 1, delta |-> 0], [at |-> 2, delta |-> 0], [at |-> 3, delta |-> 7]>>]
MCQuiet == [id |-> 1, observations |-> <<>>]

MCWindow(at, stories, incidents, multi) ==
    [at |-> at, stories |-> stories, incidents |-> incidents, multi |-> multi]

MCWindows == {<<>>, <<MCWindow(0, 2, 2, 0)>>} \cup
    {<<MCWindow(0, a, 1, 0), MCWindow(2, c, 2, 1), MCWindow(1, b, 1, 1)>> : a, b, c \in {0, 2, 3, 9}}

MCFeeds ==
    {[series |-> <<MCFlat, x, MCQuiet>>, windows |-> <<>>, now |-> n] : x \in MCSeries(3), n \in {3, 5}}
    \cup {[series |-> <<MCFlat>>, windows |-> w, now |-> 4] : w \in MCWindows}

N == INSTANCE Anomaly WITH
        Inputs <- MCFeeds, Interval <- 1, Freshness <- 2, MinBaseline <- 2, Deviations <- 4,
        Floor <- 5, MaxPerTarget <- 4, MaxFeed <- 2, MinWindows <- 2, WindowDeviations <- 3,
        StoriesPerIncident <- 3

\* Three targets of one chain, two of them of one protocol, and one of another
\* chain; a second registry names a subgraph twice.
Target(label, chain, slug, subgraph, network) ==
    [label |-> label, chain |-> chain, slug |-> slug, subgraph |-> subgraph, network |-> network]

MCEthereum == << Target("e1", "ethereum", "a", "s1", "MAINNET"),
                 Target("e2", "ethereum", "a", "s2", "MAINNET"),
                 Target("e3", "ethereum", "b", "s3", "MAINNET") >>

MCUnasked == Append(MCEthereum, Target("b1", "base", "b", "s4", "BASE"))

MCRegistries == { MCUnasked,
                  Append(MCEthereum, Target("b1", "base", "b", "s3", "BASE")) }

At(n) == [at |-> n, positive |-> TRUE]

Doc == [kind |-> "document", slug |-> "a", network |-> "MAINNET", family |-> "LENDING",
        deployment |-> "d1", complete |-> TRUE, indexing |-> FALSE, seen |-> <<At(1), At(3)>>]

\* Documents of one and of several deployments, of another protocol or network,
\* with indexing errors, incomplete, out of order, unsound, and none at all.
MCAnswers == {
    [kind |-> "timeout"], [kind |-> "redirect"], Doc, [Doc EXCEPT !.deployment = "d2"],
    [Doc EXCEPT !.slug = "b", !.deployment = "d3"], [Doc EXCEPT !.slug = "b", !.network = "BASE"],
    [Doc EXCEPT !.indexing = TRUE], [Doc EXCEPT !.network = "other"],
    [Doc EXCEPT !.complete = FALSE], [Doc EXCEPT !.deployment = "none"],
    [Doc EXCEPT !.seen = <<At(1), At(6), At(4), At(2)>>, !.deployment = "d4"],
    [Doc EXCEPT !.seen = <<At(1), [At(3) EXCEPT !.positive = FALSE]>>],
    [Doc EXCEPT !.seen = <<At(1), At(7)>>] }

MCInstants == {3, 6}

G == INSTANCE Gateway WITH Times <- Instants, clock <- instant

ASSUME GatewayAssumption ==
    /\ Unasked \in Registries
    /\ \A r \in Registries : DOMAIN r \subseteq Nat /\ IsFiniteSet(DOMAIN r)
    /\ \A a \in Answers : a.kind = "document" => a.seen \in Seq([at : Int, positive : BOOLEAN])
    /\ Limit \in Nat /\ Minimum \in Nat /\ BaseMinimum \in Nat
    /\ {Nearest, Aim, Farthest, FreshFor, Skew} \subseteq Int
    /\ Instants \subseteq Int /\ Instants # {}

\* The offset of the zone changes in its sixth hour; a tab of a page of two rows
\* and one of one row, one row more than a run may read.
MCZone == [hour \in 0..12 |-> IF hour < 6 THEN 1 ELSE 2]

MCSheetKinds == {"inventory", "timestamps", "dry-run", "import"}

R == INSTANCE SheetRead WITH Kinds <- SheetKinds, Rows <- TabRows

ASSUME SheetAssumption ==
    /\ "import" \in SheetKinds
    /\ {TabRows, FirstDataRow, PerPage, MaxAttempts} \subseteq Nat \ {0}
    /\ {MaxRowsPerRun, Tabs, MaxEdits, MaxRenewals} \subseteq Nat
    /\ DOMAIN Zone \subseteq Int /\ \A t \in DOMAIN Zone : Zone[t] \in Int

\* Three sources of two URLs; one redirects to the other's origin, to http, to a
\* URL that is refused, or nowhere.  A page is short, long, cut, or declares more
\* than is read.
Source(row, url) == [row |-> row, url |-> url]
MCSources == <<Source(1, "a"), Source(2, "b"), Source(3, "a")>>
MCUrls == {"a", "b", "c", "d", "e"}
MCOrigin == [u \in MCUrls |-> IF u = "a" THEN "x" ELSE IF u = "d" THEN "z" ELSE "y"]
MCHttps == {"a", "b", "c"}
MCRefusedUrls == {"e"}

Redirect(to) == [kind |-> "redirect", to |-> to]
Page(declared, size, chars) == [kind |-> "page", declared |-> declared, size |-> size, chars |-> chars]

MCPageAnswers ==
    {Redirect(to) : to \in {"c", "d", "e", "nowhere"}}
    \cup {[kind |-> "failed", code |-> "fetch_timeout"], Page(0, 2, 3), Page(0, 3, 2), Page(3, 3, 2)}

MCPermissions == {
    [kind |-> "none", rules |-> {}], [kind |-> "unavailable", rules |-> {}],
    [kind |-> "rules", rules |-> {[allow |-> FALSE, length |-> 1, paths |-> {"a", "b", "c"}],
                                  [allow |-> TRUE, length |-> 2, paths |-> {"a", "b"}],
                                  [allow |-> FALSE, length |-> 2, paths |-> {"b"}]}] }

A == INSTANCE SourceReading WITH Pages <- PageAnswers, results <- fetched

ASSUME ReadingAssumption ==
    /\ Sources \in Seq([row : Nat, url : Urls])
    /\ Readers # {} /\ IsFiniteSet(Readers)
    /\ Nowhere \notin Urls
    /\ {RedirectLimit, CharsPerSource, MaxTime} \subseteq Nat
    /\ \A p \in Permissions : p.kind \in {"none", "unavailable", "rules"}
    /\ \A p \in PageAnswers :
          \/ p.kind = "redirect" /\ p.to \in Urls \cup {Nowhere}
          \/ p.kind = "failed"
          \/ p.kind = "page" /\ p.chars \in Nat

H == INSTANCE Classifier

\* The policies of the load were registered one by one, each refused for a
\* category or a version that was taken.
ASSUME ClassifierAssumption ==
    /\ Loaded \in Seq({Loaded[n] : n \in DOMAIN Loaded})
    /\ \A m, n \in DOMAIN Loaded :
          Loaded[m].category = Loaded[n].category \/ Loaded[m].version = Loaded[n].version => m = n

\* Two vocabularies: terms that cover one another, of one signal and of two, and
\* a pattern.  Later policies take a category or a version that is taken, or none.
Signal(id, tier, terms) == [id |-> id, tier |-> tier, terms |-> terms]

\* The thresholds and weights every policy of the repository has (signal-policy.ts).
MCThresholds == [decisive |-> 1, contextual |-> 2]
MCWeights == [decisive |-> 3, contextual |-> 1, out_of_scope |-> 0]

Words(signals, patterns, thresholds) ==
    [signals |-> signals, patterns |-> patterns, thresholds |-> thresholds, weights |-> MCWeights]

MCCyber == Words(
    << Signal("k1", "contextual", {<<"a", "b">>}), Signal("k2", "contextual", {<<"b", "c">>}),
       Signal("o", "out_of_scope", {<<"x">>}), Signal("r", "decisive", {<<"c", "a">>}) >>,
    {[id |-> "cve", tier |-> "decisive", word |-> "v"]}, MCThresholds)

MCCrypto == Words(
    << Signal("e", "decisive", {<<"a">>, <<"a", "b">>}), Signal("f", "decisive", {<<"b">>, <<"a", "b">>}),
       Signal("o", "out_of_scope", {<<"x", "x">>}) >>,
    {}, [decisive |-> 2, contextual |-> 1])

MCVocabulary == [cyber |-> MCCyber, crypto |-> MCCrypto, empty |-> Words(<<>>, {}, MCThresholds)]

Policy(category, version, rules) == [category |-> category, version |-> version, rules |-> rules]

MCLoaded == <<Policy("cyber", "v1", "cyber"), Policy("crypto", "v2", "crypto")>>

MCPolicies == { MCLoaded[1], Policy("cyber", "v3", "crypto"), Policy("weather", "v1", "cyber"),
                Policy("weather", "v4", "cyber"), Policy("weather", "v5", "crypto"),
                Policy("twin", "v4", "cyber"), Policy("twin", "v6", "empty") }

MCNames == {"cyber", "crypto", "weather", "twin", "none"}

Row(title, summary) ==
    [admitted |-> TRUE, quarantined |-> FALSE, title |-> title, summary |-> summary, description |-> <<>>]

MCTitles == UNION {[1..n -> {"a", "b", "c", "x"}] : n \in 0..2}
            \cup {<<"a", "b", "c">>, <<"b", "c", "a">>, <<"c", "a", "b">>, <<"x", "a", "b">>, <<"v">>}

MCRows == {Row(t, s) : t \in MCTitles, s \in {<<>>, <<"a">>}}
          \cup {[Row(<<"x">>, <<>>) EXCEPT !.admitted = FALSE], [Row(<<"x">>, <<>>) EXCEPT !.quarantined = TRUE],
                [Row(<<"c">>, <<"b", "c">>) EXCEPT !.description = <<"x">>]}

weekVars == <<batch, classified, clustered, weeks, worker>>
engineVars == <<rows, stage, units, reports, root, pairs, refused, links, reasons>>
signalVars == <<clock, stored, ingester, results, feed>>
feedVars == <<asked, told>>
gateVars == <<registry, mode, instant, inFlight, call, verdict>>
sheetVars == <<content, changes, command, transport, token, signal, exit>>
readingVars == <<time, next, reader, fetch, robots, fetched, reading>>
classifierVars == <<registered, contracts, owner, answer, scored>>

MCInit ==
    /\ part \in {"generation", "week", "engine", "tool", "feed", "anomaly", "gateway", "sheet",
                "reading", "classifier"}
    /\ Init
    /\ W!Init
    /\ K!Init
    /\ part # "engine" => rows = [r \in 1..4 |-> Article(NoUrl, 0, {1}, {}, "exclude")]
    /\ S!Init
    /\ N!Init
    /\ part # "anomaly" => asked = [series |-> <<MCFlat>>, windows |-> <<>>, now |-> 4]
    /\ G!Init
    /\ part # "gateway" => instant = (CHOOSE t \in Instants : TRUE) /\ registry = Unasked
    /\ R!Init
    /\ A!Init
    /\ H!Init
    /\ part # "sheet" => command = R!Command("import") /\ content = [n \in 1..TabRows |-> "text"]

\* The results of the tool and the worker's feed read the same history and
\* write nothing: each is told beside the ingestion, not beside the other.
SignalStep ==
    /\ S!Next
    /\ part = "tool" => UNCHANGED feed
    /\ part = "feed" => UNCHANGED results

\* Of the second chain, a target is answered with its own document or with none:
\* the others are answered to the first chain's.
BaseAnswers ==
    \A n \in DOMAIN call :
        registry[n].chain = "base" =>
            \/ call[n].answer.kind \in {"none", "timeout"}
            \/ call[n].answer.kind = "document" /\ call[n].answer.network = "BASE"

\* Commands are interchangeable, and so are readers: the first week, the first run
\* of signals and the first source are the same one's always.
FirstComes ==
    LET first == CHOOSE w \in Workers : TRUE
        reads == CHOOSE r \in Readers : TRUE
    IN  /\ weeks = <<>> /\ weeks' # <<>> => worker'[first] # worker[first]
        /\ stored = <<>> /\ stored' # <<>> => ingester'[first] # ingester[first]
        /\ next = 1 /\ next' # 1 => reader'[reads] # reader[reads]

MCNext ==
    /\ UNCHANGED part
    /\ \/ part = "generation" /\ Next
          /\ UNCHANGED <<weekVars, engineVars, signalVars, feedVars, gateVars, sheetVars, readingVars, classifierVars>>
       \/ part = "week" /\ W!Next
          /\ UNCHANGED <<vars, engineVars, signalVars, feedVars, gateVars, sheetVars, readingVars, classifierVars>>
       \/ part = "engine" /\ K!Next
          /\ UNCHANGED <<vars, weekVars, signalVars, feedVars, gateVars, sheetVars, readingVars, classifierVars>>
       \/ part \in {"tool", "feed"} /\ SignalStep
          /\ UNCHANGED <<vars, weekVars, engineVars, feedVars, gateVars, sheetVars, readingVars, classifierVars>>
       \/ part = "anomaly" /\ N!Next
          /\ UNCHANGED <<vars, weekVars, engineVars, signalVars, gateVars, sheetVars, readingVars, classifierVars>>
       \/ part = "gateway" /\ G!Next
          /\ UNCHANGED <<vars, weekVars, engineVars, signalVars, feedVars, sheetVars, readingVars, classifierVars>>
       \/ part = "sheet" /\ R!Next
          /\ UNCHANGED <<vars, weekVars, engineVars, signalVars, feedVars, gateVars, readingVars, classifierVars>>
       \/ part = "reading" /\ A!Next
          /\ UNCHANGED <<vars, weekVars, engineVars, signalVars, feedVars, gateVars, sheetVars, classifierVars>>
       \/ part = "classifier" /\ H!Next
          /\ UNCHANGED <<vars, weekVars, engineVars, signalVars, feedVars, gateVars, sheetVars, readingVars>>

allVars == <<part, vars, weekVars, engineVars, signalVars, feedVars, gateVars, sheetVars, readingVars, classifierVars>>

\* A handler's own steps go on, and the client's timeout bounds a call.
MCFairness ==
    \A r \in Requests :
        WF_allVars(/\ part = "generation" /\ Handle(r)
                   /\ UNCHANGED <<part, weekVars, engineVars, signalVars, feedVars, gateVars, sheetVars, readingVars, classifierVars>>)

MCSpec == MCInit /\ [][MCNext]_allVars /\ MCFairness

\* A classification writes nothing another reads, and reads a contract no other
\* category has: rows are classified under those of the load, one at a time.
OneRow == scored' # H!NothingScored => scored' = scored \/ answer = "loaded"

\* The steps of the run.
RunSpec == MCInit /\ [][MCNext /\ FirstComes /\ OneRow /\ BaseAnswers']_allVars /\ MCFairness

\* A week that says it is complete is, a completed run covers its batch for ever,
\* and a week that failed says at what (runWeek, classifyBatch,
\* freezeBatchSourceSet).
WeeksSound == W!TypeOK /\ W!CompletedWeekWhole /\ W!RunsCover /\ W!FailureExplained

\* What others answered is kept as it was, and known by one name.  A snapshot is
\* stored once and as what it is, a result stands, and a feed is of one origin; a
\* reading is the selection's, of pages asked for as they allow, and leaves no
\* fetch behind; a hash names one category (persistSignalRun, storedAnomalies,
\* readSources, contractFor).
SourcesSound ==
    /\ part \in {"tool", "feed"} =>
          S!TypeOK /\ S!StoredOnce /\ S!LiveIsQueried /\ S!ResultStands /\ S!FeedOfOneOrigin
    /\ part = "reading" =>
          A!TypeOK /\ A!ReadingIsTheSelections /\ A!FetchesAreAwaited /\ A!AskedAsAllowed
    /\ part = "classifier" => H!TypeOK /\ H!HashNamesOneCategory

\* What is made of it is what its rules say.  The incidents divide the eligible
\* rows, none above the bound, none joined without support; a row in scope is not
\* excluded; the first selections are the ones read; a command that read the
\* workbook to its end says what was answered, through retries, a renewed token
\* and an abort; a spike has its evidence and none is left out in silence; a gate
\* is passed by distinct targets that are valid, and the count of requests is
\* given back (clusterEligible, classify, readSources, readTab, anomalyFeed,
\* evaluateChainGate).
EnginesSound ==
    /\ part = "engine" =>
          K!TypeOK /\ K!CoversTheEligible /\ K!WithinTheBound /\ K!MergedForAReason /\ K!BoundsAreTold
    /\ part = "classifier" => H!RecallKept
    /\ part = "reading" => A!FirstSelectionsFirst
    /\ part = "sheet" =>
          R!TypeOK /\ R!ReadIsWhatWasAnswered /\ R!InventoryOfEveryTab
                   /\ R!ExitTellsTheDeadline /\ R!WallClockIsItsInstant
    /\ part = "anomaly" =>
          N!TypeOK /\ N!SpikesHaveEvidence /\ N!StrongestKept /\ N!ArrivalIndependent
    /\ part = "gateway" =>
          G!TypeOK /\ G!CountIsReturned /\ G!ValidIsExpected /\ G!GateIsDistinct /\ G!EveryTargetTold
=============================================================================
