# Latest in Cyber: a formal model of its state

TLA+ modules, TLC configurations and TLAPS proofs for this repository: a weekly
newsletter product made of a Next.js dashboard, a command-line worker, a tool
server for language models, and one PostgreSQL database that all of them meet
in. Paths are relative to the repository (`server` is `apps/dashboard/src/server`).

    tlc -workers 2 -config Readers.cfg MCReaders      # one run
    tlapm ReadersProofs.tla                           # one proof module

1. Inventory. 2. Modules. 3. Runs. 4. Proofs. 5. Where the code and its words
part. 6. Abstractions. 7. What is left.

## 1. Inventory

What the program promises, it promises over rows that several requests change at
once. It has no queue and no background job; its concurrency is that of HTTP
requests, webhooks, tool calls and command-line runs, which read a row, wait for
something (another service, a lock, a person), and write another. PostgreSQL runs
at READ COMMITTED, so a statement sees what was committed when it began, and an
UPDATE tests its WHERE again on a row it had to wait for. A request may die at any
point, which drops its lock and rolls back its open transaction and cannot take
back a call that has left.

| Part | State | What is hard | What makes it correct | Modules |
|---|---|---|---|---|
| Checkout hand-off (`server/dal/support.ts`, migration 0020) | attempts, provider sessions, a lock per account | double submissions, lost and late answers, expiry while a request waits | one payable page per account; an attempt bound to its own session | `Checkout` |
| Supporter ledger (`recordWebhook`, 0018) | `supporter_events`, audit rows | repeated, reordered, concurrent deliveries, deaths | one row per event; the mark is a function of the set of events | `SupporterLedger`, `SupporterMark` |
| Round-up (`server/dal/mutate.ts`, `packages/roundup`, 0015) | revisions, `model_calls`, a lock | a paid call under a lock, retries, a month that ends | one call at a time, spend within the cap, no lost edit | `Generation`, `OutputHistory` |
| Article (`mutate.ts`, `server/dal/readings.ts`, 0016) | revisions, readings in memory | a reading that expires, is put out, or is of another selection | written from the reading that was confirmed | `Article` |
| One-time codes (`server/auth/session.ts`, 0011) | challenges, failures | two verifications, two codes at once | one session per code, within its attempts | `OneTimeCode` |
| Sessions and accounts (0010) | sessions, accounts | statement by statement, an administrator in between | what is over lets nobody in | `Sessions` |
| Passwords and the throttle (`rate-limit.ts`, `password.ts`) | buckets, a gate | failures read before and written after a hash | guesses bounded, hashing bounded | `Login` (partly) |
| Sign-up (`server/dal/readers.ts`, 0017, 0019) | requests | approval, denial, invitation of one address | one open request and one account per address, decided once | `Signup`, `RequestLife` |
| Publication and cards (`readers.ts`, `cards.ts`, 0022) | records, cards, images | a revision unpublished while a card is drawn | what is shown was published | `Publication` |
| Request limits (`http/limits.ts`) | counters of one process | more keys than are kept | a bounded rate per key | `Limits` |
| Pages (`dal/read.ts`, `packages/database/src/dashboard.ts`, `week.ts`) | none | several statements per page | no row lost, no title told outside | `Pages` (partly) |
| Queue, drafts, selections (`mutate.ts`, 0010, 0014) | append-only lists | edits side by side | no fork, no gap, bounded | `Editing` |
| Incident review (`clustering/review.ts`) | review actions | a stale view, a repeated request | recorded once, on what was seen; a partition stays one | `Incidents`, `Grouping` |
| Evidence (`apps/worker/src/evidence`, 0008, 0009) | subjects, claims, decisions, runs | a run asked for again after a decision | answers with every decision before it | `Evidence` (partly) |
| Guards of runs (0003–0009, 0014) | the runs of a week | statements of several sessions | a completed run stands whole and keeps what it held | `RunGuards` (partly) |
| Drafting (`packages/drafting`, `worker/src/drafting`) | two files | two writers, a crash between files | published as a pair; nobody named beyond the sourcing | `Drafting` (partly) |
| Weekly run (`worker/src/week`, `classification/run.ts`, `clustering/run.ts`) | `week_runs`, runs | a stop between children, two at once, rows that arrive meanwhile | complete means whole; no child twice | `WeekRun` |
| Classification (`packages/classification`, `packages/taxonomy`) | policies and contracts of the categories | matches that hide what they cover; registrations in any order | a row in scope is not excluded; a hash names one category | `Classifier` (partly) |
| Clustering (`packages/clustering`) | – | chains of merges | a partition within the bound, merges supported | `Clustering` |
| Import, Sheets (`packages/database/src/ingestion.ts`, `sheets-intake`) | batches, URL groups | a source edited while read, deadlocks, a deadline | a batch is one read, once | `Intake`, `SheetRead` (partly) |
| Signals, anomalies (`evidence/signals.ts`, `packages/evidence`) | signal runs | a run stored beside a reader | stored once, as what it is | `Signals`, `Anomaly` (partly) |
| Source reader (`packages/source-reader`) | the fetches and robots.txt files of one reading | readers that meet at a URL, redirects, answers in any order | outcomes are the selection's; pages asked for as they allow | `SourceReading` |
| Graph gateway (`packages/graph-evidence`) | a count of requests | cancelled and failing calls | the gate counts distinct valid targets | `Gateway` (partly) |
| Pool, transactions, probe (`database.ts`, `runtime.ts`) | four connections, locks | a pool at its limit | no connection lost, no lock left | `Connections` |
| Migrations (`migrate.ts`) | `schema_migrations` | runners of several releases, crashes | one history, each once | `Migrations` |
| Tool server (`packages/mcp-server`) | permits, connections | deadline, cancellation, shutdown | connections within the permits, truthful answers | `ToolCalls` (partly) |

Not modelled: donations and the billing portal (one statement each), cookies, CSRF
and email (encoding), the restore rehearsal (reads only), the worker's command line
around its commands, tools and continuous integration. `PROJECT.json` lists every
part with its files, and the hazards of the code at the lines where they bite.

How the parts meet: a sign-in ends `OneTimeCode` (the challenge is consumed and
its session inserted in one transaction) and begins `Sessions`. `Checkout` takes
the standing from the ledger in the form `SupporterLedger` justifies. The round-up
and its edits share one history of revisions; `Publication` shows one of them. A
week runs from `SheetRead` and `Intake` through `WeekRun` (which runs `Clustering`)
to `Incidents`, `Evidence` and `Drafting`, each identified by what the one before
it stored, which `RunGuards` keeps whoever writes. Everything takes its
connections from `Connections`.

## 2. Modules

A specification module has the state as VARIABLES, one action for each statement
or transaction others may come between, and its properties at the end. The comment
at its head says which code it is of, and `map` in `PROJECT.json` the lines of each
definition. A definition after `\* Mutant:` is a plausible mistake in that code
that the property above it must catch; no specification uses one.

An MC module puts several specifications side by side: a behaviour picks a `part`
and takes the steps of that part only, the others staying in one state, so one run
checks several small instances at the cost of their sum. `MCSpec` is that
composition, and `RunSpec` the steps of it a run takes.

| MC module | Parts |
|---|---|
| `MCSupport` | `Checkout`, `SupporterLedger` |
| `MCAccounts` | `OneTimeCode`, `Sessions` within two bounds, `Login` in three instances |
| `MCReaders` | `Signup`, `Publication`, `Limits`, `Pages` |
| `MCEditorial` | `Article`, `Incidents`, `Evidence`, `Editing`, `RunGuards`, `Drafting` |
| `MCPipeline` | `SheetRead`, `WeekRun`, `Classifier`, `Clustering`, `SourceReading`, `Generation`, `Signals` with each of its two readers, `Anomaly`, `Gateway` |
| `MCPlatform` | `Connections`, its probe, `Intake`, `ToolCalls`, `Migrations` |

`SupporterMark`, `OutputHistory`, `RequestLife` and `Grouping` are abstract
specifications: what a reader is promised, without the statements and the locks.
`SupporterLedger`, `Generation`, `Signup` and `Incidents` implement them, under the
refinement mappings at the end of those modules (`known` is the recorded events,
`mark` what the queries answer; `history` is the revisions; the life of a request is
read off its row; the parts are the incidents of the replayed view).

Some things are external and modelled by how the code uses them: the provider
answers one session per idempotency key with the expiry it was asked for; the model
bills no more than the worst-case estimate; the gateway and the workbook answer
anything; the operating system's `rename` is atomic.

## 3. Runs

Times are with two workers. Deadlock is not checked (`CHECK_DEADLOCK FALSE`): every
model bounds its clock, its ids or its counters, and a behaviour that has used them
up comes to rest as the real system does not. Where the system itself must not come
to rest, a liveness property says so.

| Run | Instance | Shows |
|---|---|---|
| `support` (840 k states, 64 s) | one account, two handlers, three keys, a clock over a life and a half; five events of two subscriptions and a stranger's, two deliveries at once, a replay or a death | `SinglePayable`, `OneAsking`, `BoundToOwnSession`, `CompletionCloses`, `OpensAfterOutcome`, `LedgerSound`, `ImplementsMark` |
| `accounts` (2.1 M, 90 s) | two requests, three codes, one of which expires; two sessions with a change of account, one over both lifetimes; three logins of one name under a limit of one | `OneSessionPerCode`, `ConsumedWithinLimit`, `NewerCodeWins`, `SignInsSound`, `StandsOnItsAccount`, `EndedLetsNobodyIn` |
| `readers` (460 k, 45 s) | two requests of one address, two handlers; three revisions, one card; three keys of which two are kept; two incidents in two weeks | `RequestsSound`, `ImplementsLife`, `PublicationSound`, `LimitsHold`, `PagesSound` |
| `editorial` (335 k, 97 s) | two handlers; two rows; three members; two decisions and runs; statements of two sessions over a week's runs; two drafts | `ArticleSound`, `ActsOnWhatItSaw`, `ImplementsGrouping`, `EvidenceSound`, `DraftSound`, `WellFormed` |
| `pipeline` (707 k, 95 s) | two generations and two editors over a month's end; two workers and a writer over one batch of two rows; a row of each kind under two categories and a third registered late; four articles of eight kinds; three sources of two URLs and two readers; two ingesters; series of up to four observations; registries of four targets; four rows of a workbook | `OneCallInFlight`, `LedgerWithinCap`, `RevisionsOnLedger`, `ImplementsHistory`, `LockGivenBack`, `WeeksSound`, `SourcesSound`, `EnginesSound` |
| `platform` (90 k, 74 s) | three requests of a pool of two; two imports of an edited source; two calls of one permit; two runners of six releases | `ConnectionsSound`, `IntakeSound`, `CallsSound`, `MigrationsSound`, `EveryoneIsServed` |
| `checkout_one_subscription`, `ledger_audited`, `generation_billed`, `codes_one_live`, `sessions_administrator`, `pool_deliveries` | the smallest that can fail | a counterexample each: section 5 |

**Why the bounds are enough.** Conflicts in this code are between two handlers of
one account, output, batch or key, or between a handler and the world, so two of
each reach them; a third is there where two must meet while one watches (three keys
for a limiter that keeps two, three logins). A third
code or attempt is the one the replacement may collide with. Clocks run past the
longest life in the instance, so both sides of every comparison happen. Inputs of
the pure algorithms are enumerated over kinds that tell every branch apart. Section
4 removes the bounds where a theorem exists. The runs take `RunSpec`, which leaves
out steps of `MCSpec` that repeat what others show (the theorems are of `MCSpec`): a third code only
beside what it may collide with (`FewCodes`), one session over the lifetimes (`OneSession`), a
replay or a death and not both (`OneMishap`), of two interchangeable importers or
workers always the same one first (`FirstAsks`, `FirstComes`), the plain answers of a
gateway to the targets of a second chain (`BaseAnswers`), rows under the contracts of
the load, one at a time (`OneRow`), a settled world
once an article is written (`SettledOnceWritten`), and searches only over corpora that
nobody edits (`PlainTable`). Symmetry is declared for ids that no
definition tells apart, and in no run with a liveness property.

**Fairness.** A handler's own statements return or throw, and what it waits for
has a timeout: `Generation` and `MCPipeline` assume weak fairness of `Handle` (the
client of the model has a timeout and two retries); `MCPlatform` of an import's and
a runner's own steps, of PostgreSQL breaking a deadlock, of a pool's request, and
of the deadline and the grace timer of a tool call; and strong fairness of taking
the migration lock, which PostgreSQL grants in order of arrival. Nothing is assumed
of users, providers, models, deaths or the database behind a tool call.

## 4. Proofs

TLAPS checks what follows for every value of the constants. The assumptions are the
ASSUMEs of the modules, which TLC evaluates on every run: names of nobody differ
from names of somebody, bounds are numbers, sets that must be finite are, what may be submitted or answered
has the fields it is read by. Four are more than that. `EventsConsistent` says what the provider's events are: a
subscription has one customer, a customer one account of ours, and two statuses of
one subscription have distinct instants (`docs/CAS-008-REPORT.md` accepts the tie
as a residual risk). `SessionsAssumption` says that the idle lifetime is a number
and that every account begins with a role. `ClassifierAssumption` says that the
policies of the load differ in category and in version, as each was refused otherwise. `Sound`, of `GuardsProofs`, says that what
is stored when the statements begin is what such statements could have stored
(`StartsSound` proves it of the six starts of the run).

| Module | Theorems | Inductive invariant, and why it is needed |
|---|---|---|
| `SupportProofs` | every safety property of `Checkout`, with `OpensAfterOutcome` of its steps | a handler past its claim holds its account's lock (`LockInv`), so its attempt stays open and unbound up to the bind (`TakenInv`); calls and sessions carry the account and the expiry of their key's attempt (`ProviderInv`); at most one attempt is open and a closed one is completed or expired (`OpenInv`); what is bound is what the key created (`BoundInv`); what is paid was handed out (`PaidInv`). A payable session belongs to an attempt neither expired nor completed, so to the open one |
| | `LedgerSoundness`, `MarkRefinement` | a recorded row is settled: its account is what resolution would give now (`RowsSettled`), and so is what a delivery holds (`InHandSettled`); the same event never commits twice (`CommitsApart`); every non-empty set of rows has a newest (`HasNewest`). Then the queries' answer is the function of the known events (`AgreesInv`), and a commit is the abstract step |
| `PipelineProofs` | types, `OneCall`, `WithinCap`, `PaidFor`, `HistoryImplemented` of `Generation` | the lock's holder is the one request past its claim, and from its check of the cap to its ledger row the month it read *and every later one* have room for its estimate (`RoomInv`), for nobody else spends and a month that has not begun is empty |
| | `WeeksWhole` | a completed classification covers a frozen batch, a clustering one of those (`RunsSound`); no two workers past the manifest share a week (`OwnWeeks`); a worker that waits for the batch holds a snapshot that is stale or current, and one about to write a current one (`BatchKnown`); the children of its week are exactly the steps it has taken (`WeekKnown`), which is what makes a complete week whole |
| | `SourcesKept` | of the signals, no two ingesters past their look for a key write it, a stored run has the key of what it was asked for, and a result is what the history within its boundary was: a later run is completed no earlier, so it adds nothing within it (`SignalInv`). Of a reading, a fetch under way is waited for (`Awaited`); a source that was taken is waited for or has its outcome (`Delivered`), so when every reader is over all of them do; what a fetch asks for was checked as its first URL was, and what is known of an origin stays known (`FetchSound`). Of the categories, the registered ones differ in name and in version (`Apart`), so the hash of a contract has one owner, which has that contract (`Owned`) |
| `AccountsProofs` | `CodesTyped`, `SignsInOnce`, `WithinLimit`, `NewerWins` of the codes | of the codes on record when a code was asked for, those still live are among the ones its UPDATE found (`AskInv`), so the commit ends them and nothing revives them (`BeforeInv`) |
| | types, `Standing`, `EndedStaysOut` of the sessions | a request knows a session's account and its creation, which never change (`RequestSound`); a live session stands on its account unless an administrator's change is between its two statements, or the sign-in is still to confirm it (`Stands`) |
| | `SignInsAreSound` | the three instances of `Login` the run checks are instances of the proofs below (`GuessingSame`, `TablesSame`, `MemorySame`) |
| `LoginProofs` | types, `GateKeeps`, `GuessesAreBounded`, `SessionsAreEarned` of any instance of `Login` | the line of a process, its woken before its queue, holds each of its waiting logins once, and a verification that ends leaves the line as it was (`GateSound`); the failures of a name and the logins it let through in the present window are together within the bound (`FailuresSound`); an account's password only moves on and what is disabled stays so, so what a login read is no older than what there was when it arrived (`ReadSound`) |
| `ReadersProofs` | types, `Soundness`, `Refinement` of `Signup` | rows keep their address, at most one request of an address is open, and a handler holds the row it read or an older stage of it |
| | `Published` | a row a request holds was published when it was read; a card's lock is held by one; an image is of the revision its card was made from; nothing is spent and not made |
| | `LimitsKept` | of a tracked key, the passes of the present window are the last of its history and the earlier ones lie before the window, at most a limit of them within a window of it; so passes twice the limit apart are a window apart, which bounds every stretch |
| | `PagesKept` of the pages | a read answers with a store no older than the read before it, whose lists only grow and whose actors have accounts (`Gathered`, `Known`), so the accounts read last name everyone and the decisions read last cover what was listed; a page without source text has no search, and a title is in none of its orders; the last of a list of selections is unique, so of two reads with the same record of an incident both place it alike; of consecutive weeks exactly one holds the later of a row's two times |
| `EditorialProofs` | `ArticleSoundness`, `ArticleTypeCorrect` | what a handler carries of a reading is what the reading was when it was confirmed |
| | `ActsOnce` | of the lists, an editor's page is a prefix of the list, and a revision is one more than the length |
| | `ActsOnce`, `GroupingRefinement` | of the incidents, the replay of the actions exists and is unique (`ReplayInv`), since an appended action extends it by one step; every recorded action was made on the revision before it; a merge joins parts of the view and a split divides one, which are the two abstract steps |
| | `EvidenceSoundness`, `AllWellFormed` | of the evidence, what a request holds of decisions and subjects is what was there when its transaction looked (`AnalystSound`), a run knows the decisions of its key (`RunsKnow`), and an accepted pair has the claim it was accepted on (`AcceptedWithClaim`), for claims are never taken back; of a draft, a staging directory is one writer's and is renamed only whole; of the guards, `GuardsKeep` of the instance the run checks |
| `GuardsProofs` | `GuardsKeep` of any instance of `RunGuards` | what a statement was permitted on stays so until it commits (`StaysAllowed`): two statements of which one writes what the guard of the other reads want conflicting locks of one row (`ClashExcludes`), so no two open transactions hold them (`GrantedApart`). Then each commit is judged on what it is applied to, and the coverage of every completed run, the status of what it stands on and its output are kept by each statement |
| `PlatformProofs` | `PoolSoundness` | the queue holds each waiting request once and only when the pool is full (`LineSound`); what is held and what is idle make up the pool |
| | `SchemaSoundness` | one runner is at work, what is recorded is done, and a runner's files agree with the history up to where it is; `NextVersion` is a least element |
| | `IntakeSoundness` | the rows of an import under way are in the groups its own transaction made or holds locked (`ImportRowSound`), and two imports at once hold disjoint addresses and different keys (`Apart`), so none stores what another is storing |
| | `CallSoundness` | a call holds a permit as long as its work does, whatever it has answered; a closed server has neither |

`HistoryImplemented`, `MarkRefinement`, `Refinement` and `GroupingRefinement` are
refinements of the four abstract specifications, step by step.

A finite set of numbers has a least element by induction over naturals, whose
theorem takes an operator and cannot be used; the lemma `Least` derives it from the
least counterexample of a finite set of numbers instead (`PlatformProofs`,
`ReadersProofs`), and the counting lemmas rest on it.

Only model-checked: `LockGivenBack` and `EveryoneIsServed`, which are liveness;
`DraftSound`, and of `EnginesSound` the clustering, the classifier's recall, the bound
on a reading and the anomaly feed, whose operators are folds, sorts and recursive
functions over data of any length; and, for want of a proof so far, the commands that
read the workbook and the gate of `EnginesSound`. The counterexamples of the six runs
that end in one are TLC's.

## 5. Where the code and its words part

Six end in a run, with the words quoted in `PROJECT.json`.

- **A second subscription** (`OneSubscription`). The standing is read before, and
  outside, the transaction that finds or opens the attempt.
- **A change nobody audits** (`ChangesAudited`). Deliveries side by side each compare
  two equal marks.
- **A month crossed** (`BilledWithinCap`). A lost answer is billed, asked for again,
  and enters the ledger at nothing.
- **Two live codes** (`OneLiveCode`). Two requests, each blind to the other's row.
- **No administrator** (`AdministratorRemains`). Each of two passes the check on
  itself and changes the other.
- **Deliveries that wait for ever** (`DeliveriesRecorded`). Each holds a connection
  and waits for a second one.

Others were met while modelling and have no run.

*Sign-in.* Two requests find a session due for a touch, the newer writes first, and
the trigger refuses the older, which fails (`session.ts:577`, against the comment at
540). The idle lifetime is counted from the last touch, not the last request
(`session.ts:55`). `login`, which no route calls today, does not read the account
again after it made the session, as `verifyOtp` does (508–537), so a session of a
replaced password may outlive the rotation (`mutate.ts:505` says every one is
revoked). `memory-store.ts` (456–458) says there are no concurrent callers, and
awaits between a read and its write; two concurrent saves share one temporary name.
`WindowLimiter` checks its limit and its window and not `maxKeys`.

*Week, evidence, clustering.* `mutate.ts:1031` says the ledger row and both
revisions are one transaction; the code, and the comment at 1274, make them two. A
worker that loses the race to freeze a batch is told that the batch changed
(`classification/run.ts:369`, against `docs/SPRINT-3-REPORT.md:699`). The identity of
an evidence run leaves out recorded subjects (`evidence/run.ts:90`), and the loser of
a race to record a subject gets the winner's without a comparison (`subject.ts:115`,
against `docs/ARCHITECTURE.md:396`). The engine records the pair a–c and then merges
a–b and b–c, so a stored link may join rows it did not join (`engine.ts` stage 3,
against migration 0006:174); the `time_proximity` reason may be lost when a root
moves. `migrate.ts:14` says files are applied in numeric order, and a late file of a
lower number is applied after the higher ones. Identical imports at once give the
loser the raw `23505`, and `latestCompletedImportBatch` (`ingestion.ts:199`) leaves
out batches completed with issues. A round-up reads what is selected, omitted and
carried in three statements (`mutate.ts:1156–1200`), so an incident may be in two
lists or in none (`week.ts:386` says nothing is dropped silently).

*Guards.* `evidence_output_guard` (0008, 476–507) looks at `coalesce(NEW.run,
OLD.run)`, so an UPDATE may move a state out of a completed run. `clustering_run_guard`
compares the sum of the members only. Associations may still be added to a completed
evidence run. `frozen_batch_truncate_guard` looks before it has locked anything. At
REPEATABLE READ the counts would be those of an old snapshot.

*Sheets.* A short page ends the read though the service omits trailing blank rows,
so later rows are dropped silently (`reader.ts:275`, against 19–23). An abort does not
end the sleep between attempts (`transport.ts:24–28`), a request with its retries
outlives the minute a token is renewed ahead (`token.ts:39`), and the first caller's
signal cancels an exchange another shares. Times near a change of the zone's offset
are an hour off, and a value without a zone is read as UTC where rule 2 of
`values.ts` refuses it. A timeout inside a body is neither typed nor retried, and
`inventoryWorkbook` swallows a cancellation. A row key includes the row's number, so
the check for duplicates never fires.

*Signals.* The completion instant of a run is taken before its commit, so a stored
anomaly's boundary may miss it (`common.ts:149`). The feed orders by kind before
strength, and the tool by target, so what is cut need not be the weakest
(`chain-anomalies.ts:178`). Reporting windows have no floor on a flat baseline. Of
two entries of one instant the last wins, where `tvl-delta.ts:50` asks for strictly
newer.

*Sources, categories.* The deadline of the reading stage stops only fetches that have
not begun (`read.ts:209`): one under way may outlive it by its timeouts and redirects.
A URL that is selected and also reached by a redirect is fetched twice. Of a robots.txt
pattern with `*` before an anchored `$`, the first occurrence is tried alone, so
`*.pdf$` does not match `/a.pdf/b.pdf`. Matchers are kept for
a contract object whose `matching` is frozen, so one that is given another `matching`
afterwards keeps the old ones, which the comment at `classifier.ts:98` excludes.

*Drafts, pages.* `maximumSourcesPerClaim` bounds an incident; incidents are cut by id
before they are ordered; `namesWithheld` counts every claim without a victim's name,
and a headline is under no naming policy; a file at the draft's place is reported
raw, and a crash leaves its staging directory. The administration page reads
accounts before the audit and so shows unknown actors; its live sessions include
expired ones; lists longer than their bound are cut without notice (`read.ts`).

## 6. Abstractions

The text of prompts, pages, emails and audit rows; hashing, signatures and parsing,
except the choices they make; the limits of a network source, which only refuse;
ledger rows beyond what is read of them; `rotate`, which no route calls; the
provider's minimum life of a session, which only refuses. A tick is any step of the
clock that comparisons can tell apart; clocks of the dashboard and the provider agree.
Numbers of the contracts (thresholds, bounds, windows) are constants. Batches, pages
and chunks are one line long where the code's are longer, which allows more
interleavings than the code has. Each module's head names what it leaves out, and
the note of each component in `PROJECT.json` says why it is modelled partly or not.

## 7. What is left

To prove: the commands and the gate of `EnginesSound`. To model: the recording of signal runs beside
evidence, the command centre, what each tool reads, and the bound on the keys a process tracks at
sign-in.
