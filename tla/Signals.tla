------------------------------ MODULE Signals -------------------------------
(***************************************************************************)
(* On-chain signals: their ingestion from files and from the live client   *)
(* (apps/worker/src/evidence/signals.ts), the run they are stored as       *)
(* (packages/database/src/evidence.ts, migration 0008), and the two        *)
(* readers of their history: the worker's anomaly feed                     *)
(* (apps/worker/src/evidence/anomaly.ts), a statement for each target, and *)
(* the tool server's stored anomalies (packages/mcp-server/src/tools/      *)
(* chain-anomalies.ts), one snapshot cut at a boundary.                    *)
(*                                                                         *)
(* A run carries the application's instant of completion, which is taken   *)
(* before its transaction commits.                                         *)
(***************************************************************************)
EXTENDS Integers, Sequences, FiniteSetsExt

CONSTANTS
    Ingesters,      \* commands that ingest at once
    Submissions,    \* what they may be given
    MaxEntries,     \* MAX_OBSERVATIONS
    Bound,          \* maximumObservationsPerTarget
    MaxTime, MaxRuns, MaxAnswers   \* bounds: clock, runs stored, results kept

VARIABLES
    clock,      \* the application's clock
    runs,       \* graph_signal_runs with their graph_signals, in the order they committed
    ingester,
    results,    \* what the tool answered, in order
    feed        \* the worker's feed while it is assembled

vars == <<clock, runs, ingester, results, feed>>

-----------------------------------------------------------------------------
Origins == {"fixture", "replay", "live"}

\* One observation of a target; sound: every value of it parses.
Entry == [target : STRING, at : Nat, sound : BOOLEAN]

\* A file with the origin it is given under, or the evaluations of one query of
\* the client with the origin of their provenance; valid: all of them are valid,
\* fresh and of this query; reserved: the host is of a reserved domain.
Submission(s) ==
    /\ s.kind \in {"file", "client"} /\ s.origin \in Origins
    /\ s.entries \in Seq(Entry)
    /\ s.valid \in BOOLEAN /\ s.reserved \in BOOLEAN

NoSubmission == [kind |-> "none"]

Row(e) == [target |-> e.target, at |-> e.at]

\* assertSnapshot: sound entries, some and not too many, each target once.
AssertSnapshot(entries) ==
    /\ Len(entries) \in 1..MaxEntries
    /\ \A k \in DOMAIN entries : entries[k].sound
    /\ \A j, k \in DOMAIN entries : entries[j].target = entries[k].target => j = k

\* assertFileIngestInput: a file is a fixture or a replay.
AssertFile(s) == s.kind = "file" /\ s.origin \in {"fixture", "replay"}

\* assertGraphClientInput: what the client checked is checked again.
AssertClient(s) ==
    s.kind = "client" /\ ~s.reserved /\ s.valid /\ s.origin = "live"

Accepts(s) == (AssertFile(s) \/ AssertClient(s)) /\ AssertSnapshot(s.entries)

\* The origin is an argument of neither ingestion: it follows from the kind.
OriginOf(s) == IF s.kind = "client" THEN "live" ELSE s.origin

\* snapshotIdempotencyKey: the origin and the digests, sorted.
KeyOf(s) == [origin |-> OriginOf(s), rows |-> {Row(s.entries[k]) : k \in DOMAIN s.entries}]

\* insertGraphSignals: one signal of each observation.
Signals(s) == {Row(s.entries[k]) : k \in DOMAIN s.entries}

\* graph_signal_run_guard: a run is completed with as many signals as it counts.
Completable(s) == Cardinality(Signals(s)) = Len(s.entries)

\* completeGraphSignalRun: the run with its signals; by: what it came from.
Completed(s, at) ==
    [key |-> KeyOf(s), origin |-> OriginOf(s), signals |-> Signals(s),
     completed |-> at, by |-> s]

-----------------------------------------------------------------------------
Runs == 1..Len(runs)

WithKey(key) == {j \in Runs : runs[j].key = key}

Idle == [pc |-> "idle", of |-> NoSubmission, completed |-> 0, run |-> 0]

NoFeed == [pc |-> "idle", run |-> 0, left |-> {}, series |-> {}]

Init ==
    /\ clock = 0
    /\ runs = <<>>
    /\ ingester = [h \in Ingesters |-> Idle]
    /\ results = <<>>
    /\ feed = NoFeed

Become(h, pc) == ingester' = [ingester EXCEPT ![h].pc = pc]

Tick ==
    /\ clock < MaxTime
    /\ clock' = clock + 1
    /\ UNCHANGED <<runs, ingester, results, feed>>

\* ingestSnapshotFile, ingestLiveEvaluations: what is not accepted writes nothing.
Submit(h, s) ==
    /\ ingester[h].pc = "idle"
    /\ Accepts(s)
    /\ ingester' = [ingester EXCEPT ![h] = [Idle EXCEPT !.pc = "find", !.of = s]]
    /\ UNCHANGED <<clock, runs, results, feed>>

\* A completed run of this key is the answer.
Find(h) ==
    LET found == WithKey(KeyOf(ingester[h].of)) IN
    /\ ingester[h].pc = "find"
    /\ IF found = {} THEN Become(h, "insert")
       ELSE \E j \in found : ingester' = [ingester EXCEPT ![h].pc = "done", ![h].run = j]
    /\ UNCHANGED <<clock, runs, results, feed>>

\* Mutant: the key of a run is not unique.
WritesAnyway(h) == TRUE

\* The key is held by no open transaction.
Free(h) ==
    \A g \in Ingesters \ {h} :
        ingester[g].pc = "commit" => KeyOf(ingester[g].of) # KeyOf(ingester[h].of)

Unstored(h) == WithKey(KeyOf(ingester[h].of)) = {}

\* insertRunningGraphSignalRun waits for an uncommitted row of its key and is
\* refused by a committed one; then the signals and the completion, at the
\* application's instant, in the same transaction.
Insert(h) ==
    /\ ingester[h].pc = "insert"
    /\ Free(h)
    /\ ingester' = [ingester EXCEPT ![h].pc = IF Unstored(h) THEN "commit" ELSE "lost",
                                    ![h].completed = clock]
    /\ UNCHANGED <<clock, runs, results, feed>>

\* The run as it is stored, read back by its writer.
Commit(h) ==
    /\ ingester[h].pc = "commit"
    /\ Completable(ingester[h].of)
    /\ Len(runs) < MaxRuns
    /\ runs' = Append(runs, Completed(ingester[h].of, ingester[h].completed))
    /\ ingester' = [ingester EXCEPT ![h].pc = "done", ![h].run = Len(runs) + 1]
    /\ UNCHANGED <<clock, results, feed>>

\* After a unique violation: the winner is the answer.
FindWinner(h) ==
    /\ ingester[h].pc = "lost"
    /\ \E j \in WithKey(KeyOf(ingester[h].of)) :
          ingester' = [ingester EXCEPT ![h].pc = "done", ![h].run = j]
    /\ UNCHANGED <<clock, runs, results, feed>>

\* The command ends, or is stopped wherever it is: an open transaction is undone.
End(h) ==
    /\ ingester[h].pc # "idle"
    /\ ingester' = [ingester EXCEPT ![h] = Idle]
    /\ UNCHANGED <<clock, runs, results, feed>>

-----------------------------------------------------------------------------
(* The rows of a history, newest observation first, then the run that was   *)
(* completed last, then the identifier, for which the order of commits stands. *)

Rows(among) ==
    UNION {{[run |-> j, target |-> s.target, at |-> s.at] : s \in runs[j].signals} : j \in among}

Before(a, b) ==
    \/ a.at < b.at
    \/ a.at = b.at /\ runs[a.run].completed < runs[b.run].completed
    \/ a.at = b.at /\ runs[a.run].completed = runs[b.run].completed /\ a.run < b.run

\* ORDER BY ... DESC LIMIT.
Newest(rows) == {a \in rows : Cardinality({b \in rows : Before(a, b)}) < Bound}

\* SignalRunBoundary: the runs of the origin completed no later than run k.
Within(k) ==
    {j \in Runs : runs[j].origin = runs[k].origin /\ runs[j].completed <= runs[k].completed}

\* The targets the boundary knows, whether or not they still report.
Targets(k) == {a.target : a \in Rows(Within(k))}

\* Of a target, its newest observations up to asOf: the cut precedes the limit.
HistoryOf(k, t, asOf) == Newest({a \in Rows(Within(k)) : a.target = t /\ a.at <= asOf})

Stored(k, asOf) == UNION {HistoryOf(k, t, asOf) : t \in Targets(k)}

\* requireCompletedSignalRun: a run is visible only once it is completed.
Required(k) == k \in Runs

\* storedAnomalies: everything in one transaction, from one snapshot.
Ask(k, asOf) ==
    /\ Len(results) < MaxAnswers
    /\ Required(k)
    /\ results' = Append(results, [run |-> k, asOf |-> asOf, series |-> Stored(k, asOf),
                                   seen |-> Len(runs)])
    /\ UNCHANGED <<clock, runs, ingester, feed>>

-----------------------------------------------------------------------------
(* buildAnomalyFeed: a connection and a statement for each target. *)

\* listSignalTargets: every target of the named run's origin.
TargetsOf(origin) == {a.target : a \in Rows({j \in Runs : runs[j].origin = origin})}

\* listSignalHistory: the origin is part of the query.
HistoryRuns(origin) == {j \in Runs : runs[j].origin = origin}

BeginFeed(k) ==
    /\ feed.pc = "idle"
    /\ k \in Runs
    /\ feed' = [pc |-> "reading", run |-> k, series |-> {}, left |-> TargetsOf(runs[k].origin)]
    /\ UNCHANGED <<clock, runs, ingester, results>>

ReadHistory(t) ==
    LET rows == {a \in Rows(HistoryRuns(runs[feed.run].origin)) : a.target = t} IN
    /\ feed.pc = "reading"
    /\ t \in feed.left
    /\ feed' = [feed EXCEPT !.left = @ \ {t}, !.series = @ \cup Newest(rows)]
    /\ UNCHANGED <<clock, runs, ingester, results>>

EndFeed ==
    /\ feed.pc = "reading" /\ feed.left = {}
    /\ feed' = NoFeed
    /\ UNCHANGED <<clock, runs, ingester, results>>

Next ==
    \/ Tick
    \/ \E h \in Ingesters :
          \/ \E s \in Submissions : Submit(h, s)
          \/ Find(h) \/ Insert(h) \/ Commit(h) \/ FindWinner(h) \/ End(h)
    \/ \E k \in 1..MaxRuns :
          \/ \E asOf \in 0..MaxTime : Ask(k, asOf)
          \/ BeginFeed(k)
    \/ \E t \in feed.left : ReadHistory(t)
    \/ EndFeed

Spec == Init /\ [][Next]_vars

-----------------------------------------------------------------------------
(* What the signals promise. *)

TypeOK ==
    /\ clock \in 0..MaxTime
    /\ Len(runs) <= MaxRuns /\ Len(results) <= MaxAnswers
    /\ \A j \in Runs : runs[j].completed \in 0..clock /\ runs[j].origin \in Origins
    /\ \A h \in Ingesters :
          ingester[h].pc \in {"idle", "find", "insert", "commit", "lost", "done"}
    /\ feed.run \in 0..MaxRuns

\* However many ingest it at once, a snapshot is stored once under its origin,
\* whole, with one signal of each target; and who is answered is answered with
\* the run of what it gave (persistSignalRun).
StoredOnce ==
    /\ \A j, k \in Runs : runs[j].key = runs[k].key => j = k
    /\ \A j \in Runs :
          Cardinality({a.target : a \in runs[j].signals}) = Len(runs[j].by.entries)
    /\ \A h \in Ingesters : ingester[h].pc = "done" =>
          /\ ingester[h].run \in Runs
          /\ runs[ingester[h].run].key = KeyOf(ingester[h].of)

\* Nothing is stored as live but what the client queried and every check of it
\* passed (assertFileIngestInput, assertGraphClientInput).
LiveIsQueried ==
    \A j \in Runs : runs[j].origin = "live" =>
        runs[j].by.kind = "client" /\ runs[j].by.valid /\ ~runs[j].by.reserved

\* A result names only runs of its origin that completed by its boundary, and
\* it is the same whenever it is asked for, unless a run that had its instant
\* by then was still to commit (storedAnomalies).
ResultStands ==
    \A a, b \in DOMAIN results :
        LET x == results[a]
            y == results[b]
            late == {j \in x.seen + 1..y.seen : runs[j].completed <= runs[x.run].completed}
        IN
        /\ \A r \in x.series : runs[r.run].origin = runs[x.run].origin /\ r.at <= x.asOf
        /\ x.run = y.run /\ x.asOf = y.asOf /\ a < b /\ late = {} => x.series = y.series

\* The tool server says of every stored result that nothing recorded later can
\* change it (ANOMALY_BOUNDARY_SENTENCE).
ResultFixed ==
    \A a, b \in DOMAIN results :
        results[a].run = results[b].run /\ results[a].asOf = results[b].asOf =>
            results[a].series = results[b].series

\* A baseline is of one origin, whatever is ingested while the feed is read
\* (listSignalHistory).
FeedOfOneOrigin ==
    \A r \in feed.series : runs[r.run].origin = runs[feed.run].origin
=============================================================================
