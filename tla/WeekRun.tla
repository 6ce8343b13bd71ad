------------------------------ MODULE WeekRun -------------------------------
(***************************************************************************)
(* The editorial week: runWeek (apps/worker/src/week/run.ts) with the two  *)
(* runners it calls, classifyBatch (classification/run.ts) and             *)
(* clusterClassificationRun (clustering/run.ts), over the rows of          *)
(* migrations 0003 to 0007 and 0014.                                       *)
(*                                                                         *)
(* A week is a manifest of its own small transactions: the import, then a  *)
(* classification per category, then a clustering per classification, each *)
(* identified by what it computes and reused when it exists.  A worker may *)
(* stop between any two steps, two may run the same week, and two weeks    *)
(* may share a batch.  There is one window; the versions of the classifier *)
(* and of the engine are fixed, so a run is its batch and its category.    *)
(***************************************************************************)
EXTENDS Integers, Sequences, FiniteSets

CONSTANTS
    Workers,    \* invocations of the command
    Hand,       \* a session that is not the program's, writing source rows
    NoOne,
    Batches,
    Requests,   \* the lists of categories a week is asked for
    Oversized,  \* what the engine refuses to cluster: <<batch, category>>
    MaxRows,    \* bound: source rows of a batch
    MaxWeeks    \* bound: manifests

VARIABLES
    batch,      \* import_batches: rows, the freeze, and who holds the row
    classified, \* completed classification runs: the rows each covers
    clustered,  \* completed clustering runs
    weeks,      \* week_runs, each with its children
    worker

vars == <<batch, classified, clustered, weeks, worker>>

-----------------------------------------------------------------------------
Categories == UNION {{cats[n] : n \in DOMAIN cats} : cats \in Requests}

Keys == Batches \X Categories

\* What a child was done by, created, reused or provided, is not told apart.
Child == [kind : {"import", "classification", "clustering"},
          category : Categories \cup {"none"}, outcome : {"done", "failed"}]

Week == [batch : Batches, categories : Requests, children : Seq(Child),
         status : {"running", "completed", "failed", "superseded"}]

Idle == [pc |-> "idle", batch |-> CHOOSE b \in Batches : TRUE,
         categories |-> CHOOSE cats \in Requests : TRUE, week |-> 0, at |-> 1,
         rows |-> 0, stale |-> FALSE]

WorkerRow ==
    [pc : {"idle", "batch", "fresh", "begun",
           "classify", "freeze", "waiting", "reading", "refused", "duplicate", "classified",
           "cluster", "insert", "engine", "repeated", "clustered",
           "failing", "child failed", "finish", "superseded"},
     batch : Batches, categories : Requests, week : 0..MaxWeeks,
     at : Nat, rows : 0..MaxRows, stale : BOOLEAN]

TypeOK ==
    /\ batch \in [Batches -> [rows : 0..MaxRows, frozen : BOOLEAN,
                              holder : Workers \cup {Hand, NoOne}]]
    /\ classified \in [Keys -> 0..MaxRows]
    /\ clustered \subseteq Keys
    /\ weeks \in Seq(Week)
    /\ Len(weeks) <= MaxWeeks
    /\ worker \in [Workers -> WorkerRow]
    /\ \A w \in Workers : worker[w].at \in DOMAIN worker[w].categories

Init ==
    /\ batch = [b \in Batches |-> [rows |-> 0, frozen |-> FALSE, holder |-> NoOne]]
    /\ classified = [k \in Keys |-> 0]
    /\ clustered = {}
    /\ weeks = <<>>
    /\ worker = [w \in Workers |-> Idle]

Become(w, new) == worker' = [worker EXCEPT ![w] = new]

Go(w, pc) == Become(w, [worker[w] EXCEPT !.pc = pc])

\* The category a worker is at, and the run it is about.
Category(w) == worker[w].categories[worker[w].at]
Key(w) == <<worker[w].batch, Category(w)>>

-----------------------------------------------------------------------------
(* The batch and the manifest. *)

\* The week is given a batch, or imports the feed: what the feed holds now is
\* a batch already imported or a new one (importSheetsTab, whole or not at all).
AskWeek(w) ==
    /\ worker[w].pc = "idle"
    /\ \E b \in Batches, cats \in Requests :
        /\ batch' = IF batch[b].rows = 0 THEN [batch EXCEPT ![b].rows = 1] ELSE batch
        /\ Become(w, [Idle EXCEPT !.pc = "batch", !.batch = b, !.categories = cats])
    /\ UNCHANGED <<classified, clustered, weeks>>

CategorySet(cats) == {cats[n] : n \in DOMAIN cats}

\* computeWeekRunKey: the batch and the categories in whatever order.
SameWeek(n, b, cats) ==
    weeks[n].batch = b /\ CategorySet(weeks[n].categories) = CategorySet(cats)

CompletedWeeks(b, cats) ==
    {n \in DOMAIN weeks : weeks[n].status = "completed" /\ SameWeek(n, b, cats)}

\* alreadyRan: a completed manifest of the key is the answer.
LookForWeek(w) ==
    /\ worker[w].pc = "batch"
    /\ IF CompletedWeeks(worker[w].batch, worker[w].categories) # {}
         THEN Become(w, Idle)
         ELSE Go(w, "fresh")
    /\ UNCHANGED <<batch, classified, clustered, weeks>>

\* insertRunningWeekRun; any number of manifests may run at once.
BeginWeek(w) ==
    /\ worker[w].pc = "fresh"
    /\ Len(weeks) < MaxWeeks
    /\ weeks' = Append(weeks, [batch |-> worker[w].batch, categories |-> worker[w].categories,
                               children |-> <<>>, status |-> "running"])
    /\ Become(w, [worker[w] EXCEPT !.pc = "begun", !.week = Len(weeks) + 1])
    /\ UNCHANGED <<batch, classified, clustered>>

\* record: a child is appended to a running manifest in its own transaction.
Record(w, kind, category, outcome) ==
    weeks' = [weeks EXCEPT ![worker[w].week].children =
                Append(@, [kind |-> kind, category |-> category, outcome |-> outcome])]

RecordImport(w) ==
    /\ worker[w].pc = "begun"
    /\ Record(w, "import", "none", "done")
    /\ Go(w, "classify")
    /\ UNCHANGED <<batch, classified, clustered>>

-----------------------------------------------------------------------------
(* classifyBatch. *)

\* alreadyDone, before the transaction and after it lost.
LookForClassification(w) ==
    /\ worker[w].pc = "classify"
    /\ Go(w, IF classified[Key(w)] # 0 THEN "classified" ELSE "freeze")
    /\ UNCHANGED <<batch, classified, clustered, weeks>>

\* freezeBatchSourceSet: its statement takes the snapshot, then the row; it
\* waits while another transaction holds the row.
Freeze(w) ==
    LET b == worker[w].batch
        free == batch[b].holder = NoOne
    IN /\ worker[w].pc = "freeze"
       /\ batch' = IF free THEN [batch EXCEPT ![b].holder = w] ELSE batch
       /\ Become(w, [worker[w] EXCEPT !.pc = IF free THEN "reading" ELSE "waiting",
                                      !.rows = batch[b].rows, !.stale = FALSE])
       /\ UNCHANGED <<classified, clustered, weeks>>

\* Mutant: the row is taken as it was in the snapshot.
SnapshotCurrent(w) == TRUE

\* A row committed since the snapshot refuses the update (40001).
Unchanged(w) == ~worker[w].stale

Resume(w) ==
    LET b == worker[w].batch
    IN /\ worker[w].pc = "waiting"
       /\ batch[b].holder = NoOne
       /\ IF Unchanged(w)
            THEN /\ batch' = [batch EXCEPT ![b].holder = w]
                 /\ Go(w, "reading")
            ELSE Go(w, "refused") /\ UNCHANGED batch
       /\ UNCHANGED <<classified, clustered, weeks>>

\* The transactions waiting for the row of a batch learn that it changed.
Stale(b, workers) ==
    [v \in Workers |->
        IF workers[v].pc = "waiting" /\ workers[v].batch = b
          THEN [workers[v] EXCEPT !.stale = TRUE]
          ELSE workers[v]]

Release(b) == batch' = [batch EXCEPT ![b].holder = NoOne]

\* The run is inserted, every row of the snapshot classified, the run
\* completed and the freeze committed with it.
Classify(w) ==
    LET b == worker[w].batch
    IN /\ worker[w].pc = "reading"
       /\ classified[Key(w)] = 0
       /\ classified' = [classified EXCEPT ![Key(w)] = worker[w].rows]
       /\ batch' = [batch EXCEPT ![b].frozen = TRUE, ![b].holder = NoOne]
       /\ worker' = Stale(b, [worker EXCEPT ![w].pc = "classified", ![w].rows = 0])
       /\ UNCHANGED <<clustered, weeks>>

\* The run was committed since alreadyDone: the unique key refuses it (23505).
ClassifiedMeanwhile(w) ==
    /\ worker[w].pc = "reading"
    /\ classified[Key(w)] # 0
    /\ Release(worker[w].batch)
    /\ Go(w, "duplicate")
    /\ UNCHANGED <<classified, clustered, weeks>>

\* The run of the winner is the answer; without one the batch is said to have
\* changed (batch_source_set_changed).
ReportClassified(w) ==
    /\ worker[w].pc \in {"refused", "duplicate"}
    /\ IF classified[Key(w)] # 0
         THEN Become(w, [worker[w] EXCEPT !.pc = "classified", !.rows = 0, !.stale = FALSE])
         ELSE Go(w, "failing")
    /\ UNCHANGED <<batch, classified, clustered, weeks>>

\* The child is recorded; after the last category the clusterings follow.
RecordClassification(w) ==
    LET last == worker[w].at = Len(worker[w].categories)
    IN /\ worker[w].pc = "classified"
       /\ Record(w, "classification", Category(w), "done")
       /\ Become(w, [worker[w] EXCEPT !.pc = IF last THEN "cluster" ELSE "classify",
                                      !.at = IF last THEN 1 ELSE @ + 1])
       /\ UNCHANGED <<batch, classified, clustered>>

-----------------------------------------------------------------------------
(* A source row written from another session: source_rows_freeze_guard. *)

Amendable(b) == ~batch[b].frozen

\* The row is inserted and its batch's version raised, not yet committed.
InsertRow(b) ==
    /\ batch[b].rows \in 1..MaxRows - 1
    /\ batch[b].holder = NoOne
    /\ Amendable(b)
    /\ batch' = [batch EXCEPT ![b].holder = Hand]
    /\ UNCHANGED <<classified, clustered, weeks, worker>>

CommitRow(b) ==
    /\ batch[b].holder = Hand
    /\ batch' = [batch EXCEPT ![b].holder = NoOne, ![b].rows = @ + 1]
    /\ worker' = Stale(b, worker)
    /\ UNCHANGED <<classified, clustered, weeks>>

-----------------------------------------------------------------------------
(* clusterClassificationRun. *)

LookForClustering(w) ==
    /\ worker[w].pc = "cluster"
    /\ Go(w, IF Key(w) \in clustered THEN "clustered" ELSE "insert")
    /\ UNCHANGED <<batch, classified, clustered, weeks>>

\* insertRunningClusteringRun: the unique key waits for whoever inserts it
\* too, and refuses it once that run is committed.
InsertClustering(w) ==
    /\ worker[w].pc = "insert"
    /\ \A v \in Workers : worker[v].pc = "engine" => Key(v) # Key(w)
    /\ Go(w, IF Key(w) \in clustered THEN "repeated" ELSE "engine")
    /\ UNCHANGED <<batch, classified, clustered, weeks>>

\* The engine's clusters, memberships and links are stored and the run
\* completed, in one commit; or the engine refuses and nothing is stored.
Cluster(w) ==
    /\ worker[w].pc = "engine"
    /\ IF Key(w) \in Oversized
         THEN Go(w, "failing") /\ UNCHANGED clustered
         ELSE /\ clustered' = clustered \cup {Key(w)}
              /\ Go(w, "clustered")
    /\ UNCHANGED <<batch, classified, weeks>>

\* The run of the winner is the answer.
ReportClustered(w) ==
    /\ worker[w].pc = "repeated"
    /\ Go(w, "clustered")
    /\ UNCHANGED <<batch, classified, clustered, weeks>>

RecordClustering(w) ==
    LET last == worker[w].at = Len(worker[w].categories)
    IN /\ worker[w].pc = "clustered"
       /\ Record(w, "clustering", Category(w), "done")
       /\ Become(w, [worker[w] EXCEPT !.pc = IF last THEN "finish" ELSE "cluster",
                                      !.at = IF last THEN @ ELSE @ + 1])
       /\ UNCHANGED <<batch, classified, clustered>>

-----------------------------------------------------------------------------
(* The end of a week. *)

SetStatus(w, status) == weeks' = [weeks EXCEPT ![worker[w].week].status = status]

\* Completed under the partial unique index on the key.
FinishWeek(w) ==
    /\ worker[w].pc = "finish"
    /\ IF CompletedWeeks(worker[w].batch, worker[w].categories) = {}
         THEN SetStatus(w, "completed") /\ Become(w, Idle)
         ELSE Go(w, "superseded") /\ UNCHANGED weeks
    /\ UNCHANGED <<batch, classified, clustered>>

\* The index refused: the manifest fails and the winner is the answer.
Supersede(w) ==
    /\ worker[w].pc = "superseded"
    /\ SetStatus(w, "superseded")
    /\ Become(w, Idle)
    /\ UNCHANGED <<batch, classified, clustered>>

\* A child fails for a reason of its own; what it held is rolled back.
ChildFails(w) ==
    /\ worker[w].pc \in {"classify", "freeze", "reading", "cluster", "insert", "engine"}
    /\ IF worker[w].pc = "reading" THEN Release(worker[w].batch) ELSE UNCHANGED batch
    /\ Go(w, "failing")
    /\ UNCHANGED <<classified, clustered, weeks>>

\* fail: the failed child first, then the manifest, in two transactions.
\* Which of the two phases it was is told by the children there are.
RecordFailure(w) ==
    LET clustering == Len(weeks[worker[w].week].children) > Len(worker[w].categories)
    IN /\ worker[w].pc = "failing"
       /\ Record(w, IF clustering THEN "clustering" ELSE "classification", Category(w), "failed")
       /\ Go(w, "child failed")
       /\ UNCHANGED <<batch, classified, clustered>>

FailWeek(w) ==
    /\ worker[w].pc = "child failed"
    /\ SetStatus(w, "failed")
    /\ Become(w, Idle)
    /\ UNCHANGED <<batch, classified, clustered>>

\* The worker stops: its transaction is rolled back, its manifest stays running.
Stop(w) ==
    /\ worker[w].pc # "idle"
    /\ IF batch[worker[w].batch].holder = w THEN Release(worker[w].batch) ELSE UNCHANGED batch
    /\ Become(w, Idle)
    /\ UNCHANGED <<classified, clustered, weeks>>

Next ==
    \/ \E w \in Workers :
        \/ AskWeek(w) \/ LookForWeek(w) \/ BeginWeek(w) \/ RecordImport(w)
        \/ LookForClassification(w) \/ Freeze(w) \/ Resume(w) \/ Classify(w)
        \/ ClassifiedMeanwhile(w) \/ ReportClassified(w) \/ RecordClassification(w)
        \/ LookForClustering(w) \/ InsertClustering(w) \/ Cluster(w)
        \/ ReportClustered(w) \/ RecordClustering(w)
        \/ FinishWeek(w) \/ Supersede(w)
        \/ ChildFails(w) \/ RecordFailure(w) \/ FailWeek(w) \/ Stop(w)
    \/ \E b \in Batches : InsertRow(b) \/ CommitRow(b)

Spec == Init /\ [][Next]_vars

-----------------------------------------------------------------------------
(* Safety. *)

Has(week, kind, category) ==
    \E n \in DOMAIN week.children :
        /\ week.children[n].kind = kind
        /\ week.children[n].category = category
        /\ week.children[n].outcome # "failed"

\* A completed week is whole: its import and, of each category, a
\* classification of every row of the batch and a clustering of it, none of
\* them failed; and it is the only one of its key (runWeek, completeWeekRun).
CompletedWeekWhole ==
    \A n \in DOMAIN weeks : weeks[n].status = "completed" =>
        /\ CompletedWeeks(weeks[n].batch, weeks[n].categories) = {n}
        /\ Len(weeks[n].children) = 1 + 2 * Len(weeks[n].categories)
        /\ Has(weeks[n], "import", "none")
        /\ \A c \in CategorySet(weeks[n].categories) :
            /\ Has(weeks[n], "classification", c)
            /\ Has(weeks[n], "clustering", c)
            /\ <<weeks[n].batch, c>> \in clustered

\* A completed classification covers its batch for ever, and what is
\* clustered is classified (freezeBatchSourceSet, source_rows_freeze_guard).
RunsCover ==
    \A k \in Keys :
        /\ classified[k] # 0 => classified[k] = batch[k[1]].rows
        /\ k \in clustered => classified[k] # 0

\* A failed week says what failed, and only that; one superseded failed at
\* nothing, and its winner is there (fail, runWeek).
FailureExplained ==
    \A n \in DOMAIN weeks :
        LET failures == {m \in DOMAIN weeks[n].children : weeks[n].children[m].outcome = "failed"}
        IN /\ weeks[n].status = "failed" => failures = {Len(weeks[n].children)}
           /\ weeks[n].status = "superseded" =>
                /\ failures = {}
                /\ CompletedWeeks(weeks[n].batch, weeks[n].categories) # {}
=============================================================================
