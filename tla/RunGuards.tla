----------------------------- MODULE RunGuards ------------------------------
(***************************************************************************)
(* What the schema itself keeps of a week's runs, whoever writes to it:    *)
(* the constraints and triggers of migrations 0003 to 0009 and 0014 under  *)
(* sessions that issue the statements of packages/database and the deletes *)
(* and moves of a console, each in a transaction of its own at READ        *)
(* COMMITTED.  A batch of source rows is frozen; a classification run      *)
(* holds a result of each row; a clustering run holds incidents and their  *)
(* members; claims rest on members; an evidence run holds a state of each  *)
(* incident; a week run lists what it ran.  A run begins `running`, and is *)
(* completed only if what is stored of it is whole.                        *)
(*                                                                         *)
(* A statement is judged on what is committed once it has its row locks,   *)
(* and what it writes is seen by others when its transaction commits.      *)
(***************************************************************************)
EXTENDS Integers, FiniteSetsExt

CONSTANTS
    Sessions,
    Rows, Runs, Clusters,   \* rows of the batch, classification runs, incidents of the clustering run
    Scenarios, Start, Statements   \* what is stored at first, and the statements that are issued, by scenario

VARIABLES
    scenario,
    db,             \* what is committed, one field for each table or column
    session,        \* the statement each session has executed and not committed
    kept            \* what was stored of each run when it was completed

guardVars == <<scenario, db, session, kept>>

-----------------------------------------------------------------------------
Nothing == "none"

Statuses == {"absent", "running", "completed"}

\* The eligible decisions are one.
Decisions == {"include", "exclude"}

NoStatement == [op |-> Nothing]

NoState == [kind |-> Nothing, row |-> 0]

\* What the tables hold; a clustering run that is not there is of run 0.
Database ==
    [rows : SUBSET Rows, frozen : BOOLEAN,
     runs : [Runs -> [status : Statuses, included : Nat]],
     results : [Runs -> [Rows -> Decisions \cup {Nothing}]],
     clustering : [status : Statuses, of : Runs \cup {0}, incidents : Nat],
     sizes : [Clusters -> 0..Cardinality(Rows)], member : [Rows -> Clusters \cup {Nothing}],
     claims : SUBSET (Clusters \X Rows), evidence : [status : Statuses, corroborated : Nat],
     states : [Clusters -> [kind : {Nothing, "reported", "corroborated"}, row : Rows \cup {0}]],
     week : Statuses, children : SUBSET {"classification", "clustering"}]

\* The results that are stored of a run, and those of a decision.
Stored(c) == {r \in Rows : db.results[c][r] # Nothing}

Of(c, decision) == {r \in Rows : db.results[c][r] = decision}

Members == {r \in Rows : db.member[r] # Nothing}

Present == {x \in Clusters : db.sizes[x] > 0}

Stated == {x \in Clusters : db.states[x] # NoState}

Corroborated == {x \in Clusters : db.states[x].kind = "corroborated"}

-----------------------------------------------------------------------------
(* Row locks.  FOR KEY SHARE, FOR SHARE, FOR NO KEY UPDATE and FOR UPDATE   *)
(* are ranked 1 to 4: two of them on one row conflict when their ranks add  *)
(* up to more than four.  A key of a unique constraint that is being        *)
(* written counts as a row that is locked for update.                       *)

KeyShare == 1
Share == 2
NoKeyUpdate == 3
ForUpdate == 4

ClassificationLocks(q) ==
    CASE q.op \in {"insertSourceRows", "delete source row"} ->
             {<<<<"batch">>, NoKeyUpdate>>, <<<<"row", q.row>>, ForUpdate>>}
      [] q.op \in {"freezeBatchSourceSet", "clear freeze"} -> {<<<<"batch">>, NoKeyUpdate>>}
      [] q.op = "insertRunningClassificationRun" ->
             {<<<<"batch">>, KeyShare>>, <<<<"run", q.run>>, ForUpdate>>}
      [] q.op = "delete run" -> {<<<<"run", q.run>>, ForUpdate>>}
      [] q.op = "insertClassificationResults" ->
             {<<<<"run", q.run>>, Share>>, <<<<"row", q.row>>, KeyShare>>,
              <<<<"result", q.run, q.row>>, ForUpdate>>}
      [] q.op = "delete result" ->
             {<<<<"run", q.run>>, Share>>, <<<<"result", q.run, q.row>>, ForUpdate>>}
      [] q.op = "move result" ->
             {<<<<"run", q.run>>, Share>>, <<<<"run", q.to>>, Share>>,
              <<<<"result", q.run, q.row>>, ForUpdate>>, <<<<"result", q.to, q.row>>, ForUpdate>>}
      [] q.op = "completeClassificationRun" -> {<<<<"run", q.run>>, NoKeyUpdate>>, <<<<"batch">>, Share>>}
      [] OTHER -> {}

ClusteringLocks(q) ==
    CASE q.op = "insertRunningClusteringRun" ->
             {<<<<"run", q.run>>, KeyShare>>, <<<<"clustering">>, ForUpdate>>}
      [] q.op \in {"insertIncidentClusters", "delete incident"} ->
             {<<<<"clustering">>, Share>>, <<<<"incident", q.incident>>, ForUpdate>>}
      [] q.op = "insertIncidentMemberships" ->
             {<<<<"clustering">>, Share>>, <<<<"incident", q.incident>>, KeyShare>>,
              <<<<"member", q.row>>, ForUpdate>>}
      [] q.op = "delete membership" -> {<<<<"clustering">>, Share>>, <<<<"member", q.row>>, ForUpdate>>}
      [] q.op = "completeClusteringRun" -> {<<<<"clustering">>, NoKeyUpdate>>}
      [] OTHER -> {}

LaterLocks(q) ==
    CASE q.op = "insertIncidentClaim" -> {<<<<"member", q.row>>, KeyShare>>}
      [] q.op = "insertRunningEvidenceRun" -> {<<<<"clustering">>, KeyShare>>, <<<<"evidence">>, ForUpdate>>}
      [] q.op \in {"insertEvidenceStates", "delete state"} ->
             {<<<<"evidence">>, Share>>, <<<<"incident", q.incident>>, KeyShare>>,
              <<<<"state", q.incident>>, ForUpdate>>}
      [] q.op = "completeEvidenceRun" -> {<<<<"evidence">>, NoKeyUpdate>>}
      [] q.op = "insertWeekRunChild" -> {<<<<"week">>, Share>>, <<<<"child", q.child>>, ForUpdate>>}
      [] q.op = "completeWeekRun" -> {<<<<"week">>, NoKeyUpdate>>}
      [] OTHER -> {}

Locks(q) == ClassificationLocks(q) \cup ClusteringLocks(q) \cup LaterLocks(q)

\* No other session holds what conflicts with the locks of q.
Granted(s, q) ==
    \A t \in Sessions \ {s} : \A held \in Locks(session[t]), wanted \in Locks(q) :
        held[1] = wanted[1] => held[2] + wanted[2] <= 4

-----------------------------------------------------------------------------
(* What the triggers and the constraints permit, on what is committed.      *)

\* The rows of a frozen batch are neither added to nor taken from.
source_rows_freeze_guard(q) ==
    /\ q.op \in {"insertSourceRows", "delete source row"}
    /\ ~db.frozen

\* A row is stored once, and one that has a result is not deleted.
SourceRowKeys(q) ==
    IF q.op = "insertSourceRows" THEN q.row \notin db.rows
    ELSE q.row \in db.rows /\ \A c \in Runs : db.results[c][q.row] = Nothing

\* The marker of a frozen batch stays as it is: freezing it again keeps it.
import_batch_freeze_guard(q) ==
    \/ q.op = "freezeBatchSourceSet"
    \/ q.op = "clear freeze" /\ ~db.frozen

\* A run completes when its batch is frozen, there is one result of each of
\* its rows and its counters are those of the results.
Covers(q) ==
    /\ db.frozen
    /\ Stored(q.run) = db.rows
    /\ q.included = Cardinality(Of(q.run, "include"))

\* A run is inserted running, and a completed one is left alone.
classification_run_guard(q) ==
    \/ q.op = "insertRunningClassificationRun" /\ db.runs[q.run].status = "absent"
    \/ /\ q.op \in {"delete run", "completeClassificationRun"}
       /\ db.runs[q.run].status = "running"
       /\ IF q.op = "delete run" THEN Stored(q.run) = {} ELSE Covers(q)

\* Neither side of a change is of a completed run.
classification_result_guard(q) ==
    /\ q.op \in {"insertClassificationResults", "delete result", "move result"}
    /\ db.runs[q.run].status = "running"
    /\ q.op = "move result" => db.runs[q.to].status = "running"

\* There is one result of a run and a row, and of stored rows only.
ResultKeys(q) ==
    IF q.op = "insertClassificationResults" THEN q.row \in db.rows /\ db.results[q.run][q.row] = Nothing
    ELSE /\ db.results[q.run][q.row] # Nothing
         /\ q.op = "move result" => db.results[q.to][q.row] = Nothing

\* A run completes when its members are the eligible rows, the sizes of its
\* incidents add up to them and its counters are those of what is stored.
clustering_run_guard(q) ==
    \/ q.op = "insertRunningClusteringRun" /\ db.clustering.status = "absent"
    \/ /\ q.op = "completeClusteringRun" /\ db.clustering.status = "running"
       /\ Members = Of(db.clustering.of, "include")
       /\ MapThenSumSet(LAMBDA x : db.sizes[x], Clusters) = Cardinality(Members)
       /\ q.incidents = Cardinality(Present)

clustering_output_guard(q) ==
    /\ q.op \in {"insertIncidentClusters", "delete incident",
                 "insertIncidentMemberships", "delete membership"}
    /\ db.clustering.status = "running"

\* A row has one membership, of a stored incident, by a result of the run; what
\* a membership or a claim refers to is not deleted.
MembershipKeys(q) ==
    CASE q.op = "insertIncidentClusters" -> db.sizes[q.incident] = 0
      [] q.op = "delete incident" -> db.sizes[q.incident] > 0 /\ \A r \in Rows : db.member[r] # q.incident
      [] q.op = "insertIncidentMemberships" ->
             db.sizes[q.incident] > 0 /\ db.member[q.row] = Nothing /\ db.results[db.clustering.of][q.row] # Nothing
      [] q.op = "delete membership" -> db.member[q.row] # Nothing /\ <<db.member[q.row], q.row>> \notin db.claims

\* The row a claim rests on is a member of its incident.
incident_claims_membership_fk(q) == q.op = "insertIncidentClaim" /\ db.member[q.row] = q.incident

\* A run completes when every incident has its state and its counters are those
\* of what is stored.
evidence_run_guard(q) ==
    \/ q.op = "insertRunningEvidenceRun" /\ db.evidence.status = "absent"
    \/ /\ q.op = "completeEvidenceRun" /\ db.evidence.status = "running"
       /\ Cardinality(Stated) = Cardinality(Present)
       /\ q.corroborated = Cardinality(Corroborated)

evidence_output_guard(q) ==
    /\ q.op \in {"insertEvidenceStates", "delete state"}
    /\ db.evidence.status = "running"

\* A state that names a claim names a recorded one of its incident.
evidence_claim_guard(q) == q.kind = "corroborated" => <<q.incident, q.row>> \in db.claims

\* An incident has one state in a run.
StateKeys(q) ==
    IF q.op = "insertEvidenceStates"
    THEN db.sizes[q.incident] > 0 /\ q.incident \notin Stated /\ evidence_claim_guard(q)
    ELSE q.incident \in Stated

\* A run that ended is left alone.
week_run_guard(q) == q.op = "completeWeekRun" /\ db.week = "running"

\* A child is recorded while its week runs, and once.
week_run_child_guard(q) ==
    /\ q.op = "insertWeekRunChild"
    /\ db.week = "running"
    /\ q.child \notin db.children

\* The commands open a clustering run over a completed classification run and an
\* evidence run over a completed clustering run; the schema asks for a stored one.
OverCompleted(q) ==
    /\ q.op = "insertRunningClusteringRun" => db.runs[q.run].status = "completed"
    /\ q.op = "insertRunningEvidenceRun" => db.clustering.status = "completed"

Permitted(q) ==
    /\ OverCompleted(q)
    /\ \/ source_rows_freeze_guard(q) /\ SourceRowKeys(q)
       \/ import_batch_freeze_guard(q)
       \/ classification_run_guard(q)
       \/ classification_result_guard(q) /\ ResultKeys(q)
       \/ clustering_run_guard(q)
       \/ clustering_output_guard(q) /\ MembershipKeys(q)
       \/ incident_claims_membership_fk(q)
       \/ evidence_run_guard(q)
       \/ evidence_output_guard(q) /\ StateKeys(q)
       \/ week_run_guard(q)
       \/ week_run_child_guard(q)

-----------------------------------------------------------------------------
(* What each statement writes.                                              *)

insertSourceRows(q) == [db EXCEPT !.rows = @ \cup {q.row}]

freezeBatchSourceSet(q) == [db EXCEPT !.frozen = TRUE]

insertRunningClassificationRun(q) ==
    [db EXCEPT !.runs[q.run] = [status |-> "running", included |-> 0]]

Put(results, c, r, decision) == [results EXCEPT ![c][r] = decision]

insertClassificationResults(q) == [db EXCEPT !.results = Put(@, q.run, q.row, q.decision)]

completeClassificationRun(q) ==
    [db EXCEPT !.runs[q.run] = [status |-> "completed", included |-> q.included]]

insertRunningClusteringRun(q) ==
    [db EXCEPT !.clustering = [status |-> "running", of |-> q.run, incidents |-> 0]]

insertIncidentClusters(q) == [db EXCEPT !.sizes[q.incident] = q.size]

insertIncidentMemberships(q) == [db EXCEPT !.member[q.row] = q.incident]

completeClusteringRun(q) ==
    [db EXCEPT !.clustering = [@ EXCEPT !.status = "completed", !.incidents = q.incidents]]

insertIncidentClaim(q) == [db EXCEPT !.claims = @ \cup {<<q.incident, q.row>>}]

insertRunningEvidenceRun(q) == [db EXCEPT !.evidence = [status |-> "running", corroborated |-> 0]]

insertEvidenceStates(q) == [db EXCEPT !.states[q.incident] = [kind |-> q.kind, row |-> q.row]]

completeEvidenceRun(q) == [db EXCEPT !.evidence = [status |-> "completed", corroborated |-> q.corroborated]]

insertWeekRunChild(q) == [db EXCEPT !.children = @ \cup {q.child}]

completeWeekRun(q) == [db EXCEPT !.week = "completed"]

\* A console's deletes, and its move of a result from a run to another.
Console(q) ==
    CASE q.op = "delete source row" -> [db EXCEPT !.rows = @ \ {q.row}]
      [] q.op = "clear freeze" -> [db EXCEPT !.frozen = FALSE]
      [] q.op = "delete run" -> [db EXCEPT !.runs[q.run] = [status |-> "absent", included |-> 0]]
      [] q.op = "delete result" -> [db EXCEPT !.results = Put(@, q.run, q.row, Nothing)]
      [] q.op = "move result" ->
             LET moved == Put(db.results, q.to, q.row, db.results[q.run][q.row])
             IN  [db EXCEPT !.results = Put(moved, q.run, q.row, Nothing)]
      [] q.op = "delete incident" -> [db EXCEPT !.sizes[q.incident] = 0]
      [] q.op = "delete membership" -> [db EXCEPT !.member[q.row] = Nothing]
      [] q.op = "delete state" -> [db EXCEPT !.states[q.incident] = NoState]

Write(q) ==
    CASE q.op = "insertSourceRows" -> insertSourceRows(q)
      [] q.op = "freezeBatchSourceSet" -> freezeBatchSourceSet(q)
      [] q.op = "insertRunningClassificationRun" -> insertRunningClassificationRun(q)
      [] q.op = "insertClassificationResults" -> insertClassificationResults(q)
      [] q.op = "completeClassificationRun" -> completeClassificationRun(q)
      [] q.op = "insertRunningClusteringRun" -> insertRunningClusteringRun(q)
      [] q.op = "insertIncidentClusters" -> insertIncidentClusters(q)
      [] q.op = "insertIncidentMemberships" -> insertIncidentMemberships(q)
      [] q.op = "completeClusteringRun" -> completeClusteringRun(q)
      [] q.op = "insertIncidentClaim" -> insertIncidentClaim(q)
      [] q.op = "insertRunningEvidenceRun" -> insertRunningEvidenceRun(q)
      [] q.op = "insertEvidenceStates" -> insertEvidenceStates(q)
      [] q.op = "completeEvidenceRun" -> completeEvidenceRun(q)
      [] q.op = "insertWeekRunChild" -> insertWeekRunChild(q)
      [] q.op = "completeWeekRun" -> completeWeekRun(q)
      [] OTHER -> Console(q)

-----------------------------------------------------------------------------
\* What is stored of the runs, by what completes them.
Output(c) == db.results[c]

StoredClustering == <<db.sizes, db.member>>

Init ==
    /\ scenario \in Scenarios
    /\ db = Start[scenario]
    /\ session = [s \in Sessions |-> NoStatement]
    /\ kept = [runs |-> [c \in Runs |-> IF db.runs[c].status = "completed" THEN {Output(c)} ELSE {}],
               clustering |-> IF db.clustering.status = "completed" THEN {StoredClustering} ELSE {},
               evidence |-> {}, week |-> {}]

\* BEGIN and the statement: it waits for its locks, and its triggers judge it.
Begin(s, q) ==
    /\ session[s] = NoStatement
    /\ Granted(s, q) /\ Permitted(q)
    /\ session' = [session EXCEPT ![s] = q]
    /\ UNCHANGED <<scenario, db, kept>>

Rollback(s) ==
    /\ session[s] # NoStatement
    /\ session' = [session EXCEPT ![s] = NoStatement]
    /\ UNCHANGED <<scenario, db, kept>>

\* COMMIT: what the statement wrote is seen by the others.
Commit(s) ==
    LET q == session[s] IN
    /\ q # NoStatement
    /\ db' = Write(q)
    /\ kept' = CASE q.op = "completeClassificationRun" -> [kept EXCEPT !.runs[q.run] = {Output(q.run)}]
                 [] q.op = "completeClusteringRun" -> [kept EXCEPT !.clustering = {StoredClustering}]
                 [] q.op = "completeEvidenceRun" -> [kept EXCEPT !.evidence = {db.states}]
                 [] q.op = "completeWeekRun" -> [kept EXCEPT !.week = {db.children}]
                 [] OTHER -> kept
    /\ session' = [session EXCEPT ![s] = NoStatement]
    /\ UNCHANGED scenario

Next ==
    \E s \in Sessions :
        \/ \E q \in Statements[scenario] : Begin(s, q)
        \/ Commit(s)
        \/ Rollback(s)

Spec == Init /\ [][Next]_guardVars

-----------------------------------------------------------------------------
\* Every field holds what its table may.
TypeOK ==
    /\ scenario \in Scenarios
    /\ db \in Database
    /\ session \in [Sessions -> Statements[scenario] \cup {NoStatement}]

\* A completed classification run holds one result of each row its batch has,
\* now and from then on, and its counter is that of the results: whatever rows
\* and results others were writing while it completed (classification_run_guard,
\* classification_result_guard, source_rows_freeze_guard).
CompletedRunCovers ==
    \A c \in Runs : db.runs[c].status = "completed" =>
        /\ db.frozen
        /\ Stored(c) = db.rows
        /\ db.runs[c].included = Cardinality(Of(c, "include"))

\* The incidents of a completed clustering run divide the rows its classification
\* run found eligible, and a corroboration rests on a claim of a row that is a
\* member of that incident (clustering_run_guard, evidence_claim_guard and the
\* claims' key).
ChainHolds ==
    /\ db.clustering.status = "completed" =>
           /\ db.runs[db.clustering.of].status = "completed"
           /\ Members = Of(db.clustering.of, "include")
           /\ \A r \in Members : db.member[r] \in Present
           /\ db.clustering.incidents = Cardinality(Present)
    /\ db.evidence.status = "completed" => Stated = Present
    /\ \A x \in Corroborated : db.member[db.states[x].row] = x

\* What was stored of a run when it was completed is what is stored of it from
\* then on: nobody adds to it, takes from it or moves out of it
\* (classification_result_guard, clustering_output_guard, evidence_output_guard,
\* week_run_child_guard).
CompletedKeepsOutput ==
    /\ \A c \in Runs : kept.runs[c] \subseteq {Output(c)}
    /\ kept.clustering \subseteq {StoredClustering}
    /\ kept.evidence \subseteq {db.states}
    /\ kept.week \subseteq {db.children}
=============================================================================
