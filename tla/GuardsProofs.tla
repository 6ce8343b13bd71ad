---------------------------- MODULE GuardsProofs ----------------------------
(***************************************************************************)
(* The guards of the schema, for every number of sessions, rows, runs and  *)
(* incidents, whatever statements are issued, from any stored state that   *)
(* is sound: what a statement was permitted on is still so when it         *)
(* commits, for what could change it waits for a row the statement holds.  *)
(***************************************************************************)
EXTENDS RunGuards, FiniteSetTheorems, TLAPS

-----------------------------------------------------------------------------
(* The statements. *)

RowWriters == {"insertSourceRows", "delete source row"}

FreezeWriters == {"freezeBatchSourceSet", "clear freeze"}

RunWriters == {"insertRunningClassificationRun", "delete run", "completeClassificationRun"}

ResultWriters == {"insertClassificationResults", "delete result", "move result"}

ClusteringWriters == {"insertRunningClusteringRun", "completeClusteringRun"}

IncidentWriters == {"insertIncidentClusters", "delete incident"}

MemberWriters == {"insertIncidentMemberships", "delete membership"}

EvidenceWriters == {"insertRunningEvidenceRun", "completeEvidenceRun"}

StateWriters == {"insertEvidenceStates", "delete state"}

Statement ==
    [op : RowWriters, row : Rows]
    \cup [op : FreezeWriters]
    \cup [op : {"insertRunningClassificationRun", "delete run", "insertRunningClusteringRun"}, run : Runs]
    \cup [op : {"completeClassificationRun"}, run : Runs, included : Nat]
    \cup [op : {"insertClassificationResults"}, run : Runs, row : Rows, decision : Decisions]
    \cup [op : {"delete result"}, run : Runs, row : Rows]
    \cup [op : {"move result"}, run : Runs, to : Runs, row : Rows]
    \cup [op : {"completeClusteringRun"}, incidents : Nat]
    \cup [op : {"insertIncidentClusters"}, incident : Clusters, size : 1..Cardinality(Rows)]
    \cup [op : {"delete incident", "delete state"}, incident : Clusters]
    \cup [op : {"insertIncidentMemberships", "insertIncidentClaim"}, incident : Clusters, row : Rows]
    \cup [op : {"delete membership"}, row : Rows]
    \cup [op : {"insertRunningEvidenceRun", "completeWeekRun"}]
    \cup [op : {"insertEvidenceStates"}, incident : Clusters, kind : {"reported", "corroborated"},
          row : Rows \cup {0}]
    \cup [op : {"completeEvidenceRun"}, corroborated : Nat]
    \cup [op : {"insertWeekRunChild"}, child : {"classification", "clustering"}]

\* There are finitely many rows and incidents, none of which is called nothing,
\* and what is issued is a statement of these.
GuardsParameters ==
    /\ IsFiniteSet(Rows) /\ IsFiniteSet(Clusters)
    /\ Nothing \notin Clusters /\ 0 \notin Runs
    /\ \A n \in Scenarios : Statements[n] \subseteq Statement

\* The runs whose results a statement writes.
Touched(q) == IF q.op = "move result" THEN {q.run, q.to} ELSE {q.run}

\* What two statements may not do at once.
Clash(q, r) ==
    \/ /\ q.op \in RowWriters \cup FreezeWriters
       /\ r.op \in RowWriters \cup FreezeWriters \cup {"completeClassificationRun"}
    \/ q.op \in RowWriters /\ r.op = "insertClassificationResults" /\ q.row = r.row
    \/ q.op \in RunWriters /\ r.op \in RunWriters /\ q.run = r.run
    \/ q.op \in RunWriters /\ r.op \in ResultWriters /\ q.run \in Touched(r)
    \/ /\ q.op \in ResultWriters /\ r.op \in ResultWriters
       /\ q.row = r.row /\ Touched(q) \cap Touched(r) # {}
    \/ q.op \in ClusteringWriters /\ r.op \in ClusteringWriters \cup IncidentWriters \cup MemberWriters
    \/ /\ q.op \in IncidentWriters
       /\ r.op \in IncidentWriters \cup StateWriters \cup {"insertIncidentMemberships"}
       /\ q.incident = r.incident
    \/ /\ q.op \in MemberWriters /\ r.op \in MemberWriters \cup {"insertIncidentClaim"}
       /\ q.row = r.row
    \/ q.op \in EvidenceWriters /\ r.op \in EvidenceWriters \cup StateWriters
    \/ q.op \in StateWriters /\ r.op \in StateWriters /\ q.incident = r.incident
    \/ q.op = "completeWeekRun" /\ r.op \in {"completeWeekRun", "insertWeekRunChild"}
    \/ q.op = "insertWeekRunChild" /\ r.op = "insertWeekRunChild" /\ q.child = r.child

\* What a pending statement was permitted on.
SourceAllowed(q) ==
    /\ q.op = "insertSourceRows" => ~db.frozen /\ q.row \notin db.rows
    /\ q.op = "delete source row" =>
           ~db.frozen /\ q.row \in db.rows /\ \A c \in Runs : db.results[c][q.row] = Nothing
    /\ q.op = "clear freeze" => ~db.frozen

RunAllowed(q) ==
    /\ q.op = "insertRunningClassificationRun" => db.runs[q.run].status = "absent"
    /\ q.op = "delete run" => db.runs[q.run].status = "running" /\ Stored(q.run) = {}
    /\ q.op = "completeClassificationRun" => db.runs[q.run].status = "running" /\ Covers(q)

ResultAllowed(q) ==
    /\ q.op \in ResultWriters => \A c \in Touched(q) : db.runs[c].status = "running"
    /\ q.op = "insertClassificationResults" => q.row \in db.rows /\ db.results[q.run][q.row] = Nothing
    /\ q.op \in {"delete result", "move result"} => db.results[q.run][q.row] # Nothing
    /\ q.op = "move result" => db.results[q.to][q.row] = Nothing

ClusteringAllowed(q) ==
    /\ q.op = "insertRunningClusteringRun" =>
           db.clustering.status = "absent" /\ db.runs[q.run].status = "completed"
    /\ q.op = "completeClusteringRun" =>
           /\ db.clustering.status = "running"
           /\ Members = Of(db.clustering.of, "include")
           /\ q.incidents = Cardinality(Present)

MemberAllowed(q) ==
    /\ q.op \in IncidentWriters \cup MemberWriters => db.clustering.status = "running"
    /\ q.op = "insertIncidentClusters" => db.sizes[q.incident] = 0
    /\ q.op = "delete incident" => \A r \in Rows : db.member[r] # q.incident
    /\ q.op = "insertIncidentMemberships" =>
           db.sizes[q.incident] > 0 /\ db.member[q.row] = Nothing
    /\ q.op = "delete membership" =>
           db.member[q.row] # Nothing /\ <<db.member[q.row], q.row>> \notin db.claims
    /\ q.op = "insertIncidentClaim" => db.member[q.row] = q.incident

EvidenceAllowed(q) ==
    /\ q.op = "insertRunningEvidenceRun" =>
           db.evidence.status = "absent" /\ db.clustering.status = "completed"
    /\ q.op = "completeEvidenceRun" =>
           db.evidence.status = "running" /\ Cardinality(Stated) = Cardinality(Present)
    /\ q.op \in StateWriters => db.evidence.status = "running"
    /\ q.op = "insertEvidenceStates" =>
           /\ db.sizes[q.incident] > 0
           /\ q.kind = "corroborated" => <<q.incident, q.row>> \in db.claims

WeekAllowed(q) == q.op \in {"completeWeekRun", "insertWeekRunChild"} => db.week = "running"

Allowed(q) ==
    /\ SourceAllowed(q) /\ RunAllowed(q) /\ ResultAllowed(q) /\ ClusteringAllowed(q)
    /\ MemberAllowed(q) /\ EvidenceAllowed(q) /\ WeekAllowed(q)

-----------------------------------------------------------------------------
(* The invariant. *)

\* What is stored is whole, run by run, as far as each has come.
ClusteringSound ==
    /\ db.clustering.status # "absent" =>
           db.clustering.of \in Runs /\ db.runs[db.clustering.of].status = "completed"
    /\ db.clustering.status = "completed" =>
           /\ Members = Of(db.clustering.of, "include")
           /\ db.clustering.incidents = Cardinality(Present)
    /\ \A r \in Rows : db.member[r] # Nothing => db.member[r] \in Present
    /\ \A x \in Clusters, r \in Rows : <<x, r>> \in db.claims => db.member[r] = x

EvidenceStands ==
    /\ db.evidence.status # "absent" => db.clustering.status = "completed"
    /\ db.evidence.status = "absent" => Stated = {}
    /\ Stated \subseteq Present
    /\ db.evidence.status = "completed" => Stated = Present
    /\ \A x \in Clusters :
           db.states[x].kind = "corroborated" => <<x, db.states[x].row>> \in db.claims

Sound == db \in Database /\ CompletedRunCovers /\ ClusteringSound /\ EvidenceStands

\* What is kept of a run is kept of a completed one.
KeptSound ==
    /\ \A c \in Runs : kept.runs[c] # {} => db.runs[c].status = "completed"
    /\ kept.clustering # {} => db.clustering.status = "completed"
    /\ kept.evidence # {} => db.evidence.status = "completed"
    /\ kept.week # {} => db.week = "completed"

KeptTyped ==
    /\ kept = [runs |-> kept.runs, clustering |-> kept.clustering,
               evidence |-> kept.evidence, week |-> kept.week]
    /\ kept.runs = [c \in Runs |-> kept.runs[c]]

\* What a session has executed is still allowed, and clashes with no other.
Pending ==
    /\ \A s \in Sessions : \A q \in Statement : session[s] = q => Allowed(q)
    /\ \A s, t \in Sessions : \A q, r \in Statement :
           s # t /\ session[s] = q /\ session[t] = r => ~Clash(q, r)

Inv == TypeOK /\ Sound /\ KeptTyped /\ KeptSound /\ CompletedKeepsOutput /\ Pending

-----------------------------------------------------------------------------
(* Locks. *)

\* The locks of each kind of statement.
LEMMA LocksAre ==
    ASSUME NEW q
    PROVE
    /\ q.op \in RowWriters =>
           {<<<<"batch">>, 3>>, <<<<"row", q.row>>, 4>>} \subseteq Locks(q)
    /\ q.op \in FreezeWriters =>
           {<<<<"batch">>, 3>>} \subseteq Locks(q)
    /\ q.op \in {"insertRunningClassificationRun", "delete run"} =>
           {<<<<"run", q.run>>, 4>>} \subseteq Locks(q)
    /\ q.op = "completeClassificationRun" =>
           {<<<<"run", q.run>>, 3>>, <<<<"batch">>, 2>>} \subseteq Locks(q)
    /\ q.op = "insertClassificationResults" =>
           {<<<<"row", q.row>>, 1>>} \subseteq Locks(q)
    /\ q.op \in ResultWriters =>
           \A c \in Touched(q) : {<<<<"run", c>>, 2>>, <<<<"result", c, q.row>>, 4>>} \subseteq Locks(q)
    /\ q.op = "insertRunningClusteringRun" =>
           {<<<<"clustering">>, 4>>} \subseteq Locks(q)
    /\ q.op = "completeClusteringRun" =>
           {<<<<"clustering">>, 3>>} \subseteq Locks(q)
    /\ q.op \in IncidentWriters =>
           {<<<<"clustering">>, 2>>, <<<<"incident", q.incident>>, 4>>} \subseteq Locks(q)
    /\ q.op \in MemberWriters =>
           {<<<<"clustering">>, 2>>, <<<<"member", q.row>>, 4>>} \subseteq Locks(q)
    /\ q.op = "insertIncidentMemberships" =>
           {<<<<"incident", q.incident>>, 1>>} \subseteq Locks(q)
    /\ q.op = "insertIncidentClaim" =>
           {<<<<"member", q.row>>, 1>>} \subseteq Locks(q)
    /\ q.op = "insertRunningEvidenceRun" =>
           {<<<<"evidence">>, 4>>} \subseteq Locks(q)
    /\ q.op = "completeEvidenceRun" =>
           {<<<<"evidence">>, 3>>} \subseteq Locks(q)
    /\ q.op \in StateWriters =>
           {<<<<"evidence">>, 2>>, <<<<"incident", q.incident>>, 1>>, <<<<"state", q.incident>>, 4>>} \subseteq Locks(q)
    /\ q.op = "completeWeekRun" =>
           {<<<<"week">>, 3>>} \subseteq Locks(q)
    /\ q.op = "insertWeekRunChild" =>
           {<<<<"week">>, 2>>, <<<<"child", q.child>>, 4>>} \subseteq Locks(q)
<1>1. q.op \in RowWriters =>
          {<<<<"batch">>, 3>>, <<<<"row", q.row>>, 4>>} \subseteq Locks(q)
  BY DEF Locks, ClassificationLocks, RowWriters, KeyShare, Share, NoKeyUpdate, ForUpdate
<1>2. q.op \in FreezeWriters =>
          {<<<<"batch">>, 3>>} \subseteq Locks(q)
  BY DEF Locks, ClassificationLocks, FreezeWriters, KeyShare, Share, NoKeyUpdate, ForUpdate
<1>3. q.op \in {"insertRunningClassificationRun", "delete run"} =>
          {<<<<"run", q.run>>, 4>>} \subseteq Locks(q)
  BY DEF Locks, ClassificationLocks, KeyShare, Share, NoKeyUpdate, ForUpdate
<1>4. q.op = "completeClassificationRun" =>
          {<<<<"run", q.run>>, 3>>, <<<<"batch">>, 2>>} \subseteq Locks(q)
  BY DEF Locks, ClassificationLocks, KeyShare, Share, NoKeyUpdate, ForUpdate
<1>5. q.op = "insertClassificationResults" =>
          {<<<<"row", q.row>>, 1>>} \subseteq Locks(q)
  BY DEF Locks, ClassificationLocks, KeyShare, Share, NoKeyUpdate, ForUpdate
<1>6. q.op \in ResultWriters =>
          \A c \in Touched(q) : {<<<<"run", c>>, 2>>, <<<<"result", c, q.row>>, 4>>} \subseteq Locks(q)
  BY DEF Locks, ClassificationLocks, KeyShare, Share, NoKeyUpdate, ForUpdate, ResultWriters, Touched
<1>7. q.op = "insertRunningClusteringRun" =>
          {<<<<"clustering">>, 4>>} \subseteq Locks(q)
  BY DEF Locks, ClusteringLocks, KeyShare, Share, NoKeyUpdate, ForUpdate
<1>8. q.op = "completeClusteringRun" =>
          {<<<<"clustering">>, 3>>} \subseteq Locks(q)
  BY DEF Locks, ClusteringLocks, KeyShare, Share, NoKeyUpdate, ForUpdate
<1>9. q.op \in IncidentWriters =>
          {<<<<"clustering">>, 2>>, <<<<"incident", q.incident>>, 4>>} \subseteq Locks(q)
  BY DEF Locks, ClusteringLocks, IncidentWriters, KeyShare, Share, NoKeyUpdate, ForUpdate
<1>10. q.op \in MemberWriters =>
          {<<<<"clustering">>, 2>>, <<<<"member", q.row>>, 4>>} \subseteq Locks(q)
  BY DEF Locks, ClusteringLocks, MemberWriters, KeyShare, Share, NoKeyUpdate, ForUpdate
<1>11. q.op = "insertIncidentMemberships" =>
          {<<<<"incident", q.incident>>, 1>>} \subseteq Locks(q)
  BY DEF Locks, ClusteringLocks, KeyShare, Share, NoKeyUpdate, ForUpdate
<1>12. q.op = "insertIncidentClaim" =>
          {<<<<"member", q.row>>, 1>>} \subseteq Locks(q)
  BY DEF Locks, LaterLocks, KeyShare, Share, NoKeyUpdate, ForUpdate
<1>13. q.op = "insertRunningEvidenceRun" =>
          {<<<<"evidence">>, 4>>} \subseteq Locks(q)
  BY DEF Locks, LaterLocks, KeyShare, Share, NoKeyUpdate, ForUpdate
<1>14. q.op = "completeEvidenceRun" =>
          {<<<<"evidence">>, 3>>} \subseteq Locks(q)
  BY DEF Locks, LaterLocks, KeyShare, Share, NoKeyUpdate, ForUpdate
<1>15. q.op \in StateWriters =>
          {<<<<"evidence">>, 2>>, <<<<"incident", q.incident>>, 1>>, <<<<"state", q.incident>>, 4>>} \subseteq Locks(q)
  BY DEF Locks, LaterLocks, StateWriters, KeyShare, Share, NoKeyUpdate, ForUpdate
<1>16. q.op = "completeWeekRun" =>
          {<<<<"week">>, 3>>} \subseteq Locks(q)
  BY DEF Locks, LaterLocks, KeyShare, Share, NoKeyUpdate, ForUpdate
<1>17. q.op = "insertWeekRunChild" =>
          {<<<<"week">>, 2>>, <<<<"child", q.child>>, 4>>} \subseteq Locks(q)
  BY DEF Locks, LaterLocks, KeyShare, Share, NoKeyUpdate, ForUpdate
<1>18. QED
  BY <1>1, <1>2, <1>3, <1>4, <1>5, <1>6, <1>7, <1>8, <1>9, <1>10, <1>11, <1>12, <1>13, <1>14, <1>15, <1>16, <1>17

\* Statements that clash want locks of one row that exclude each other.
Excluded(q, r) == \E a \in Locks(q), b \in Locks(r) : a[1] = b[1] /\ ~(a[2] + b[2] <= 4) /\ ~(b[2] + a[2] <= 4)

LEMMA OneRow ==
    ASSUME NEW q, NEW r, NEW key,
           \/ /\ <<key, 4>> \in Locks(q) \/ <<key, 3>> \in Locks(q)
              /\ <<key, 4>> \in Locks(r) \/ <<key, 3>> \in Locks(r) \/ <<key, 2>> \in Locks(r)
           \/ <<key, 4>> \in Locks(q) /\ <<key, 1>> \in Locks(r)
    PROVE  Excluded(q, r)
<1>1. ASSUME NEW n \in 1..4, NEW m \in 1..4, n + m > 4,
             <<key, n>> \in Locks(q), <<key, m>> \in Locks(r)
      PROVE  Excluded(q, r)
  <2>1. ~(n + m <= 4) /\ ~(m + n <= 4)
    BY <1>1
  <2>2. QED BY <1>1, <2>1 DEF Excluded
<1>2. QED BY <1>1

LEMMA ClashExcludes ==
    ASSUME NEW q, NEW r, Clash(q, r)
    PROVE  Excluded(q, r)
<1>1. CASE /\ q.op \in RowWriters \cup FreezeWriters
           /\ r.op \in RowWriters \cup FreezeWriters \cup {"completeClassificationRun"}
  <2>1. <<<<"batch">>, 3>> \in Locks(q)
    BY <1>1, LocksAre
  <2>2. <<<<"batch">>, 3>> \in Locks(r) \/ <<<<"batch">>, 2>> \in Locks(r)
    BY <1>1, LocksAre
  <2>3. QED BY <2>1, <2>2, OneRow
<1>2. CASE q.op \in RowWriters /\ r.op = "insertClassificationResults" /\ q.row = r.row
  <2>1. <<<<"row", q.row>>, 4>> \in Locks(q) /\ <<<<"row", q.row>>, 1>> \in Locks(r)
    BY <1>2, LocksAre
  <2>2. QED BY <2>1, OneRow
<1>3. CASE q.op \in RunWriters /\ r.op \in RunWriters /\ q.run = r.run
  <2>1. <<<<"run", q.run>>, 4>> \in Locks(q) \/ <<<<"run", q.run>>, 3>> \in Locks(q)
    BY <1>3, LocksAre DEF RunWriters
  <2>2. <<<<"run", q.run>>, 4>> \in Locks(r) \/ <<<<"run", q.run>>, 3>> \in Locks(r)
    BY <1>3, LocksAre DEF RunWriters
  <2>3. QED BY <2>1, <2>2, OneRow
<1>4. CASE q.op \in RunWriters /\ r.op \in ResultWriters /\ q.run \in Touched(r)
  <2>1. <<<<"run", q.run>>, 4>> \in Locks(q) \/ <<<<"run", q.run>>, 3>> \in Locks(q)
    BY <1>4, LocksAre DEF RunWriters
  <2>2. <<<<"run", q.run>>, 2>> \in Locks(r)
    BY <1>4, LocksAre
  <2>3. QED BY <2>1, <2>2, OneRow
<1>5. CASE /\ q.op \in ResultWriters /\ r.op \in ResultWriters
           /\ q.row = r.row /\ Touched(q) \cap Touched(r) # {}
  <2>1. PICK c \in Touched(q) : c \in Touched(r)
    BY <1>5
  <2>2. <<<<"result", c, q.row>>, 4>> \in Locks(q) /\ <<<<"result", c, q.row>>, 4>> \in Locks(r)
    BY <1>5, <2>1, LocksAre
  <2>3. QED BY <2>2, OneRow
<1>6. CASE q.op \in ClusteringWriters /\ r.op \in ClusteringWriters \cup IncidentWriters \cup MemberWriters
  <2>1. <<<<"clustering">>, 4>> \in Locks(q) \/ <<<<"clustering">>, 3>> \in Locks(q)
    BY <1>6, LocksAre DEF ClusteringWriters
  <2>2. \/ <<<<"clustering">>, 4>> \in Locks(r) \/ <<<<"clustering">>, 3>> \in Locks(r)
        \/ <<<<"clustering">>, 2>> \in Locks(r)
    BY <1>6, LocksAre DEF ClusteringWriters
  <2>3. QED BY <2>1, <2>2, OneRow
<1>7. CASE /\ q.op \in IncidentWriters
           /\ r.op \in IncidentWriters \cup StateWriters \cup {"insertIncidentMemberships"}
           /\ q.incident = r.incident
  <2>1. <<<<"incident", q.incident>>, 4>> \in Locks(q)
    BY <1>7, LocksAre
  <2>2. <<<<"incident", q.incident>>, 4>> \in Locks(r) \/ <<<<"incident", q.incident>>, 1>> \in Locks(r)
    BY <1>7, LocksAre
  <2>3. QED BY <2>1, <2>2, OneRow
<1>8. CASE /\ q.op \in MemberWriters /\ r.op \in MemberWriters \cup {"insertIncidentClaim"}
           /\ q.row = r.row
  <2>1. <<<<"member", q.row>>, 4>> \in Locks(q)
    BY <1>8, LocksAre
  <2>2. <<<<"member", q.row>>, 4>> \in Locks(r) \/ <<<<"member", q.row>>, 1>> \in Locks(r)
    BY <1>8, LocksAre
  <2>3. QED BY <2>1, <2>2, OneRow
<1>9. CASE q.op \in EvidenceWriters /\ r.op \in EvidenceWriters \cup StateWriters
  <2>1. <<<<"evidence">>, 4>> \in Locks(q) \/ <<<<"evidence">>, 3>> \in Locks(q)
    BY <1>9, LocksAre DEF EvidenceWriters
  <2>2. \/ <<<<"evidence">>, 4>> \in Locks(r) \/ <<<<"evidence">>, 3>> \in Locks(r)
        \/ <<<<"evidence">>, 2>> \in Locks(r)
    BY <1>9, LocksAre DEF EvidenceWriters
  <2>3. QED BY <2>1, <2>2, OneRow
<1>10. CASE q.op \in StateWriters /\ r.op \in StateWriters /\ q.incident = r.incident
  <2>1. <<<<"state", q.incident>>, 4>> \in Locks(q) /\ <<<<"state", q.incident>>, 4>> \in Locks(r)
    BY <1>10, LocksAre
  <2>2. QED BY <2>1, OneRow
<1>11. CASE q.op = "completeWeekRun" /\ r.op \in {"completeWeekRun", "insertWeekRunChild"}
  <2>1. <<<<"week">>, 3>> \in Locks(q)
    BY <1>11, LocksAre
  <2>2. <<<<"week">>, 3>> \in Locks(r) \/ <<<<"week">>, 2>> \in Locks(r)
    BY <1>11, LocksAre
  <2>3. QED BY <2>1, <2>2, OneRow
<1>12. CASE q.op = "insertWeekRunChild" /\ r.op = "insertWeekRunChild" /\ q.child = r.child
  <2>1. <<<<"child", q.child>>, 4>> \in Locks(q) /\ <<<<"child", q.child>>, 4>> \in Locks(r)
    BY <1>12, LocksAre
  <2>2. QED BY <2>1, OneRow
<1>13. QED
  BY <1>1, <1>2, <1>3, <1>4, <1>5, <1>6, <1>7, <1>8, <1>9, <1>10, <1>11, <1>12 DEF Clash

\* What is granted beside a statement clashes with it in neither direction.
LEMMA GrantedApart ==
    ASSUME NEW s \in Sessions, NEW t \in Sessions, s # t, NEW q, NEW r,
           Granted(s, q), session[t] = r
    PROVE  ~Clash(q, r) /\ ~Clash(r, q)
<1>1. \A a \in Locks(r), b \in Locks(q) : a[1] = b[1] => a[2] + b[2] <= 4
  BY DEF Granted
<1>2. ~Excluded(q, r) /\ ~Excluded(r, q)
  BY <1>1 DEF Excluded
<1>3. QED BY <1>2, ClashExcludes

\* What is permitted is what each kind of statement is allowed on.
LEMMA PermittedAllows ==
    ASSUME NEW q \in Statement, Permitted(q), Sound
    PROVE  Allowed(q)
BY DEF Permitted, OverCompleted, source_rows_freeze_guard, SourceRowKeys, import_batch_freeze_guard,
       classification_run_guard, classification_result_guard, ResultKeys, clustering_run_guard,
       clustering_output_guard, MembershipKeys, incident_claims_membership_fk, evidence_run_guard,
       evidence_output_guard, StateKeys, evidence_claim_guard, week_run_guard, week_run_child_guard,
       Allowed, SourceAllowed, RunAllowed, ResultAllowed, ClusteringAllowed, MemberAllowed,
       EvidenceAllowed, WeekAllowed, Statement, RowWriters, FreezeWriters, RunWriters, ResultWriters, ClusteringWriters,
       IncidentWriters, MemberWriters, EvidenceWriters, StateWriters, Touched

-----------------------------------------------------------------------------
(* What a statement changes when it commits. *)

State == [kind : {Nothing, "reported", "corroborated"}, row : Rows \cup {0}]

OnlyChanged(f) ==
    /\ db' \in Database
    /\ f # "rows" => db'.rows = db.rows
    /\ f # "frozen" => db'.frozen = db.frozen
    /\ f # "runs" => db'.runs = db.runs
    /\ f # "results" => db'.results = db.results
    /\ f # "clustering" => db'.clustering = db.clustering
    /\ f # "sizes" => db'.sizes = db.sizes
    /\ f # "member" => db'.member = db.member
    /\ f # "claims" => db'.claims = db.claims
    /\ f # "evidence" => db'.evidence = db.evidence
    /\ f # "states" => db'.states = db.states
    /\ f # "week" => db'.week = db.week
    /\ f # "children" => db'.children = db.children

\* A field is written, with a value of its type.
LEMMA OneField ==
    ASSUME db \in Database, NEW v
    PROVE
    /\ v \in SUBSET Rows /\ db' = [db EXCEPT !.rows = v] =>
           OnlyChanged("rows") /\ db'.rows = v
    /\ v \in BOOLEAN /\ db' = [db EXCEPT !.frozen = v] =>
           OnlyChanged("frozen") /\ db'.frozen = v
    /\ v \in [Runs -> [status : Statuses, included : Nat]] /\ db' = [db EXCEPT !.runs = v] =>
           OnlyChanged("runs") /\ db'.runs = v
    /\ v \in [Runs -> [Rows -> Decisions \cup {Nothing}]] /\ db' = [db EXCEPT !.results = v] =>
           OnlyChanged("results") /\ db'.results = v
    /\ v \in [status : Statuses, of : Runs \cup {0}, incidents : Nat] /\ db' = [db EXCEPT !.clustering = v] =>
           OnlyChanged("clustering") /\ db'.clustering = v
    /\ v \in [Clusters -> 0..Cardinality(Rows)] /\ db' = [db EXCEPT !.sizes = v] =>
           OnlyChanged("sizes") /\ db'.sizes = v
    /\ v \in [Rows -> Clusters \cup {Nothing}] /\ db' = [db EXCEPT !.member = v] =>
           OnlyChanged("member") /\ db'.member = v
    /\ v \in SUBSET (Clusters \X Rows) /\ db' = [db EXCEPT !.claims = v] =>
           OnlyChanged("claims") /\ db'.claims = v
    /\ v \in [status : Statuses, corroborated : Nat] /\ db' = [db EXCEPT !.evidence = v] =>
           OnlyChanged("evidence") /\ db'.evidence = v
    /\ v \in [Clusters -> State] /\ db' = [db EXCEPT !.states = v] =>
           OnlyChanged("states") /\ db'.states = v
    /\ v \in Statuses /\ db' = [db EXCEPT !.week = v] =>
           OnlyChanged("week") /\ db'.week = v
    /\ v \in SUBSET {"classification", "clustering"} /\ db' = [db EXCEPT !.children = v] =>
           OnlyChanged("children") /\ db'.children = v
<1>a. DOMAIN db = {"rows", "frozen", "runs", "results", "clustering", "sizes", "member", "claims",
                   "evidence", "states", "week", "children"}
  BY DEF Database
<1>1. v \in SUBSET Rows /\ db' = [db EXCEPT !.rows = v] =>
          OnlyChanged("rows") /\ db'.rows = v
  <2> SUFFICES ASSUME v \in SUBSET Rows,
                      db' = [db EXCEPT !.rows = v]
               PROVE  OnlyChanged("rows") /\ db'.rows = v
    OBVIOUS
  <2>1. db' \in Database
    BY Zenon DEF Database
  <2>2. db'.rows = v /\ \A g \in DOMAIN db : g # "rows" => db'[g] = db[g]
    BY <1>a
  <2>3. QED BY <1>a, <2>1, <2>2 DEF OnlyChanged
<1>2. v \in BOOLEAN /\ db' = [db EXCEPT !.frozen = v] =>
          OnlyChanged("frozen") /\ db'.frozen = v
  <2> SUFFICES ASSUME v \in BOOLEAN,
                      db' = [db EXCEPT !.frozen = v]
               PROVE  OnlyChanged("frozen") /\ db'.frozen = v
    OBVIOUS
  <2>1. db' \in Database
    BY Zenon DEF Database
  <2>2. db'.frozen = v /\ \A g \in DOMAIN db : g # "frozen" => db'[g] = db[g]
    BY <1>a
  <2>3. QED BY <1>a, <2>1, <2>2 DEF OnlyChanged
<1>3. v \in [Runs -> [status : Statuses, included : Nat]] /\ db' = [db EXCEPT !.runs = v] =>
          OnlyChanged("runs") /\ db'.runs = v
  <2> SUFFICES ASSUME v \in [Runs -> [status : Statuses, included : Nat]],
                      db' = [db EXCEPT !.runs = v]
               PROVE  OnlyChanged("runs") /\ db'.runs = v
    OBVIOUS
  <2>1. db' \in Database
    BY Zenon DEF Database
  <2>2. db'.runs = v /\ \A g \in DOMAIN db : g # "runs" => db'[g] = db[g]
    BY <1>a
  <2>3. QED BY <1>a, <2>1, <2>2 DEF OnlyChanged
<1>4. v \in [Runs -> [Rows -> Decisions \cup {Nothing}]] /\ db' = [db EXCEPT !.results = v] =>
          OnlyChanged("results") /\ db'.results = v
  <2> SUFFICES ASSUME v \in [Runs -> [Rows -> Decisions \cup {Nothing}]],
                      db' = [db EXCEPT !.results = v]
               PROVE  OnlyChanged("results") /\ db'.results = v
    OBVIOUS
  <2>1. db' \in Database
    BY Zenon DEF Database
  <2>2. db'.results = v /\ \A g \in DOMAIN db : g # "results" => db'[g] = db[g]
    BY <1>a
  <2>3. QED BY <1>a, <2>1, <2>2 DEF OnlyChanged
<1>5. v \in [status : Statuses, of : Runs \cup {0}, incidents : Nat] /\ db' = [db EXCEPT !.clustering = v] =>
          OnlyChanged("clustering") /\ db'.clustering = v
  <2> SUFFICES ASSUME v \in [status : Statuses, of : Runs \cup {0}, incidents : Nat],
                      db' = [db EXCEPT !.clustering = v]
               PROVE  OnlyChanged("clustering") /\ db'.clustering = v
    OBVIOUS
  <2>1. db' \in Database
    BY Zenon DEF Database
  <2>2. db'.clustering = v /\ \A g \in DOMAIN db : g # "clustering" => db'[g] = db[g]
    BY <1>a
  <2>3. QED BY <1>a, <2>1, <2>2 DEF OnlyChanged
<1>6. v \in [Clusters -> 0..Cardinality(Rows)] /\ db' = [db EXCEPT !.sizes = v] =>
          OnlyChanged("sizes") /\ db'.sizes = v
  <2> SUFFICES ASSUME v \in [Clusters -> 0..Cardinality(Rows)],
                      db' = [db EXCEPT !.sizes = v]
               PROVE  OnlyChanged("sizes") /\ db'.sizes = v
    OBVIOUS
  <2>1. db' \in Database
    BY Zenon DEF Database
  <2>2. db'.sizes = v /\ \A g \in DOMAIN db : g # "sizes" => db'[g] = db[g]
    BY <1>a
  <2>3. QED BY <1>a, <2>1, <2>2 DEF OnlyChanged
<1>7. v \in [Rows -> Clusters \cup {Nothing}] /\ db' = [db EXCEPT !.member = v] =>
          OnlyChanged("member") /\ db'.member = v
  <2> SUFFICES ASSUME v \in [Rows -> Clusters \cup {Nothing}],
                      db' = [db EXCEPT !.member = v]
               PROVE  OnlyChanged("member") /\ db'.member = v
    OBVIOUS
  <2>1. db' \in Database
    BY Zenon DEF Database
  <2>2. db'.member = v /\ \A g \in DOMAIN db : g # "member" => db'[g] = db[g]
    BY <1>a
  <2>3. QED BY <1>a, <2>1, <2>2 DEF OnlyChanged
<1>8. v \in SUBSET (Clusters \X Rows) /\ db' = [db EXCEPT !.claims = v] =>
          OnlyChanged("claims") /\ db'.claims = v
  <2> SUFFICES ASSUME v \in SUBSET (Clusters \X Rows),
                      db' = [db EXCEPT !.claims = v]
               PROVE  OnlyChanged("claims") /\ db'.claims = v
    OBVIOUS
  <2>1. db' \in Database
    BY Zenon DEF Database
  <2>2. db'.claims = v /\ \A g \in DOMAIN db : g # "claims" => db'[g] = db[g]
    BY <1>a
  <2>3. QED BY <1>a, <2>1, <2>2 DEF OnlyChanged
<1>9. v \in [status : Statuses, corroborated : Nat] /\ db' = [db EXCEPT !.evidence = v] =>
          OnlyChanged("evidence") /\ db'.evidence = v
  <2> SUFFICES ASSUME v \in [status : Statuses, corroborated : Nat],
                      db' = [db EXCEPT !.evidence = v]
               PROVE  OnlyChanged("evidence") /\ db'.evidence = v
    OBVIOUS
  <2>1. db' \in Database
    BY Zenon DEF Database
  <2>2. db'.evidence = v /\ \A g \in DOMAIN db : g # "evidence" => db'[g] = db[g]
    BY <1>a
  <2>3. QED BY <1>a, <2>1, <2>2 DEF OnlyChanged
<1>10. v \in [Clusters -> State] /\ db' = [db EXCEPT !.states = v] =>
          OnlyChanged("states") /\ db'.states = v
  <2> SUFFICES ASSUME v \in [Clusters -> State],
                      db' = [db EXCEPT !.states = v]
               PROVE  OnlyChanged("states") /\ db'.states = v
    OBVIOUS
  <2>1. db' \in Database
    BY Zenon DEF Database, State
  <2>2. db'.states = v /\ \A g \in DOMAIN db : g # "states" => db'[g] = db[g]
    BY <1>a
  <2>3. QED BY <1>a, <2>1, <2>2 DEF OnlyChanged
<1>11. v \in Statuses /\ db' = [db EXCEPT !.week = v] =>
          OnlyChanged("week") /\ db'.week = v
  <2> SUFFICES ASSUME v \in Statuses,
                      db' = [db EXCEPT !.week = v]
               PROVE  OnlyChanged("week") /\ db'.week = v
    OBVIOUS
  <2>1. db' \in Database
    BY Zenon DEF Database
  <2>2. db'.week = v /\ \A g \in DOMAIN db : g # "week" => db'[g] = db[g]
    BY <1>a
  <2>3. QED BY <1>a, <2>1, <2>2 DEF OnlyChanged
<1>12. v \in SUBSET {"classification", "clustering"} /\ db' = [db EXCEPT !.children = v] =>
          OnlyChanged("children") /\ db'.children = v
  <2> SUFFICES ASSUME v \in SUBSET {"classification", "clustering"},
                      db' = [db EXCEPT !.children = v]
               PROVE  OnlyChanged("children") /\ db'.children = v
    OBVIOUS
  <2>1. db' \in Database
    BY Zenon DEF Database
  <2>2. db'.children = v /\ \A g \in DOMAIN db : g # "children" => db'[g] = db[g]
    BY <1>a
  <2>3. QED BY <1>a, <2>1, <2>2 DEF OnlyChanged
<1>13. QED
  BY <1>1, <1>2, <1>3, <1>4, <1>5, <1>6, <1>7, <1>8, <1>9, <1>10, <1>11, <1>12

\* What a statement names.
LEMMA StatementIs ==
    ASSUME NEW q \in Statement
    PROVE  /\ q.op \in RowWriters \cup {"delete membership"} => q.row \in Rows
           /\ q.op \in RunWriters \cup ResultWriters \cup {"insertRunningClusteringRun"} => q.run \in Runs
           /\ q.op \in ResultWriters => q.row \in Rows
           /\ q.op = "completeClassificationRun" => q.included \in Nat
           /\ q.op = "insertClassificationResults" => q.decision \in Decisions
           /\ q.op = "move result" => q.to \in Runs
           /\ q.op = "completeClusteringRun" => q.incidents \in Nat
           /\ q.op \in IncidentWriters \cup StateWriters => q.incident \in Clusters
           /\ q.op = "insertIncidentClusters" => q.size \in 1..Cardinality(Rows)
           /\ q.op \in {"insertIncidentMemberships", "insertIncidentClaim"} =>
                  q.incident \in Clusters /\ q.row \in Rows
           /\ q.op = "insertEvidenceStates" => [kind |-> q.kind, row |-> q.row] \in State /\ q.kind # Nothing
           /\ q.op = "completeEvidenceRun" => q.corroborated \in Nat
           /\ q.op = "insertWeekRunChild" => q.child \in {"classification", "clustering"}
           /\ q.op \in RowWriters \cup FreezeWriters \cup RunWriters \cup ResultWriters
                  \cup ClusteringWriters \cup IncidentWriters \cup MemberWriters \cup {"insertIncidentClaim"}
                  \cup EvidenceWriters \cup StateWriters \cup {"completeWeekRun", "insertWeekRunChild"}
BY DEF Statement, RowWriters, FreezeWriters, RunWriters, ResultWriters, ClusteringWriters,
       IncidentWriters, MemberWriters, EvidenceWriters, StateWriters, State, Nothing

LEMMA RowsWritten ==
    ASSUME NEW q \in Statement, q.op \in RowWriters, db \in Database, db' = Write(q)
    PROVE  /\ OnlyChanged("rows")
           /\ q.op = "insertSourceRows" => db'.rows = db.rows \cup {q.row}
           /\ q.op = "delete source row" => db'.rows = db.rows \ {q.row}
<1>1. db.rows \in SUBSET Rows
  BY DEF Database
<1>2. CASE q.op = "insertSourceRows"
  <2> DEFINE v == db.rows \cup {q.row}
  <2>1. q.row \in Rows
    BY <1>2, StatementIs DEF RowWriters
  <2>2. v \in SUBSET Rows
    BY <1>1, <2>1 DEF RowWriters
  <2>3. db' = [db EXCEPT !.rows = v]
    BY <1>2 DEF Write, insertSourceRows, RowWriters
  <2>4. OnlyChanged("rows") /\ db'.rows = v
    <3> HIDE DEF v
    <3>1. QED BY <2>2, <2>3, OneField
  <2>5. QED BY <1>2, <1>1, <2>1, <2>4 DEF RowWriters
<1>3. CASE q.op = "delete source row"
  <2> DEFINE v == db.rows \ {q.row}
  <2>2. v \in SUBSET Rows
    BY <1>1 DEF RowWriters
  <2>3. db' = [db EXCEPT !.rows = v]
    BY <1>3 DEF Write, Console, RowWriters
  <2>4. OnlyChanged("rows") /\ db'.rows = v
    <3> HIDE DEF v
    <3>1. QED BY <2>2, <2>3, OneField
  <2>5. QED BY <1>3, <1>1, <2>4 DEF RowWriters
<1>4. QED
  BY <1>2, <1>3 DEF RowWriters

LEMMA FreezeWritten ==
    ASSUME NEW q \in Statement, q.op \in FreezeWriters, db \in Database, db' = Write(q)
    PROVE  /\ OnlyChanged("frozen")
           /\ q.op = "freezeBatchSourceSet" => db'.frozen
           /\ q.op = "clear freeze" => ~db'.frozen
<1>1. db.frozen \in BOOLEAN
  BY DEF Database
<1>2. CASE q.op = "freezeBatchSourceSet"
  <2> DEFINE v == TRUE
  <2>2. v \in BOOLEAN
    BY <1>1 DEF FreezeWriters
  <2>3. db' = [db EXCEPT !.frozen = v]
    BY <1>2 DEF Write, freezeBatchSourceSet, FreezeWriters
  <2>4. OnlyChanged("frozen") /\ db'.frozen = v
    <3> HIDE DEF v
    <3>1. QED BY <2>2, <2>3, OneField
  <2>5. QED BY <1>2, <1>1, <2>4 DEF FreezeWriters
<1>3. CASE q.op = "clear freeze"
  <2> DEFINE v == FALSE
  <2>2. v \in BOOLEAN
    BY <1>1 DEF FreezeWriters
  <2>3. db' = [db EXCEPT !.frozen = v]
    BY <1>3 DEF Write, Console, FreezeWriters
  <2>4. OnlyChanged("frozen") /\ db'.frozen = v
    <3> HIDE DEF v
    <3>1. QED BY <2>2, <2>3, OneField
  <2>5. QED BY <1>3, <1>1, <2>4 DEF FreezeWriters
<1>4. QED
  BY <1>2, <1>3 DEF FreezeWriters

LEMMA RunsWritten ==
    ASSUME NEW q \in Statement, q.op \in RunWriters, db \in Database, db' = Write(q)
    PROVE  /\ OnlyChanged("runs")
           /\ \A c \in Runs \ {q.run} : db'.runs[c] = db.runs[c]
           /\ q.op = "insertRunningClassificationRun" => db'.runs[q.run].status = "running"
           /\ q.op = "delete run" => db'.runs[q.run].status = "absent"
           /\ q.op = "completeClassificationRun" =>
                  db'.runs[q.run].status = "completed" /\ db'.runs[q.run].included = q.included
<1>1. db.runs \in [Runs -> [status : Statuses, included : Nat]]
  BY DEF Database
<1>2. CASE q.op = "insertRunningClassificationRun"
  <2> DEFINE v == [db.runs EXCEPT ![q.run] = [status |-> "running", included |-> 0]]
  <2>1. q.run \in Runs
    BY <1>2, StatementIs DEF RunWriters, Statuses
  <2>2. v \in [Runs -> [status : Statuses, included : Nat]]
    BY <1>1, <2>1 DEF RunWriters, Statuses
  <2>3. db' = [db EXCEPT !.runs = v]
    BY <1>2 DEF Write, insertRunningClassificationRun, RunWriters, Statuses
  <2>4. OnlyChanged("runs") /\ db'.runs = v
    <3> HIDE DEF v
    <3>1. QED BY <2>2, <2>3, OneField
  <2>5. v[q.run].status = "running"
    BY <1>1, <2>1
  <2>6. \A c \in Runs \ {q.run} : v[c] = db.runs[c]
    BY <1>1, <2>1
  <2> HIDE DEF v
  <2>7. QED BY <1>2, <2>4, <2>5, <2>6
<1>3. CASE q.op = "delete run"
  <2> DEFINE v == [db.runs EXCEPT ![q.run] = [status |-> "absent", included |-> 0]]
  <2>1. q.run \in Runs
    BY <1>3, StatementIs DEF RunWriters, Statuses
  <2>2. v \in [Runs -> [status : Statuses, included : Nat]]
    BY <1>1, <2>1 DEF RunWriters, Statuses
  <2>3. db' = [db EXCEPT !.runs = v]
    BY <1>3 DEF Write, Console, RunWriters, Statuses
  <2>4. OnlyChanged("runs") /\ db'.runs = v
    <3> HIDE DEF v
    <3>1. QED BY <2>2, <2>3, OneField
  <2>5. v[q.run].status = "absent"
    BY <1>1, <2>1
  <2>6. \A c \in Runs \ {q.run} : v[c] = db.runs[c]
    BY <1>1, <2>1
  <2> HIDE DEF v
  <2>7. QED BY <1>3, <2>4, <2>5, <2>6
<1>4. CASE q.op = "completeClassificationRun"
  <2> DEFINE v == [db.runs EXCEPT ![q.run] = [status |-> "completed", included |-> q.included]]
  <2>1. q.run \in Runs /\ q.included \in Nat
    BY <1>4, StatementIs DEF RunWriters, Statuses
  <2>2. v \in [Runs -> [status : Statuses, included : Nat]]
    BY <1>1, <2>1 DEF RunWriters, Statuses
  <2>3. db' = [db EXCEPT !.runs = v]
    BY <1>4 DEF Write, completeClassificationRun, RunWriters, Statuses
  <2>4. OnlyChanged("runs") /\ db'.runs = v
    <3> HIDE DEF v
    <3>1. QED BY <2>2, <2>3, OneField
  <2>5. v[q.run] = [status |-> "completed", included |-> q.included]
    BY <1>1, <2>1
  <2>6. \A c \in Runs \ {q.run} : v[c] = db.runs[c]
    BY <1>1, <2>1
  <2> HIDE DEF v
  <2>7. db'.runs[q.run].status = "completed" /\ db'.runs[q.run].included = q.included
    BY <2>4, <2>5
  <2>8. \A c \in Runs \ {q.run} : db'.runs[c] = db.runs[c]
    BY <2>4, <2>6
  <2>9. QED BY <1>4, <2>4, <2>7, <2>8
<1>5. QED
  BY <1>2, <1>3, <1>4 DEF RunWriters

LEMMA PutIs ==
    ASSUME NEW f \in [Runs -> [Rows -> Decisions \cup {Nothing}]], NEW c \in Runs, NEW r \in Rows,
           NEW d \in Decisions \cup {Nothing}
    PROVE  /\ Put(f, c, r, d) \in [Runs -> [Rows -> Decisions \cup {Nothing}]]
           /\ Put(f, c, r, d)[c][r] = d
           /\ \A b \in Runs, t \in Rows : (b # c \/ t # r) => Put(f, c, r, d)[b][t] = f[b][t]
BY DEF Put

LEMMA ResultsWritten ==
    ASSUME NEW q \in Statement, q.op \in ResultWriters, db \in Database, db' = Write(q)
    PROVE  /\ OnlyChanged("results")
           /\ \A c \in Runs, r \in Rows :
                  (c \notin Touched(q) \/ r # q.row) => db'.results[c][r] = db.results[c][r]
<1>1. /\ db.results \in [Runs -> [Rows -> Decisions \cup {Nothing}]]
      /\ q.run \in Runs /\ q.row \in Rows
  BY StatementIs DEF Database
<1> HIDE DEF Decisions
<1>2. CASE q.op = "insertClassificationResults"
  <2> DEFINE v == Put(db.results, q.run, q.row, q.decision)
  <2>1. q.decision \in Decisions
    BY <1>2, StatementIs
  <2>2. /\ v \in [Runs -> [Rows -> Decisions \cup {Nothing}]]
        /\ \A c \in Runs, r \in Rows : (c # q.run \/ r # q.row) => v[c][r] = db.results[c][r]
    BY <1>1, <2>1, PutIs
  <2>3. db' = [db EXCEPT !.results = v]
    BY <1>2 DEF Write, insertClassificationResults
  <2> HIDE DEF v
  <2>4. OnlyChanged("results") /\ db'.results = v
    BY <2>2, <2>3, OneField
  <2>5. QED BY <1>2, <2>2, <2>4 DEF Touched
<1>3. CASE q.op = "delete result"
  <2> DEFINE v == Put(db.results, q.run, q.row, Nothing)
  <2>1. /\ v \in [Runs -> [Rows -> Decisions \cup {Nothing}]]
        /\ \A c \in Runs, r \in Rows : (c # q.run \/ r # q.row) => v[c][r] = db.results[c][r]
    BY <1>1, PutIs
  <2>2. db' = [db EXCEPT !.results = v]
    BY <1>3 DEF Write, Console
  <2> HIDE DEF v
  <2>3. OnlyChanged("results") /\ db'.results = v
    BY <2>1, <2>2, OneField
  <2>4. QED BY <1>3, <2>1, <2>3 DEF Touched
<1>4. CASE q.op = "move result"
  <2> DEFINE d == db.results[q.run][q.row]
             u == Put(db.results, q.to, q.row, d)
             v == Put(u, q.run, q.row, Nothing)
  <2>1. q.to \in Runs /\ d \in Decisions \cup {Nothing}
    BY <1>1, <1>4, StatementIs DEF ResultWriters
  <2> HIDE DEF d
  <2>2. /\ u \in [Runs -> [Rows -> Decisions \cup {Nothing}]]
        /\ \A c \in Runs, r \in Rows : (c # q.to \/ r # q.row) => u[c][r] = db.results[c][r]
    BY <1>1, <2>1, PutIs
  <2> HIDE DEF u
  <2>3. /\ v \in [Runs -> [Rows -> Decisions \cup {Nothing}]]
        /\ \A c \in Runs, r \in Rows : (c # q.run \/ r # q.row) => v[c][r] = u[c][r]
    BY <1>1, <2>2, PutIs
  <2>4. db' = [db EXCEPT !.results = v]
    BY <1>4 DEF Write, Console, u, d
  <2> HIDE DEF v
  <2>5. OnlyChanged("results") /\ db'.results = v
    BY <2>3, <2>4, OneField
  <2>6. QED BY <1>4, <2>2, <2>3, <2>5 DEF Touched
<1>5. QED
  BY <1>2, <1>3, <1>4 DEF ResultWriters

LEMMA ClusteringWritten ==
    ASSUME NEW q \in Statement, q.op \in ClusteringWriters, db \in Database, db' = Write(q)
    PROVE  /\ OnlyChanged("clustering")
           /\ q.op = "insertRunningClusteringRun" => db'.clustering.status = "running" /\ db'.clustering.of = q.run
           /\ q.op = "completeClusteringRun" =>
                  /\ db'.clustering.status = "completed" /\ db'.clustering.of = db.clustering.of
                  /\ db'.clustering.incidents = q.incidents
<1>1. db.clustering \in [status : Statuses, of : Runs \cup {0}, incidents : Nat]
  BY DEF Database
<1>2. CASE q.op = "insertRunningClusteringRun"
  <2> DEFINE v == [status |-> "running", of |-> q.run, incidents |-> 0]
  <2>1. q.run \in Runs
    BY <1>2, StatementIs DEF ClusteringWriters, Statuses
  <2>2. v \in [status : Statuses, of : Runs \cup {0}, incidents : Nat]
    BY <1>1, <2>1 DEF ClusteringWriters, Statuses
  <2>3. db' = [db EXCEPT !.clustering = v]
    BY <1>2 DEF Write, insertRunningClusteringRun, ClusteringWriters, Statuses
  <2>4. OnlyChanged("clustering") /\ db'.clustering = v
    <3> HIDE DEF v
    <3>1. QED BY <2>2, <2>3, OneField
  <2>5. QED BY <1>2, <1>1, <2>1, <2>4 DEF ClusteringWriters, Statuses
<1>3. CASE q.op = "completeClusteringRun"
  <2> DEFINE v == [db.clustering EXCEPT !.status = "completed", !.incidents = q.incidents]
  <2>1. q.incidents \in Nat
    BY <1>3, StatementIs DEF ClusteringWriters, Statuses
  <2>2. v \in [status : Statuses, of : Runs \cup {0}, incidents : Nat]
    BY <1>1, <2>1 DEF ClusteringWriters, Statuses
  <2>3. db' = [db EXCEPT !.clustering = v]
    BY <1>3 DEF Write, completeClusteringRun, ClusteringWriters, Statuses
  <2>4. OnlyChanged("clustering") /\ db'.clustering = v
    <3> HIDE DEF v
    <3>1. QED BY <2>2, <2>3, OneField
  <2>5. QED BY <1>3, <1>1, <2>1, <2>4 DEF ClusteringWriters, Statuses
<1>4. QED
  BY <1>2, <1>3 DEF ClusteringWriters, Statuses

LEMMA SizesWritten ==
    ASSUME NEW q \in Statement, q.op \in IncidentWriters, Cardinality(Rows) \in Nat, db \in Database, db' = Write(q)
    PROVE  /\ OnlyChanged("sizes")
           /\ \A x \in Clusters \ {q.incident} : db'.sizes[x] = db.sizes[x]
           /\ q.op = "insertIncidentClusters" => db'.sizes[q.incident] > 0
           /\ q.op = "delete incident" => db'.sizes[q.incident] = 0
<1>1. db.sizes \in [Clusters -> 0..Cardinality(Rows)]
  BY DEF Database
<1>2. CASE q.op = "insertIncidentClusters"
  <2> DEFINE v == [db.sizes EXCEPT ![q.incident] = q.size]
  <2>1. q.incident \in Clusters /\ q.size \in 1..Cardinality(Rows)
    BY <1>2, StatementIs DEF IncidentWriters
  <2>6. q.size \in 0..Cardinality(Rows)
    BY <2>1
  <2>2. v \in [Clusters -> 0..Cardinality(Rows)]
    BY <1>1, <2>1, <2>6
  <2>3. db' = [db EXCEPT !.sizes = v]
    BY <1>2 DEF Write, insertIncidentClusters, IncidentWriters
  <2>4. OnlyChanged("sizes") /\ db'.sizes = v
    <3> HIDE DEF v
    <3>1. QED BY <2>2, <2>3, OneField
  <2>5. QED BY <1>2, <1>1, <2>1, <2>4 DEF IncidentWriters
<1>3. CASE q.op = "delete incident"
  <2> DEFINE v == [db.sizes EXCEPT ![q.incident] = 0]
  <2>1. q.incident \in Clusters
    BY <1>3, StatementIs DEF IncidentWriters
  <2>6. 0 \in 0..Cardinality(Rows)
    OBVIOUS
  <2>2. v \in [Clusters -> 0..Cardinality(Rows)]
    BY <1>1, <2>1, <2>6
  <2>3. db' = [db EXCEPT !.sizes = v]
    BY <1>3 DEF Write, Console, IncidentWriters
  <2>4. OnlyChanged("sizes") /\ db'.sizes = v
    <3> HIDE DEF v
    <3>1. QED BY <2>2, <2>3, OneField
  <2>5. QED BY <1>3, <1>1, <2>1, <2>4 DEF IncidentWriters
<1>4. QED
  BY <1>2, <1>3 DEF IncidentWriters

LEMMA MemberWritten ==
    ASSUME NEW q \in Statement, q.op \in MemberWriters, db \in Database, db' = Write(q)
    PROVE  /\ OnlyChanged("member")
           /\ \A r \in Rows \ {q.row} : db'.member[r] = db.member[r]
           /\ q.op = "insertIncidentMemberships" => db'.member[q.row] = q.incident
           /\ q.op = "delete membership" => db'.member[q.row] = Nothing
<1>1. db.member \in [Rows -> Clusters \cup {Nothing}]
  BY DEF Database
<1>2. CASE q.op = "insertIncidentMemberships"
  <2> DEFINE v == [db.member EXCEPT ![q.row] = q.incident]
  <2>1. q.incident \in Clusters /\ q.row \in Rows
    BY <1>2, StatementIs DEF MemberWriters
  <2>2. v \in [Rows -> Clusters \cup {Nothing}]
    BY <1>1, <2>1 DEF MemberWriters
  <2>3. db' = [db EXCEPT !.member = v]
    BY <1>2 DEF Write, insertIncidentMemberships, MemberWriters
  <2>4. OnlyChanged("member") /\ db'.member = v
    <3> HIDE DEF v
    <3>1. QED BY <2>2, <2>3, OneField
  <2>5. QED BY <1>2, <1>1, <2>1, <2>4 DEF MemberWriters
<1>3. CASE q.op = "delete membership"
  <2> DEFINE v == [db.member EXCEPT ![q.row] = Nothing]
  <2>1. q.row \in Rows
    BY <1>3, StatementIs DEF MemberWriters
  <2>2. v \in [Rows -> Clusters \cup {Nothing}]
    BY <1>1, <2>1 DEF MemberWriters
  <2>3. db' = [db EXCEPT !.member = v]
    BY <1>3 DEF Write, Console, MemberWriters
  <2>4. OnlyChanged("member") /\ db'.member = v
    <3> HIDE DEF v
    <3>1. QED BY <2>2, <2>3, OneField
  <2>5. QED BY <1>3, <1>1, <2>1, <2>4 DEF MemberWriters
<1>4. QED
  BY <1>2, <1>3 DEF MemberWriters

LEMMA ClaimWritten ==
    ASSUME NEW q \in Statement, q.op = "insertIncidentClaim", db \in Database, db' = Write(q)
    PROVE  /\ OnlyChanged("claims")
           /\ db'.claims = db.claims \cup {<<q.incident, q.row>>}
<1>1. db.claims \in SUBSET (Clusters \X Rows)
  BY DEF Database
<1>2. CASE q.op = "insertIncidentClaim"
  <2> DEFINE v == db.claims \cup {<<q.incident, q.row>>}
  <2>1. q.incident \in Clusters /\ q.row \in Rows
    BY <1>2, StatementIs
  <2>2. v \in SUBSET (Clusters \X Rows)
    BY <1>1, <2>1
  <2>3. db' = [db EXCEPT !.claims = v]
    BY <1>2 DEF Write, insertIncidentClaim
  <2>4. OnlyChanged("claims") /\ db'.claims = v
    <3> HIDE DEF v
    <3>1. QED BY <2>2, <2>3, OneField
  <2>5. QED BY <1>2, <1>1, <2>1, <2>4
<1>3. QED
  BY <1>2

LEMMA EvidenceWritten ==
    ASSUME NEW q \in Statement, q.op \in EvidenceWriters, db \in Database, db' = Write(q)
    PROVE  /\ OnlyChanged("evidence")
           /\ q.op = "insertRunningEvidenceRun" => db'.evidence.status = "running"
           /\ q.op = "completeEvidenceRun" => db'.evidence.status = "completed"
<1>1. db.evidence \in [status : Statuses, corroborated : Nat]
  BY DEF Database
<1>2. CASE q.op = "insertRunningEvidenceRun"
  <2> DEFINE v == [status |-> "running", corroborated |-> 0]
  <2>2. v \in [status : Statuses, corroborated : Nat]
    BY <1>1 DEF EvidenceWriters, Statuses
  <2>3. db' = [db EXCEPT !.evidence = v]
    BY <1>2 DEF Write, insertRunningEvidenceRun, EvidenceWriters, Statuses
  <2>4. OnlyChanged("evidence") /\ db'.evidence = v
    <3> HIDE DEF v
    <3>1. QED BY <2>2, <2>3, OneField
  <2>5. QED BY <1>2, <1>1, <2>4 DEF EvidenceWriters, Statuses
<1>3. CASE q.op = "completeEvidenceRun"
  <2> DEFINE v == [status |-> "completed", corroborated |-> q.corroborated]
  <2>1. q.corroborated \in Nat
    BY <1>3, StatementIs DEF EvidenceWriters, Statuses
  <2>2. v \in [status : Statuses, corroborated : Nat]
    BY <1>1, <2>1 DEF EvidenceWriters, Statuses
  <2>3. db' = [db EXCEPT !.evidence = v]
    BY <1>3 DEF Write, completeEvidenceRun, EvidenceWriters, Statuses
  <2>4. OnlyChanged("evidence") /\ db'.evidence = v
    <3> HIDE DEF v
    <3>1. QED BY <2>2, <2>3, OneField
  <2>5. QED BY <1>3, <1>1, <2>1, <2>4 DEF EvidenceWriters, Statuses
<1>4. QED
  BY <1>2, <1>3 DEF EvidenceWriters, Statuses

LEMMA StatesWritten ==
    ASSUME NEW q \in Statement, q.op \in StateWriters, db \in Database, db' = Write(q)
    PROVE  /\ OnlyChanged("states")
           /\ \A x \in Clusters \ {q.incident} : db'.states[x] = db.states[x]
           /\ q.op = "insertEvidenceStates" => db'.states[q.incident] = [kind |-> q.kind, row |-> q.row]
           /\ q.op = "delete state" => db'.states[q.incident] = NoState
<1>1. db.states \in [Clusters -> State]
  BY DEF Database, State
<1>2. CASE q.op = "insertEvidenceStates"
  <2> DEFINE v == [db.states EXCEPT ![q.incident] = [kind |-> q.kind, row |-> q.row]]
  <2>1. q.incident \in Clusters /\ [kind |-> q.kind, row |-> q.row] \in State
    BY <1>2, StatementIs DEF StateWriters, State, NoState
  <2>2. v \in [Clusters -> State]
    BY <1>1, <2>1 DEF StateWriters, State, NoState
  <2>3. db' = [db EXCEPT !.states = v]
    BY <1>2 DEF Write, insertEvidenceStates, StateWriters, State, NoState
  <2>4. OnlyChanged("states") /\ db'.states = v
    <3> HIDE DEF v
    <3>1. QED BY <2>2, <2>3, OneField
  <2>5. QED BY <1>2, <1>1, <2>1, <2>4 DEF StateWriters, State, NoState
<1>3. CASE q.op = "delete state"
  <2> DEFINE v == [db.states EXCEPT ![q.incident] = NoState]
  <2>1. q.incident \in Clusters /\ NoState \in State
    BY <1>3, StatementIs DEF StateWriters, State, NoState
  <2>2. v \in [Clusters -> State]
    BY <1>1, <2>1 DEF StateWriters, State, NoState
  <2>3. db' = [db EXCEPT !.states = v]
    BY <1>3 DEF Write, Console, StateWriters, State, NoState
  <2>4. OnlyChanged("states") /\ db'.states = v
    <3> HIDE DEF v
    <3>1. QED BY <2>2, <2>3, OneField
  <2>5. QED BY <1>3, <1>1, <2>1, <2>4 DEF StateWriters, State, NoState
<1>4. QED
  BY <1>2, <1>3 DEF StateWriters, State, NoState

LEMMA WeekWritten ==
    ASSUME NEW q \in Statement, q.op = "completeWeekRun", db \in Database, db' = Write(q)
    PROVE  /\ OnlyChanged("week")
           /\ db'.week = "completed"
<1>1. db.week \in Statuses
  BY DEF Database
<1>2. CASE q.op = "completeWeekRun"
  <2> DEFINE v == "completed"
  <2>2. v \in Statuses
    BY <1>1 DEF Statuses
  <2>3. db' = [db EXCEPT !.week = v]
    BY <1>2 DEF Write, completeWeekRun, Statuses
  <2>4. OnlyChanged("week") /\ db'.week = v
    <3> HIDE DEF v
    <3>1. QED BY <2>2, <2>3, OneField
  <2>5. QED BY <1>2, <1>1, <2>4 DEF Statuses
<1>3. QED
  BY <1>2 DEF Statuses

LEMMA ChildWritten ==
    ASSUME NEW q \in Statement, q.op = "insertWeekRunChild", db \in Database, db' = Write(q)
    PROVE  /\ OnlyChanged("children")
           /\ db'.children = db.children \cup {q.child}
<1>1. db.children \in SUBSET {"classification", "clustering"}
  BY DEF Database
<1>2. CASE q.op = "insertWeekRunChild"
  <2> DEFINE v == db.children \cup {q.child}
  <2>1. q.child \in {"classification", "clustering"}
    BY <1>2, StatementIs
  <2>2. v \in SUBSET {"classification", "clustering"}
    BY <1>1, <2>1
  <2>3. db' = [db EXCEPT !.children = v]
    BY <1>2 DEF Write, insertWeekRunChild
  <2>4. OnlyChanged("children") /\ db'.children = v
    <3> HIDE DEF v
    <3>1. QED BY <2>2, <2>3, OneField
  <2>5. QED BY <1>2, <1>1, <2>1, <2>4
<1>3. QED
  BY <1>2

-----------------------------------------------------------------------------
(* What is derived from the fields that are left alone. *)

LEMMA Derived ==
    ASSUME NEW f, OnlyChanged(f)
    PROVE  /\ f # "results" =>
                  /\ \A c \in Runs : Stored(c)' = Stored(c)
                  /\ \A c \in Runs, d \in Decisions : Of(c, d)' = Of(c, d)
                  /\ \A c \in Runs : Output(c)' = Output(c)
           /\ f # "member" => Members' = Members
           /\ f # "sizes" => Present' = Present
           /\ f # "states" => Stated' = Stated
           /\ f \notin {"sizes", "member"} => StoredClustering' = StoredClustering
BY DEF OnlyChanged, Stored, Of, Output, Members, Present, Stated, StoredClustering

LEMMA KeepsRows ==
    ASSUME NEW q \in Statement, q.op \in RowWriters, Allowed(q), Sound, db' = Write(q)
    PROVE  Sound'
<1>1. db \in Database /\ OnlyChanged("rows")
  BY RowsWritten DEF Sound
<1>2. ~db.frozen
  BY DEF Allowed, SourceAllowed, RowWriters
<1>3. CompletedRunCovers'
  BY <1>1, <1>2 DEF Sound, CompletedRunCovers, OnlyChanged
<1>4. /\ \A c \in Runs, d \in Decisions : Of(c, d)' = Of(c, d)
      /\ Members' = Members /\ Present' = Present /\ Stated' = Stated
  BY <1>1, Derived
<1>5. ClusteringSound'
  BY <1>1, <1>4 DEF Sound, ClusteringSound, OnlyChanged, Decisions
<1>6. EvidenceStands'
  BY <1>1, <1>4 DEF Sound, EvidenceStands, OnlyChanged
<1>7. QED BY <1>1, <1>3, <1>5, <1>6 DEF Sound, OnlyChanged

LEMMA KeepsFreeze ==
    ASSUME NEW q \in Statement, q.op \in FreezeWriters, Allowed(q), Sound, db' = Write(q)
    PROVE  Sound'
<1>1. db \in Database /\ OnlyChanged("frozen")
  BY FreezeWritten DEF Sound
<1>2. db'.frozen \/ ~db.frozen
  BY FreezeWritten DEF Allowed, SourceAllowed, FreezeWriters, Sound
<1>4. /\ \A c \in Runs, d \in Decisions : Of(c, d)' = Of(c, d)
      /\ \A c \in Runs : Stored(c)' = Stored(c)
      /\ Members' = Members /\ Present' = Present /\ Stated' = Stated
  BY <1>1, Derived
<1>3. CompletedRunCovers'
  BY <1>1, <1>2, <1>4 DEF Sound, CompletedRunCovers, OnlyChanged, Decisions
<1>5. ClusteringSound'
  BY <1>1, <1>4 DEF Sound, ClusteringSound, OnlyChanged, Decisions
<1>6. EvidenceStands'
  BY <1>1, <1>4 DEF Sound, EvidenceStands, OnlyChanged
<1>7. QED BY <1>1, <1>3, <1>5, <1>6 DEF Sound, OnlyChanged

LEMMA KeepsRuns ==
    ASSUME NEW q \in Statement, q.op \in RunWriters, Allowed(q), Sound, db' = Write(q)
    PROVE  Sound'
<1>1. db \in Database /\ OnlyChanged("runs") /\ q.run \in Runs
  BY RunsWritten, StatementIs DEF Sound
<1>2. /\ db.runs[q.run].status # "completed"
      /\ \A c \in Runs \ {q.run} : db'.runs[c] = db.runs[c]
  BY RunsWritten DEF Allowed, RunAllowed, RunWriters, Sound
<1>4. /\ \A c \in Runs, d \in Decisions : Of(c, d)' = Of(c, d)
      /\ \A c \in Runs : Stored(c)' = Stored(c)
      /\ Members' = Members /\ Present' = Present /\ Stated' = Stated
  BY <1>1, Derived
<1>3. CompletedRunCovers'
  <2> SUFFICES ASSUME NEW c \in Runs, db'.runs[c].status = "completed"
               PROVE  /\ db'.frozen
                      /\ Stored(c)' = db'.rows
                      /\ db'.runs[c].included = Cardinality(Of(c, "include")')
    BY DEF CompletedRunCovers
  <2>1. CASE c = q.run
    <3>1. q.op = "completeClassificationRun"
      BY <1>1, <2>1, RunsWritten DEF RunWriters
    <3>2. Covers(q) /\ db'.runs[c].included = q.included
      BY <1>1, <2>1, <3>1, RunsWritten DEF Allowed, RunAllowed
    <3>3. QED BY <1>1, <1>4, <2>1, <3>2 DEF Covers, OnlyChanged, Decisions
  <2>2. CASE c # q.run
    BY <1>1, <1>2, <1>4, <2>2 DEF Sound, CompletedRunCovers, OnlyChanged, Decisions
  <2>3. QED BY <2>1, <2>2
<1>5. ClusteringSound'
  BY <1>1, <1>2, <1>4 DEF Sound, ClusteringSound, OnlyChanged, Decisions
<1>6. EvidenceStands'
  BY <1>1, <1>4 DEF Sound, EvidenceStands, OnlyChanged
<1>7. QED BY <1>1, <1>3, <1>5, <1>6 DEF Sound, OnlyChanged

\* A completed run's results are not those a statement writes.
LEMMA Untouched ==
    ASSUME NEW q \in Statement, q.op \in ResultWriters, Allowed(q), Sound, db' = Write(q),
           NEW c \in Runs, db.runs[c].status = "completed"
    PROVE  Output(c)' = Output(c) /\ Stored(c)' = Stored(c) /\ \A d \in Decisions : Of(c, d)' = Of(c, d)
<1>1. db \in Database /\ OnlyChanged("results") /\ db' \in Database
  BY ResultsWritten DEF Sound, OnlyChanged
<1>2. c \notin Touched(q)
  BY DEF Allowed, ResultAllowed
<1>3. \A r \in Rows : db'.results[c][r] = db.results[c][r]
  BY <1>1, <1>2, ResultsWritten
<1>4. /\ db.results \in [Runs -> [Rows -> Decisions \cup {Nothing}]]
      /\ db'.results \in [Runs -> [Rows -> Decisions \cup {Nothing}]]
  BY <1>1 DEF Database
<1>5. db'.results[c] = db.results[c]
  BY <1>3, <1>4
<1>6. QED BY <1>5 DEF Output, Stored, Of

LEMMA KeepsResults ==
    ASSUME NEW q \in Statement, q.op \in ResultWriters, Allowed(q), Sound, db' = Write(q)
    PROVE  Sound'
<1>1. db \in Database /\ OnlyChanged("results")
  BY ResultsWritten DEF Sound
<1>4. /\ \A c \in Runs : db.runs[c].status = "completed" =>
             Stored(c)' = Stored(c) /\ \A d \in Decisions : Of(c, d)' = Of(c, d)
      /\ Members' = Members /\ Present' = Present /\ Stated' = Stated
  BY <1>1, Derived, Untouched
<1>3. CompletedRunCovers'
  BY <1>1, <1>4 DEF Sound, CompletedRunCovers, OnlyChanged, Decisions
<1>5. ClusteringSound'
  BY <1>1, <1>4 DEF Sound, ClusteringSound, OnlyChanged, Decisions
<1>6. EvidenceStands'
  BY <1>1, <1>4 DEF Sound, EvidenceStands, OnlyChanged
<1>7. QED BY <1>1, <1>3, <1>5, <1>6 DEF Sound, OnlyChanged

LEMMA KeepsClustering ==
    ASSUME NEW q \in Statement, q.op \in ClusteringWriters, Allowed(q), Sound, db' = Write(q)
    PROVE  Sound'
<1>1. /\ db \in Database /\ OnlyChanged("clustering")
      /\ q.op = "insertRunningClusteringRun" => q.run \in Runs
  BY ClusteringWritten, StatementIs DEF Sound
<1>4. /\ \A c \in Runs, d \in Decisions : Of(c, d)' = Of(c, d)
      /\ \A c \in Runs : Stored(c)' = Stored(c)
      /\ Members' = Members /\ Present' = Present /\ Stated' = Stated
  BY <1>1, Derived
<1>3. CompletedRunCovers'
  BY <1>1, <1>4 DEF Sound, CompletedRunCovers, OnlyChanged, Decisions
<1>5. ClusteringSound' /\ EvidenceStands'
  <2>1. CASE q.op = "insertRunningClusteringRun"
    <3>1. db.clustering.status = "absent" /\ db.runs[q.run].status = "completed"
      BY <2>1 DEF Allowed, ClusteringAllowed
    <3>2. db'.clustering.status = "running" /\ db'.clustering.of = q.run
      BY <1>1, <2>1, ClusteringWritten
    <3>3. QED BY <1>1, <1>4, <2>1, <3>1, <3>2 DEF Sound, ClusteringSound, EvidenceStands, OnlyChanged
  <2>2. CASE q.op = "completeClusteringRun"
    <3>1. /\ db.clustering.status = "running"
          /\ Members = Of(db.clustering.of, "include")
          /\ q.incidents = Cardinality(Present)
      BY <2>2 DEF Allowed, ClusteringAllowed
    <3>2. /\ db'.clustering.status = "completed" /\ db'.clustering.of = db.clustering.of
          /\ db'.clustering.incidents = q.incidents
      BY <1>1, <2>2, ClusteringWritten
    <3>3. ClusteringSound'
      BY <1>1, <1>4, <3>1, <3>2 DEF Sound, ClusteringSound, OnlyChanged, Decisions
    <3>4. EvidenceStands'
      BY <1>1, <1>4, <3>1, <3>2 DEF Sound, EvidenceStands, OnlyChanged
    <3>5. QED BY <3>3, <3>4
  <2>3. QED BY <2>1, <2>2 DEF ClusteringWriters
<1>7. QED BY <1>1, <1>3, <1>5 DEF Sound, OnlyChanged

LEMMA KeepsSizes ==
    ASSUME NEW q \in Statement, q.op \in IncidentWriters, Allowed(q), Sound, db' = Write(q),
           Cardinality(Rows) \in Nat, Nothing \notin Clusters
    PROVE  Sound'
<1>1. db \in Database /\ OnlyChanged("sizes") /\ q.incident \in Clusters
  BY SizesWritten, StatementIs DEF Sound
<1>2. /\ \A x \in Clusters \ {q.incident} : db'.sizes[x] = db.sizes[x]
      /\ q.op = "insertIncidentClusters" => db'.sizes[q.incident] > 0
      /\ db.clustering.status = "running"
  BY <1>1, SizesWritten DEF Allowed, MemberAllowed
<1>4. /\ \A c \in Runs, d \in Decisions : Of(c, d)' = Of(c, d)
      /\ \A c \in Runs : Stored(c)' = Stored(c)
      /\ Members' = Members /\ Stated' = Stated
  BY <1>1, Derived
<1>3. CompletedRunCovers'
  BY <1>1, <1>4 DEF Sound, CompletedRunCovers, OnlyChanged, Decisions
<1>5. \A r \in Rows : db.member[r] # Nothing => db.member[r] \in Present'
  <2> SUFFICES ASSUME NEW r \in Rows, db.member[r] # Nothing
               PROVE  db.member[r] \in Present'
    OBVIOUS
  <2>1. db.member[r] \in Present
    BY DEF Sound, ClusteringSound
  <2>2. CASE q.op = "insertIncidentClusters"
    BY <1>1, <1>2, <2>1, <2>2 DEF Present
  <2>3. CASE q.op = "delete incident"
    BY <1>1, <1>2, <2>1, <2>3 DEF Present, Allowed, MemberAllowed
  <2>4. QED BY <2>2, <2>3 DEF IncidentWriters
<1>6. ClusteringSound'
  BY <1>1, <1>2, <1>4, <1>5 DEF Sound, ClusteringSound, OnlyChanged, Decisions
<1>7. EvidenceStands'
  BY <1>1, <1>2, <1>4 DEF Sound, EvidenceStands, OnlyChanged
<1>8. QED BY <1>1, <1>3, <1>6, <1>7 DEF Sound, OnlyChanged

LEMMA KeepsMember ==
    ASSUME NEW q \in Statement, q.op \in MemberWriters, Allowed(q), Sound, db' = Write(q),
           Nothing \notin Clusters
    PROVE  Sound'
<1>1. db \in Database /\ OnlyChanged("member") /\ q.row \in Rows
  BY MemberWritten, StatementIs DEF Sound, MemberWriters
<1>2. /\ \A r \in Rows \ {q.row} : db'.member[r] = db.member[r]
      /\ db.clustering.status = "running"
  BY <1>1, MemberWritten DEF Allowed, MemberAllowed
<1>4. /\ \A c \in Runs, d \in Decisions : Of(c, d)' = Of(c, d)
      /\ \A c \in Runs : Stored(c)' = Stored(c)
      /\ Present' = Present /\ Stated' = Stated
  BY <1>1, Derived
<1>3. CompletedRunCovers'
  BY <1>1, <1>4 DEF Sound, CompletedRunCovers, OnlyChanged, Decisions
<1>5. \A x \in Clusters, r \in Rows : <<x, r>> \in db.claims => r # q.row
  <2>1. CASE q.op = "insertIncidentMemberships"
    BY <2>1 DEF Allowed, MemberAllowed, Sound, ClusteringSound
  <2>2. CASE q.op = "delete membership"
    BY <2>2 DEF Allowed, MemberAllowed, Sound, ClusteringSound
  <2>3. QED BY <2>1, <2>2 DEF MemberWriters
<1>6. db'.member[q.row] # Nothing => db'.member[q.row] \in Present
  <2>1. CASE q.op = "insertIncidentMemberships"
    <3>1. db'.member[q.row] = q.incident /\ q.incident \in Clusters /\ db.sizes[q.incident] > 0
      BY <1>1, <2>1, MemberWritten, StatementIs DEF Allowed, MemberAllowed
    <3>2. QED BY <3>1 DEF Present
  <2>2. CASE q.op = "delete membership"
    BY <1>1, <2>2, MemberWritten
  <2>3. QED BY <2>1, <2>2 DEF MemberWriters
<1>7. ClusteringSound'
  BY <1>1, <1>2, <1>4, <1>5, <1>6 DEF Sound, ClusteringSound, OnlyChanged, Decisions
<1>8. EvidenceStands'
  BY <1>1, <1>4 DEF Sound, EvidenceStands, OnlyChanged
<1>9. QED BY <1>1, <1>3, <1>7, <1>8 DEF Sound, OnlyChanged

LEMMA KeepsClaims ==
    ASSUME NEW q \in Statement, q.op = "insertIncidentClaim", Allowed(q), Sound, db' = Write(q)
    PROVE  Sound'
<1>1. /\ db \in Database /\ OnlyChanged("claims")
      /\ q.row \in Rows /\ q.incident \in Clusters
      /\ db'.claims = db.claims \cup {<<q.incident, q.row>>}
  BY ClaimWritten, StatementIs DEF Sound
<1>2. db.member[q.row] = q.incident
  BY DEF Allowed, MemberAllowed
<1>4. /\ \A c \in Runs, d \in Decisions : Of(c, d)' = Of(c, d)
      /\ \A c \in Runs : Stored(c)' = Stored(c)
      /\ Members' = Members /\ Present' = Present /\ Stated' = Stated
  BY <1>1, Derived
<1>3. CompletedRunCovers'
  BY <1>1, <1>4 DEF Sound, CompletedRunCovers, OnlyChanged, Decisions
<1>5. \A x \in Clusters, r \in Rows : <<x, r>> \in db'.claims => db.member[r] = x
  BY <1>1, <1>2 DEF Sound, ClusteringSound
<1>6. ClusteringSound'
  BY <1>1, <1>4, <1>5 DEF Sound, ClusteringSound, OnlyChanged, Decisions
<1>7. EvidenceStands'
  BY <1>1, <1>4 DEF Sound, EvidenceStands, OnlyChanged
<1>8. QED BY <1>1, <1>3, <1>6, <1>7 DEF Sound, OnlyChanged

LEMMA KeepsEvidence ==
    ASSUME NEW q \in Statement, q.op \in EvidenceWriters, Allowed(q), Sound, db' = Write(q),
           IsFiniteSet(Clusters)
    PROVE  Sound'
<1>1. db \in Database /\ OnlyChanged("evidence")
  BY EvidenceWritten DEF Sound
<1>4. /\ \A c \in Runs, d \in Decisions : Of(c, d)' = Of(c, d)
      /\ \A c \in Runs : Stored(c)' = Stored(c)
      /\ Members' = Members /\ Present' = Present /\ Stated' = Stated
  BY <1>1, Derived
<1>3. CompletedRunCovers'
  BY <1>1, <1>4 DEF Sound, CompletedRunCovers, OnlyChanged, Decisions
<1>5. ClusteringSound'
  BY <1>1, <1>4 DEF Sound, ClusteringSound, OnlyChanged, Decisions
<1>6. EvidenceStands'
  <2>1. CASE q.op = "insertRunningEvidenceRun"
    <3>1. db.evidence.status = "absent" /\ db.clustering.status = "completed"
      BY <2>1 DEF Allowed, EvidenceAllowed
    <3>2. db'.evidence.status = "running"
      BY <1>1, <2>1, EvidenceWritten
    <3>3. QED BY <1>1, <1>4, <3>1, <3>2 DEF Sound, EvidenceStands, OnlyChanged
  <2>2. CASE q.op = "completeEvidenceRun"
    <3>1. db.evidence.status = "running" /\ Cardinality(Stated) = Cardinality(Present)
      BY <2>2 DEF Allowed, EvidenceAllowed
    <3>2. db'.evidence.status = "completed"
      BY <1>1, <2>2, EvidenceWritten
    <3>3. Stated \subseteq Present /\ Present \subseteq Clusters
      BY DEF Sound, EvidenceStands, Present
    <3>4. IsFiniteSet(Present)
      BY <3>3, FS_Subset
    <3>5. Stated = Present
      BY <3>1, <3>3, <3>4, FS_Subset
    <3>6. QED BY <1>1, <1>4, <3>1, <3>2, <3>5 DEF Sound, EvidenceStands, OnlyChanged
  <2>3. QED BY <2>1, <2>2 DEF EvidenceWriters
<1>7. QED BY <1>1, <1>3, <1>5, <1>6 DEF Sound, OnlyChanged

LEMMA KeepsStates ==
    ASSUME NEW q \in Statement, q.op \in StateWriters, Allowed(q), Sound, db' = Write(q)
    PROVE  Sound'
<1>1. db \in Database /\ OnlyChanged("states") /\ q.incident \in Clusters
  BY StatesWritten, StatementIs DEF Sound
<1>2. /\ \A x \in Clusters \ {q.incident} : db'.states[x] = db.states[x]
      /\ db.evidence.status = "running"
  BY <1>1, StatesWritten DEF Allowed, EvidenceAllowed
<1>4. /\ \A c \in Runs, d \in Decisions : Of(c, d)' = Of(c, d)
      /\ \A c \in Runs : Stored(c)' = Stored(c)
      /\ Members' = Members /\ Present' = Present
  BY <1>1, Derived
<1>3. CompletedRunCovers'
  BY <1>1, <1>4 DEF Sound, CompletedRunCovers, OnlyChanged, Decisions
<1>5. ClusteringSound'
  BY <1>1, <1>4 DEF Sound, ClusteringSound, OnlyChanged, Decisions
<1>6. /\ db'.states[q.incident].kind = "corroborated" => <<q.incident, db'.states[q.incident].row>> \in db.claims
      /\ db'.states[q.incident] # NoState => q.incident \in Present
  <2>1. CASE q.op = "insertEvidenceStates"
    <3>1. db'.states[q.incident] = [kind |-> q.kind, row |-> q.row]
      BY <1>1, <2>1, StatesWritten
    <3>2. db.sizes[q.incident] > 0 /\ (q.kind = "corroborated" => <<q.incident, q.row>> \in db.claims)
      BY <2>1 DEF Allowed, EvidenceAllowed
    <3>3. QED BY <1>1, <3>1, <3>2 DEF Present
  <2>2. CASE q.op = "delete state"
    <3>1. db'.states[q.incident] = NoState
      BY <1>1, <2>2, StatesWritten
    <3>2. NoState.kind # "corroborated"
      BY DEF NoState, Nothing
    <3>3. QED BY <3>1, <3>2
  <2>3. QED BY <2>1, <2>2 DEF StateWriters
<1>7. Stated' \subseteq Present
  BY <1>1, <1>2, <1>6 DEF Sound, EvidenceStands, Stated
<1>8. \A x \in Clusters : db'.states[x].kind = "corroborated" => <<x, db'.states[x].row>> \in db.claims
  BY <1>1, <1>2, <1>6 DEF Sound, EvidenceStands
<1>9. EvidenceStands'
  BY <1>1, <1>2, <1>4, <1>7, <1>8 DEF Sound, EvidenceStands, OnlyChanged
<1>10. QED BY <1>1, <1>3, <1>5, <1>9 DEF Sound, OnlyChanged

LEMMA KeepsWeek ==
    ASSUME NEW q \in Statement, q.op \in {"completeWeekRun", "insertWeekRunChild"}, Sound, db' = Write(q)
    PROVE  Sound'
<1>1. db \in Database /\ (OnlyChanged("week") \/ OnlyChanged("children"))
  BY WeekWritten, ChildWritten DEF Sound
<1>4. /\ \A c \in Runs, d \in Decisions : Of(c, d)' = Of(c, d)
      /\ \A c \in Runs : Stored(c)' = Stored(c)
      /\ Members' = Members /\ Present' = Present /\ Stated' = Stated
  BY <1>1, Derived
<1>3. CompletedRunCovers'
  BY <1>1, <1>4 DEF Sound, CompletedRunCovers, OnlyChanged, Decisions
<1>5. ClusteringSound'
  BY <1>1, <1>4 DEF Sound, ClusteringSound, OnlyChanged, Decisions
<1>6. EvidenceStands'
  BY <1>1, <1>4 DEF Sound, EvidenceStands, OnlyChanged
<1>7. QED BY <1>1, <1>3, <1>5, <1>6 DEF Sound, OnlyChanged

\* Each statement keeps what is stored sound.
LEMMA KeepsSound ==
    ASSUME GuardsParameters, NEW q \in Statement, Allowed(q), Sound, db' = Write(q)
    PROVE  Sound'
<1>1. Cardinality(Rows) \in Nat /\ IsFiniteSet(Clusters) /\ Nothing \notin Clusters
  BY FS_CardinalityType DEF GuardsParameters
<1>2. QED
  BY <1>1, StatementIs, KeepsRows, KeepsFreeze, KeepsRuns, KeepsResults, KeepsClustering, KeepsSizes,
     KeepsMember, KeepsClaims, KeepsEvidence, KeepsStates, KeepsWeek

-----------------------------------------------------------------------------
(* What another statement was permitted on is still so. *)

LEMMA Unaffected ==
    ASSUME NEW f, OnlyChanged(f), NEW r \in Statement, Allowed(r), Sound
    PROVE  /\ f \notin {"rows", "frozen", "results"} => SourceAllowed(r)'
           /\ f \notin {"rows", "frozen", "runs", "results"} => RunAllowed(r)'
           /\ f \notin {"rows", "runs", "results"} => ResultAllowed(r)'
           /\ f \notin {"runs", "results", "clustering", "sizes", "member"} => ClusteringAllowed(r)'
           /\ f \notin {"clustering", "sizes", "member", "claims"} => MemberAllowed(r)'
           /\ f \notin {"clustering", "sizes", "claims", "evidence", "states"} => EvidenceAllowed(r)'
           /\ f # "week" => WeekAllowed(r)'
<1>1. f \notin {"rows", "frozen", "results"} => SourceAllowed(r)'
  BY DEF OnlyChanged, Allowed, SourceAllowed
<1>2. f \notin {"rows", "frozen", "runs", "results"} => RunAllowed(r)'
  BY DEF OnlyChanged, Allowed, RunAllowed, Covers, Stored, Of
<1>3. f \notin {"rows", "runs", "results"} => ResultAllowed(r)'
  <2> SUFFICES ASSUME f \notin {"rows", "runs", "results"}
               PROVE  ResultAllowed(r)'
    OBVIOUS
  <2>1. db'.rows = db.rows /\ db'.runs = db.runs /\ db'.results = db.results
    BY DEF OnlyChanged
  <2>2. ResultAllowed(r)
    BY DEF Allowed
  <2>3. QED BY <2>1, <2>2 DEF ResultAllowed
<1>4. f \notin {"runs", "results", "clustering", "sizes", "member"} => ClusteringAllowed(r)'
  BY DEF OnlyChanged, Allowed, ClusteringAllowed, Members, Of, Present
<1>5. f \notin {"clustering", "sizes", "member", "claims"} => MemberAllowed(r)'
  BY DEF OnlyChanged, Allowed, MemberAllowed
<1>6. f \notin {"clustering", "sizes", "claims", "evidence", "states"} => EvidenceAllowed(r)'
  BY DEF OnlyChanged, Allowed, EvidenceAllowed, Stated, Present
<1>7. f # "week" => WeekAllowed(r)'
  BY DEF OnlyChanged, Allowed, WeekAllowed
<1>8. QED BY <1>1, <1>2, <1>3, <1>4, <1>5, <1>6, <1>7

LEMMA RowsApart ==
    ASSUME NEW q \in Statement, q.op \in RowWriters, Allowed(q), Sound, db' = Write(q),
           NEW r \in Statement, Allowed(r), ~Clash(q, r), ~Clash(r, q)
    PROVE  Allowed(r)'
<1>1. OnlyChanged("rows")
  BY RowsWritten DEF Sound
<1>2. r.op \notin RowWriters \cup FreezeWriters \cup {"completeClassificationRun"}
  BY DEF Clash
<1>3. SourceAllowed(r)'
  BY <1>2 DEF SourceAllowed, RowWriters, FreezeWriters
<1>4. RunAllowed(r)'
  BY <1>1, <1>2 DEF RunAllowed, Allowed, OnlyChanged, Stored
<1>5. ResultAllowed(r)'
  <2>1. r.op = "insertClassificationResults" => r.row \in db'.rows
    BY RowsWritten DEF Sound, Clash, RowWriters, Allowed, ResultAllowed
  <2>2. QED BY <1>1, <2>1 DEF ResultAllowed, Allowed, OnlyChanged
<1>6. QED BY <1>1, <1>3, <1>4, <1>5, Unaffected DEF Allowed

LEMMA FreezeApart ==
    ASSUME NEW q \in Statement, q.op \in FreezeWriters, Allowed(q), Sound, db' = Write(q),
           NEW r \in Statement, Allowed(r), ~Clash(q, r), ~Clash(r, q)
    PROVE  Allowed(r)'
<1>1. OnlyChanged("frozen")
  BY FreezeWritten DEF Sound
<1>2. r.op \notin RowWriters \cup FreezeWriters \cup {"completeClassificationRun"}
  BY DEF Clash
<1>3. SourceAllowed(r)'
  BY <1>2 DEF SourceAllowed, RowWriters, FreezeWriters
<1>4. RunAllowed(r)'
  BY <1>1, <1>2 DEF RunAllowed, Allowed, OnlyChanged, Stored
<1>5. QED BY <1>1, <1>3, <1>4, Unaffected DEF Allowed

LEMMA RunsApart ==
    ASSUME NEW q \in Statement, q.op \in RunWriters, Allowed(q), Sound, db' = Write(q),
           NEW r \in Statement, Allowed(r), ~Clash(q, r), ~Clash(r, q)
    PROVE  Allowed(r)'
<1>1. /\ OnlyChanged("runs")
      /\ \A c \in Runs \ {q.run} : db'.runs[c] = db.runs[c]
      /\ db.runs[q.run].status # "completed"
  BY RunsWritten DEF Sound, Allowed, RunAllowed, RunWriters
<1>2. r.op \in RunWriters => r.run \in Runs \ {q.run}
  BY StatementIs DEF Clash
<1>3. RunAllowed(r)'
  <2>1. RunAllowed(r) /\ db'.rows = db.rows /\ db'.frozen = db.frozen
    BY <1>1 DEF Allowed, OnlyChanged
  <2>2. r.op \in RunWriters =>
            /\ db'.runs[r.run] = db.runs[r.run]
            /\ Stored(r.run)' = Stored(r.run) /\ Of(r.run, "include")' = Of(r.run, "include")
    BY <1>1, <1>2, Derived DEF Decisions
  <2>3. QED BY <2>1, <2>2 DEF RunAllowed, Covers, RunWriters
<1>4. ResultAllowed(r)'
  <2>1. r.op \in ResultWriters => Touched(r) \subseteq Runs \ {q.run}
    BY StatementIs DEF Clash, Touched, ResultWriters
  <2>2. QED BY <1>1, <2>1 DEF ResultAllowed, Allowed, OnlyChanged, ResultWriters
<1>5. ClusteringAllowed(r)'
  <2>1. r.op = "insertRunningClusteringRun" => r.run \in Runs \ {q.run}
    BY <1>1, StatementIs DEF Allowed, ClusteringAllowed
  <2>2. /\ db'.clustering = db.clustering /\ Members' = Members /\ Present' = Present
        /\ Of(db.clustering.of, "include")' = Of(db.clustering.of, "include")
    BY <1>1 DEF OnlyChanged, Members, Of, Present
  <2>3. r.op = "insertRunningClusteringRun" => db'.runs[r.run] = db.runs[r.run]
    BY <1>1, <2>1
  <2>4. ClusteringAllowed(r)
    BY DEF Allowed
  <2>5. QED BY <2>2, <2>3, <2>4 DEF ClusteringAllowed
<1>6. QED BY <1>1, <1>3, <1>4, <1>5, Unaffected DEF Allowed

LEMMA ResultsApart ==
    ASSUME NEW q \in Statement, q.op \in ResultWriters, Allowed(q), Sound, db' = Write(q),
           NEW r \in Statement, Allowed(r), ~Clash(q, r), ~Clash(r, q)
    PROVE  Allowed(r)'
<1>1. /\ OnlyChanged("results") /\ q.run \in Runs
      /\ \A c \in Runs, t \in Rows :
             (c \notin Touched(q) \/ t # q.row) => db'.results[c][t] = db.results[c][t]
  BY ResultsWritten, StatementIs DEF Sound, ResultWriters
<1>2. \A c \in Touched(q) : db.runs[c].status = "running"
  BY DEF Allowed, ResultAllowed
<1>3. SourceAllowed(r)'
  <2>1. r.op = "delete source row" => r.row \in Rows /\ r.row # q.row
    <3>1. q.op = "insertClassificationResults" /\ r.op = "delete source row" => r.row # q.row
      BY DEF Clash, RowWriters
    <3>2. q.op \in {"delete result", "move result"} /\ r.op = "delete source row" => r.row # q.row
      BY <1>1 DEF Allowed, ResultAllowed, SourceAllowed
    <3>3. QED BY <3>1, <3>2, StatementIs DEF ResultWriters, RowWriters
  <2>2. QED BY <1>1, <2>1 DEF SourceAllowed, Allowed, OnlyChanged
<1>4. RunAllowed(r)'
  <2>1. r.op \in RunWriters => r.run \in Runs /\ r.run \notin Touched(q)
    BY StatementIs DEF Clash
  <2>2. r.op \in RunWriters => \A t \in Rows : db'.results[r.run][t] = db.results[r.run][t]
    BY <1>1, <2>1
  <2>3. r.op \in RunWriters => Stored(r.run)' = Stored(r.run) /\ Of(r.run, "include")' = Of(r.run, "include")
    BY <2>2 DEF Stored, Of
  <2>4. QED BY <1>1, <2>3 DEF RunAllowed, Allowed, OnlyChanged, Covers, RunWriters
<1>5. ResultAllowed(r)'
  <2>1. r.op \in ResultWriters => \A c \in Touched(r) : db'.results[c][r.row] = db.results[c][r.row]
    <3> SUFFICES ASSUME r.op \in ResultWriters, NEW c \in Touched(r)
                 PROVE  db'.results[c][r.row] = db.results[c][r.row]
      OBVIOUS
    <3>1. c \in Runs /\ r.row \in Rows
      BY StatementIs DEF Touched, ResultWriters
    <3>2. r.row = q.row => c \notin Touched(q)
      BY DEF Clash
    <3>3. QED BY <1>1, <3>1, <3>2
  <2>2. QED BY <1>1, <2>1 DEF ResultAllowed, Allowed, OnlyChanged, Touched, ResultWriters
<1>6. ClusteringAllowed(r)'
  <2>1. db.clustering.status = "running" =>
            Of(db.clustering.of, "include")' = Of(db.clustering.of, "include")
    <3> SUFFICES ASSUME db.clustering.status = "running"
                 PROVE  Of(db.clustering.of, "include")' = Of(db.clustering.of, "include")
      OBVIOUS
    <3>1. db.clustering.of \in Runs /\ db.clustering.of \notin Touched(q)
      BY <1>2 DEF Sound, ClusteringSound
    <3>2. \A t \in Rows : db'.results[db.clustering.of][t] = db.results[db.clustering.of][t]
      BY <1>1, <3>1
    <3>3. QED BY <1>1, <3>2 DEF Of, OnlyChanged
  <2>2. /\ db'.clustering = db.clustering /\ db'.runs = db.runs
        /\ Members' = Members /\ Present' = Present
    BY <1>1 DEF OnlyChanged, Members, Present
  <2>3. ClusteringAllowed(r)
    BY DEF Allowed
  <2>4. QED BY <2>1, <2>2, <2>3 DEF ClusteringAllowed
<1>7. QED BY <1>1, <1>3, <1>4, <1>5, <1>6, Unaffected DEF Allowed

LEMMA ClusteringApart ==
    ASSUME NEW q \in Statement, q.op \in ClusteringWriters, Allowed(q), Sound, db' = Write(q),
           NEW r \in Statement, Allowed(r), ~Clash(q, r), ~Clash(r, q)
    PROVE  Allowed(r)'
<1>1. OnlyChanged("clustering") /\ db.clustering.status # "completed"
  BY ClusteringWritten DEF Sound, Allowed, ClusteringAllowed, ClusteringWriters
<1>2. r.op \notin ClusteringWriters \cup IncidentWriters \cup MemberWriters
  BY DEF Clash
<1>3. ClusteringAllowed(r)'
  BY <1>2 DEF ClusteringAllowed, ClusteringWriters
<1>4. MemberAllowed(r)'
  BY <1>1, <1>2 DEF MemberAllowed, Allowed, OnlyChanged, IncidentWriters, MemberWriters
<1>5. EvidenceAllowed(r)'
  <2>1. EvidenceAllowed(r) /\ Present' = Present /\ Stated' = Stated
    BY <1>1, Derived DEF Allowed
  <2>2. r.op # "insertRunningEvidenceRun"
    BY <1>1, <2>1 DEF EvidenceAllowed
  <2>3. QED BY <1>1, <2>1, <2>2 DEF EvidenceAllowed, OnlyChanged
<1>6. QED BY <1>1, <1>3, <1>4, <1>5, Unaffected DEF Allowed

LEMMA SizesApart ==
    ASSUME NEW q \in Statement, q.op \in IncidentWriters, Allowed(q), Sound, db' = Write(q),
           Cardinality(Rows) \in Nat,
           NEW r \in Statement, Allowed(r), ~Clash(q, r), ~Clash(r, q)
    PROVE  Allowed(r)'
<1>1. /\ OnlyChanged("sizes")
      /\ \A x \in Clusters \ {q.incident} : db'.sizes[x] = db.sizes[x]
      /\ db.clustering.status = "running" /\ db.evidence.status = "absent"
  BY SizesWritten DEF Sound, Allowed, MemberAllowed, EvidenceStands
<1>2. ClusteringAllowed(r)'
  <2>1. r.op # "completeClusteringRun"
    BY DEF Clash, ClusteringWriters
  <2>2. QED BY <1>1, <2>1 DEF ClusteringAllowed, Allowed, OnlyChanged
<1>3. MemberAllowed(r)'
  <2>1. MemberAllowed(r) /\ db'.clustering = db.clustering /\ db'.member = db.member /\ db'.claims = db.claims
    BY <1>1 DEF Allowed, OnlyChanged
  <2>2. r.op \in {"insertIncidentClusters", "insertIncidentMemberships"} => r.incident \in Clusters \ {q.incident}
    BY StatementIs DEF Clash, IncidentWriters
  <2>3. QED BY <1>1, <2>1, <2>2 DEF MemberAllowed
<1>4. EvidenceAllowed(r)'
  <2>1. r.op \notin StateWriters \cup {"insertRunningEvidenceRun", "completeEvidenceRun"}
    BY <1>1 DEF Allowed, EvidenceAllowed
  <2>2. QED BY <2>1 DEF EvidenceAllowed, StateWriters
<1>5. QED BY <1>1, <1>2, <1>3, <1>4, Unaffected DEF Allowed

LEMMA MemberApart ==
    ASSUME NEW q \in Statement, q.op \in MemberWriters, Allowed(q), Sound, db' = Write(q),
           Nothing \notin Clusters,
           NEW r \in Statement, Allowed(r), ~Clash(q, r), ~Clash(r, q)
    PROVE  Allowed(r)'
<1>1. /\ OnlyChanged("member") /\ q.row \in Rows
      /\ \A t \in Rows \ {q.row} : db'.member[t] = db.member[t]
  BY MemberWritten, StatementIs DEF Sound, MemberWriters
<1>2. ClusteringAllowed(r)'
  <2>1. r.op # "completeClusteringRun"
    BY DEF Clash, ClusteringWriters
  <2>2. QED BY <1>1, <2>1 DEF ClusteringAllowed, Allowed, OnlyChanged
<1>3. MemberAllowed(r)'
  <2>1. /\ MemberAllowed(r) /\ db'.clustering = db.clustering
        /\ db'.sizes = db.sizes /\ db'.claims = db.claims
    BY <1>1 DEF Allowed, OnlyChanged
  <2>2. r.op \in MemberWriters \cup {"insertIncidentClaim"} => db'.member[r.row] = db.member[r.row]
    <3>1. r.op \in MemberWriters \cup {"insertIncidentClaim"} => r.row \in Rows \ {q.row}
      BY StatementIs DEF Clash, MemberWriters
    <3>2. QED BY <1>1, <3>1
  <2>3. r.op = "delete incident" => db'.member[q.row] # r.incident
    <3>1. CASE q.op = "insertIncidentMemberships"
      <4>1. db'.member[q.row] = q.incident
        BY <3>1, MemberWritten DEF Sound
      <4>2. r.op = "delete incident" => r.incident # q.incident
        BY <3>1 DEF Clash, IncidentWriters
      <4>3. QED BY <4>1, <4>2
    <3>2. CASE q.op = "delete membership"
      <4>1. db'.member[q.row] = Nothing
        BY <3>2, MemberWritten DEF Sound
      <4>2. r.op = "delete incident" => r.incident \in Clusters
        BY StatementIs DEF IncidentWriters
      <4>3. QED BY <4>1, <4>2
    <3>3. QED BY <3>1, <3>2 DEF MemberWriters
  <2>4. r.op = "delete incident" => \A t \in Rows : db'.member[t] # r.incident
    BY <1>1, <2>1, <2>3 DEF MemberAllowed
  <2>5. QED BY <2>1, <2>2, <2>4 DEF MemberAllowed, MemberWriters
<1>4. QED BY <1>1, <1>2, <1>3, Unaffected DEF Allowed

LEMMA ClaimsApart ==
    ASSUME NEW q \in Statement, q.op = "insertIncidentClaim", Allowed(q), Sound, db' = Write(q),
           NEW r \in Statement, Allowed(r), ~Clash(q, r), ~Clash(r, q)
    PROVE  Allowed(r)'
<1>1. OnlyChanged("claims") /\ db'.claims = db.claims \cup {<<q.incident, q.row>>}
  BY ClaimWritten DEF Sound
<1>2. MemberAllowed(r)'
  <2>1. /\ MemberAllowed(r) /\ db'.clustering = db.clustering
        /\ db'.sizes = db.sizes /\ db'.member = db.member
    BY <1>1 DEF Allowed, OnlyChanged
  <2>2. r.op = "delete membership" => r.row # q.row
    BY DEF Clash, MemberWriters
  <2>3. QED BY <1>1, <2>1, <2>2 DEF MemberAllowed
<1>3. EvidenceAllowed(r)'
  <2>1. EvidenceAllowed(r) /\ Present' = Present /\ Stated' = Stated
    BY <1>1, Derived DEF Allowed
  <2>2. /\ db'.evidence = db.evidence /\ db'.clustering = db.clustering /\ db'.sizes = db.sizes
    BY <1>1 DEF OnlyChanged
  <2>3. QED BY <1>1, <2>1, <2>2 DEF EvidenceAllowed
<1>4. QED BY <1>1, <1>2, <1>3, Unaffected DEF Allowed

LEMMA EvidenceApart ==
    ASSUME NEW q \in Statement, q.op \in EvidenceWriters, Sound, db' = Write(q),
           NEW r \in Statement, Allowed(r), ~Clash(q, r), ~Clash(r, q)
    PROVE  Allowed(r)'
<1>1. OnlyChanged("evidence")
  BY EvidenceWritten DEF Sound
<1>2. EvidenceAllowed(r)'
  BY DEF Clash, EvidenceAllowed, EvidenceWriters, StateWriters
<1>3. QED BY <1>1, <1>2, Unaffected DEF Allowed

LEMMA StatesApart ==
    ASSUME NEW q \in Statement, q.op \in StateWriters, Sound, db' = Write(q),
           NEW r \in Statement, Allowed(r), ~Clash(q, r), ~Clash(r, q)
    PROVE  Allowed(r)'
<1>1. OnlyChanged("states")
  BY StatesWritten DEF Sound
<1>2. EvidenceAllowed(r)'
  <2>1. r.op # "completeEvidenceRun"
    BY DEF Clash, EvidenceWriters
  <2>2. QED BY <1>1, <2>1 DEF EvidenceAllowed, Allowed, OnlyChanged
<1>3. QED BY <1>1, <1>2, Unaffected DEF Allowed

LEMMA WeekApart ==
    ASSUME NEW q \in Statement, q.op \in {"completeWeekRun", "insertWeekRunChild"}, Sound, db' = Write(q),
           NEW r \in Statement, Allowed(r), ~Clash(q, r), ~Clash(r, q)
    PROVE  Allowed(r)'
<1>1. CASE q.op = "completeWeekRun"
  <2>1. OnlyChanged("week") /\ WeekAllowed(r)'
    BY <1>1, WeekWritten DEF Sound, Clash, WeekAllowed
  <2>2. QED BY <2>1, Unaffected DEF Allowed
<1>2. CASE q.op = "insertWeekRunChild"
  <2>1. OnlyChanged("children")
    BY <1>2, ChildWritten DEF Sound
  <2>2. QED BY <2>1, Unaffected DEF Allowed
<1>3. QED BY <1>1, <1>2

\* Each statement leaves allowed what does not clash with it.
LEMMA StaysAllowed ==
    ASSUME GuardsParameters, NEW q \in Statement, Allowed(q), Sound, db' = Write(q),
           NEW r \in Statement, Allowed(r), ~Clash(q, r), ~Clash(r, q)
    PROVE  Allowed(r)'
<1>1. Cardinality(Rows) \in Nat /\ Nothing \notin Clusters
  BY FS_CardinalityType DEF GuardsParameters
<1>2. QED
  BY <1>1, StatementIs, RowsApart, FreezeApart, RunsApart, ResultsApart, ClusteringApart, SizesApart,
     MemberApart, ClaimsApart, EvidenceApart, StatesApart, WeekApart

-----------------------------------------------------------------------------
(* What is kept of the completed runs. *)

Noting(q) ==
    CASE q.op = "completeClassificationRun" -> [kept EXCEPT !.runs[q.run] = {Output(q.run)}]
      [] q.op = "completeClusteringRun" -> [kept EXCEPT !.clustering = {StoredClustering}]
      [] q.op = "completeEvidenceRun" -> [kept EXCEPT !.evidence = {db.states}]
      [] q.op = "completeWeekRun" -> [kept EXCEPT !.week = {db.children}]
      [] OTHER -> kept

LEMMA Noted ==
    ASSUME NEW q \in Statement, KeptTyped, kept' = Noting(q)
    PROVE  /\ KeptTyped'
           /\ q.op # "completeClassificationRun" => kept'.runs = kept.runs
           /\ q.op = "completeClassificationRun" =>
                  /\ kept'.runs[q.run] = {Output(q.run)}
                  /\ \A c \in Runs \ {q.run} : kept'.runs[c] = kept.runs[c]
           /\ kept'.clustering = IF q.op = "completeClusteringRun" THEN {StoredClustering} ELSE kept.clustering
           /\ kept'.evidence = IF q.op = "completeEvidenceRun" THEN {db.states} ELSE kept.evidence
           /\ kept'.week = IF q.op = "completeWeekRun" THEN {db.children} ELSE kept.week
<1>1. CASE q.op = "completeClassificationRun"
  <2> DEFINE v == [kept.runs EXCEPT ![q.run] = {Output(q.run)}]
  <2>1. kept' = [kept EXCEPT !.runs = v]
    BY <1>1 DEF Noting
  <2>2. q.run \in Runs /\ kept.runs = [c \in Runs |-> kept.runs[c]]
    BY <1>1, StatementIs DEF RunWriters, KeptTyped
  <2>3. /\ v = [c \in Runs |-> v[c]] /\ v[q.run] = {Output(q.run)}
        /\ \A c \in Runs \ {q.run} : v[c] = kept.runs[c]
    BY <2>2
  <2> HIDE DEF v
  <2>4. kept' = [runs |-> v, clustering |-> kept.clustering, evidence |-> kept.evidence, week |-> kept.week]
    BY <2>1 DEF KeptTyped
  <2>5. QED BY <1>1, <2>3, <2>4 DEF KeptTyped
<1>2. CASE q.op = "completeClusteringRun"
  <2> DEFINE v == {StoredClustering}
  <2>1. kept' = [kept EXCEPT !.clustering = v]
    BY <1>2 DEF Noting
  <2> HIDE DEF v
  <2>2. kept' = [runs |-> kept.runs, clustering |-> v, evidence |-> kept.evidence, week |-> kept.week]
    BY <2>1 DEF KeptTyped
  <2>3. QED BY <1>2, <2>2 DEF KeptTyped, v
<1>3. CASE q.op = "completeEvidenceRun"
  <2> DEFINE v == {db.states}
  <2>1. kept' = [kept EXCEPT !.evidence = v]
    BY <1>3 DEF Noting
  <2> HIDE DEF v
  <2>2. kept' = [runs |-> kept.runs, clustering |-> kept.clustering, evidence |-> v, week |-> kept.week]
    BY <2>1 DEF KeptTyped
  <2>3. QED BY <1>3, <2>2 DEF KeptTyped, v
<1>4. CASE q.op = "completeWeekRun"
  <2> DEFINE v == {db.children}
  <2>1. kept' = [kept EXCEPT !.week = v]
    BY <1>4 DEF Noting
  <2> HIDE DEF v
  <2>2. kept' = [runs |-> kept.runs, clustering |-> kept.clustering, evidence |-> kept.evidence, week |-> v]
    BY <2>1 DEF KeptTyped
  <2>3. QED BY <1>4, <2>2 DEF KeptTyped, v
<1>5. CASE q.op \notin {"completeClassificationRun", "completeClusteringRun", "completeEvidenceRun", "completeWeekRun"}
  BY <1>5 DEF Noting, KeptTyped
<1>6. QED BY <1>1, <1>2, <1>3, <1>4, <1>5

\* What is kept is written by its writers only.
LEMMA WrittenBy ==
    ASSUME GuardsParameters, NEW q \in Statement, db \in Database, db' = Write(q)
    PROVE  /\ q.op \notin RunWriters => db'.runs = db.runs
           /\ q.op \notin ResultWriters => \A c \in Runs : Output(c)' = Output(c)
           /\ q.op \notin ClusteringWriters => db'.clustering = db.clustering
           /\ q.op \notin IncidentWriters \cup MemberWriters => StoredClustering' = StoredClustering
           /\ q.op \notin EvidenceWriters => db'.evidence = db.evidence
           /\ q.op \notin StateWriters => db'.states = db.states
           /\ q.op # "completeWeekRun" => db'.week = db.week
           /\ q.op # "insertWeekRunChild" => db'.children = db.children
<1> DEFINE By(f, writers) == q.op \in writers /\ OnlyChanged(f)
<1>1. Cardinality(Rows) \in Nat
  BY FS_CardinalityType DEF GuardsParameters
<1>2. \/ By("rows", RowWriters) \/ By("frozen", FreezeWriters) \/ By("runs", RunWriters)
      \/ By("results", ResultWriters) \/ By("clustering", ClusteringWriters)
      \/ By("sizes", IncidentWriters) \/ By("member", MemberWriters) \/ By("claims", {"insertIncidentClaim"})
      \/ By("evidence", EvidenceWriters) \/ By("states", StateWriters)
      \/ By("week", {"completeWeekRun"}) \/ By("children", {"insertWeekRunChild"})
  <2>1. CASE q.op \in RowWriters \cup FreezeWriters \cup RunWriters \cup ResultWriters
    BY <2>1, RowsWritten, FreezeWritten, RunsWritten, ResultsWritten
  <2>2. CASE q.op \in ClusteringWriters \cup IncidentWriters \cup MemberWriters \cup {"insertIncidentClaim"}
    BY <1>1, <2>2, ClusteringWritten, SizesWritten, MemberWritten, ClaimWritten
  <2>3. CASE q.op \in EvidenceWriters \cup StateWriters \cup {"completeWeekRun", "insertWeekRunChild"}
    BY <2>3, EvidenceWritten, StatesWritten, WeekWritten, ChildWritten
  <2>4. QED BY <2>1, <2>2, <2>3, StatementIs
<1>3. QED BY <1>2, Derived DEF OnlyChanged

\* A statement writes nothing of what is kept.
LEMMA KeepsKept ==
    ASSUME GuardsParameters, NEW q \in Statement, Allowed(q), Sound, db' = Write(q), kept' = Noting(q),
           KeptTyped, KeptSound, CompletedKeepsOutput
    PROVE  KeptTyped' /\ KeptSound' /\ CompletedKeepsOutput'
<1> USE DEF Sound
<1>1. Cardinality(Rows) \in Nat
  BY FS_CardinalityType DEF GuardsParameters
<1>2. KeptTyped'
  BY Noted
<1>3. \A c \in Runs : /\ kept'.runs[c] # {} => db'.runs[c].status = "completed"
                      /\ kept'.runs[c] \subseteq {Output(c)'}
  <2> SUFFICES ASSUME NEW c \in Runs
               PROVE  /\ kept'.runs[c] # {} => db'.runs[c].status = "completed"
                      /\ kept'.runs[c] \subseteq {Output(c)'}
    OBVIOUS
  <2>1. kept.runs[c] # {} => db.runs[c].status = "completed"
    BY DEF KeptSound
  <2>2. kept.runs[c] \subseteq {Output(c)}
    BY DEF CompletedKeepsOutput
  <2>3. CASE q.op \in RunWriters
    <3>1. Output(c)' = Output(c)
      BY <2>3, WrittenBy DEF RunWriters, ResultWriters
    <3>2. CASE c = q.run
      <4>1. db.runs[c].status # "completed"
        BY <2>3, <3>2 DEF Allowed, RunAllowed, RunWriters
      <4>2. CASE q.op = "completeClassificationRun"
        BY <2>3, <3>1, <3>2, <4>2, RunsWritten, Noted
      <4>3. CASE q.op # "completeClassificationRun"
        BY <2>1, <3>1, <4>1, <4>3, Noted
      <4>4. QED BY <4>2, <4>3
    <3>3. CASE c # q.run
      <4>1. db'.runs[c] = db.runs[c] /\ kept'.runs[c] = kept.runs[c]
        BY <2>3, <3>3, RunsWritten, Noted
      <4>2. QED BY <2>1, <2>2, <3>1, <4>1
    <3>4. QED BY <3>2, <3>3
  <2>4. CASE q.op \in ResultWriters
    <3>1. OnlyChanged("results") /\ kept'.runs = kept.runs
      BY <2>4, ResultsWritten, Noted DEF ResultWriters
    <3>2. db.runs[c].status = "completed" => Output(c)' = Output(c)
      BY <2>4, Untouched
    <3>3. QED BY <2>1, <2>2, <3>1, <3>2 DEF OnlyChanged
  <2>5. CASE q.op \notin RunWriters \cup ResultWriters
    <3>1. kept'.runs = kept.runs
      BY <2>5, Noted DEF RunWriters
    <3>2. db'.runs = db.runs /\ Output(c)' = Output(c)
      BY <2>5, WrittenBy
    <3>3. QED BY <2>1, <2>2, <3>1, <3>2
  <2>6. QED BY <2>3, <2>4, <2>5
<1>4. /\ kept'.clustering # {} => db'.clustering.status = "completed"
      /\ kept'.clustering \subseteq {StoredClustering'}
  <2>1. /\ kept.clustering # {} => db.clustering.status = "completed"
        /\ kept.clustering \subseteq {StoredClustering}
    BY DEF KeptSound, CompletedKeepsOutput
  <2>2. CASE q.op \in ClusteringWriters
    <3>1. OnlyChanged("clustering") /\ StoredClustering' = StoredClustering
      BY <2>2, ClusteringWritten, Derived
    <3>2. db.clustering.status # "completed"
      BY <2>2 DEF Allowed, ClusteringAllowed, ClusteringWriters
    <3>3. CASE q.op = "completeClusteringRun"
      BY <2>2, <3>1, <3>3, ClusteringWritten, Noted
    <3>4. CASE q.op # "completeClusteringRun"
      BY <2>1, <3>2, <3>4, Noted
    <3>5. QED BY <3>3, <3>4
  <2>3. CASE q.op \in IncidentWriters \cup MemberWriters
    <3>1. db.clustering.status = "running"
      BY <2>3 DEF Allowed, MemberAllowed
    <3>2. QED BY <2>1, <2>3, <3>1, Noted DEF IncidentWriters, MemberWriters
  <2>4. CASE q.op \notin ClusteringWriters \cup IncidentWriters \cup MemberWriters
    <3>1. kept'.clustering = kept.clustering
      BY <2>4, Noted DEF ClusteringWriters
    <3>2. db'.clustering = db.clustering /\ StoredClustering' = StoredClustering
      BY <2>4, WrittenBy
    <3>3. QED BY <2>1, <3>1, <3>2
  <2>5. QED BY <2>2, <2>3, <2>4
<1>5. /\ kept'.evidence # {} => db'.evidence.status = "completed"
      /\ kept'.evidence \subseteq {db'.states}
  <2>1. /\ kept.evidence # {} => db.evidence.status = "completed"
        /\ kept.evidence \subseteq {db.states}
    BY DEF KeptSound, CompletedKeepsOutput
  <2>2. CASE q.op \in EvidenceWriters
    <3>1. OnlyChanged("evidence") /\ db'.states = db.states
      BY <2>2, EvidenceWritten DEF OnlyChanged
    <3>2. db.evidence.status # "completed"
      BY <2>2 DEF Allowed, EvidenceAllowed, EvidenceWriters
    <3>3. CASE q.op = "completeEvidenceRun"
      BY <2>2, <3>1, <3>3, EvidenceWritten, Noted
    <3>4. CASE q.op # "completeEvidenceRun"
      BY <2>1, <3>2, <3>4, Noted
    <3>5. QED BY <3>3, <3>4
  <2>3. CASE q.op \in StateWriters
    <3>1. db.evidence.status = "running"
      BY <2>3 DEF Allowed, EvidenceAllowed
    <3>2. QED BY <2>1, <2>3, <3>1, Noted DEF StateWriters
  <2>4. CASE q.op \notin EvidenceWriters \cup StateWriters
    <3>1. kept'.evidence = kept.evidence
      BY <2>4, Noted DEF EvidenceWriters
    <3>2. db'.evidence = db.evidence /\ db'.states = db.states
      BY <2>4, WrittenBy
    <3>3. QED BY <2>1, <3>1, <3>2
  <2>5. QED BY <2>2, <2>3, <2>4
<1>6. /\ kept'.week # {} => db'.week = "completed"
      /\ kept'.week \subseteq {db'.children}
  <2>1. /\ kept.week # {} => db.week = "completed"
        /\ kept.week \subseteq {db.children}
    BY DEF KeptSound, CompletedKeepsOutput
  <2>2. CASE q.op = "completeWeekRun"
    BY <2>2, WeekWritten, Noted DEF OnlyChanged
  <2>3. CASE q.op = "insertWeekRunChild"
    <3>1. db.week = "running" /\ kept'.week = kept.week
      BY <2>3, Noted DEF Allowed, WeekAllowed
    <3>2. QED BY <2>1, <3>1
  <2>4. CASE q.op \notin {"completeWeekRun", "insertWeekRunChild"}
    <3>1. kept'.week = kept.week
      BY <2>4, Noted
    <3>2. db'.week = db.week /\ db'.children = db.children
      BY <2>4, WrittenBy
    <3>3. QED BY <2>1, <3>1, <3>2
  <2>5. QED BY <2>2, <2>3, <2>4
<1>7. KeptSound'
  BY <1>3, <1>4, <1>5, <1>6 DEF KeptSound
<1>8. CompletedKeepsOutput'
  BY <1>3, <1>4, <1>5, <1>6 DEF CompletedKeepsOutput
<1>9. QED BY <1>2, <1>7, <1>8

-----------------------------------------------------------------------------
(* The invariant holds. *)

LEMMA NoneIsNoStatement == NoStatement \notin Statement
BY StatementIs DEF NoStatement, Nothing, RowWriters, FreezeWriters, RunWriters, ResultWriters,
   ClusteringWriters, IncidentWriters, MemberWriters, EvidenceWriters, StateWriters

LEMMA GuardsInit ==
    ASSUME GuardsParameters, Init, Sound
    PROVE  Inv
<1>1. TypeOK
  BY DEF Init, TypeOK, Sound
<1>2. KeptTyped /\ KeptSound /\ CompletedKeepsOutput
  BY DEF Init, KeptTyped, KeptSound, CompletedKeepsOutput
<1>3. Pending
  BY NoneIsNoStatement DEF Init, Pending
<1>4. QED BY <1>1, <1>2, <1>3 DEF Inv

\* What is stored and kept stays sound when nothing of it is written.
LEMMA SameStands ==
    ASSUME db' = db, kept' = kept
    PROVE  /\ Sound => Sound'
           /\ KeptTyped => KeptTyped'
           /\ KeptSound => KeptSound'
           /\ CompletedKeepsOutput => CompletedKeepsOutput'
           /\ \A r : Allowed(r)' <=> Allowed(r)
<1>1. CompletedRunCovers => CompletedRunCovers'
  BY DEF CompletedRunCovers, Stored, Of
<1>2. ClusteringSound => ClusteringSound'
  BY DEF ClusteringSound, Members, Of, Present
<1>3. EvidenceStands => EvidenceStands'
  BY DEF EvidenceStands, Stated, Present
<1>4. KeptTyped => KeptTyped'
  BY DEF KeptTyped
<1>5. KeptSound => KeptSound'
  BY DEF KeptSound
<1>6. CompletedKeepsOutput => CompletedKeepsOutput'
  BY DEF CompletedKeepsOutput, Output, StoredClustering
<1>7. \A r : Allowed(r)' <=> Allowed(r)
  BY DEF Allowed, SourceAllowed, RunAllowed, ResultAllowed, ClusteringAllowed, MemberAllowed,
         EvidenceAllowed, WeekAllowed, Covers, Stored, Of, Members, Present, Stated
<1>8. QED BY <1>1, <1>2, <1>3, <1>4, <1>5, <1>6, <1>7 DEF Sound

LEMMA BeginKeeps ==
    ASSUME GuardsParameters, Inv, NEW s \in Sessions, NEW q \in Statements[scenario], Begin(s, q)
    PROVE  Inv'
<1> USE DEF Inv
<1>1. q \in Statement /\ Permitted(q) /\ Granted(s, q) /\ db' = db /\ kept' = kept /\ scenario' = scenario
  BY DEF GuardsParameters, TypeOK, Begin
<1>2. /\ session' \in [Sessions -> Statements[scenario] \cup {NoStatement}]
      /\ session'[s] = q /\ \A t \in Sessions \ {s} : session'[t] = session[t]
  BY DEF TypeOK, Begin
<1>3. TypeOK'
  BY <1>1, <1>2 DEF TypeOK
<1>4. Sound' /\ KeptTyped' /\ KeptSound' /\ CompletedKeepsOutput'
  BY <1>1, SameStands
<1>5. \A r : Allowed(r)' <=> Allowed(r)
  BY <1>1, SameStands
<1>6. Allowed(q)
  BY <1>1, PermittedAllows
<1>7. \A t \in Sessions \ {s} : ~Clash(q, session[t]) /\ ~Clash(session[t], q)
  BY <1>1, GrantedApart
<1>8. Pending'
  BY <1>2, <1>5, <1>6, <1>7 DEF Pending
<1>9. QED BY <1>3, <1>4, <1>8

LEMMA CommitKeeps ==
    ASSUME GuardsParameters, Inv, NEW s \in Sessions, Commit(s)
    PROVE  Inv'
<1> USE DEF Inv
<1> DEFINE q == session[s]
<1>1. q \in Statement /\ Allowed(q) /\ db' = Write(q) /\ kept' = Noting(q) /\ scenario' = scenario
  BY DEF GuardsParameters, TypeOK, Commit, Noting, Pending
<1>2. /\ session' \in [Sessions -> Statements[scenario] \cup {NoStatement}]
      /\ session'[s] = NoStatement /\ \A t \in Sessions \ {s} : session'[t] = session[t]
  BY DEF TypeOK, Commit
<1>3. \A t \in Sessions \ {s} : \A r \in Statement : session[t] = r => ~Clash(q, r) /\ ~Clash(r, q)
  BY <1>1 DEF Pending
<1> HIDE DEF q
<1>4. Sound'
  BY <1>1, KeepsSound
<1>5. KeptTyped' /\ KeptSound' /\ CompletedKeepsOutput'
  BY <1>1, KeepsKept
<1>6. TypeOK'
  BY <1>1, <1>2, <1>4 DEF TypeOK, Sound
<1>7. Pending'
  <2>1. ASSUME NEW t \in Sessions, NEW r \in Statement, session'[t] = r
        PROVE  Allowed(r)'
    <3>1. t # s /\ session[t] = r
      BY <1>2, <2>1, NoneIsNoStatement
    <3>2. Allowed(r) /\ ~Clash(q, r) /\ ~Clash(r, q)
      BY <1>3, <3>1 DEF Pending
    <3>3. QED BY <1>1, <3>2, StaysAllowed
  <2>2. ASSUME NEW t \in Sessions, NEW u \in Sessions, NEW r \in Statement, NEW w \in Statement,
               t # u, session'[t] = r, session'[u] = w
        PROVE  ~Clash(r, w)
    BY <1>2, <2>2, NoneIsNoStatement DEF Pending
  <2>3. QED BY <2>1, <2>2 DEF Pending
<1>8. QED BY <1>4, <1>5, <1>6, <1>7

LEMMA GuardsNext ==
    ASSUME GuardsParameters, Inv, [Next]_guardVars
    PROVE  Inv'
<1> DEFINE Unsaid == /\ db' = db /\ kept' = kept /\ scenario' = scenario
                     /\ session' \in [Sessions -> Statements[scenario] \cup {NoStatement}]
                     /\ \A t \in Sessions : session'[t] \in {session[t], NoStatement}
<1>1. ASSUME Unsaid
      PROVE  Inv'
  <2>1. Sound' /\ KeptTyped' /\ KeptSound' /\ CompletedKeepsOutput'
    BY <1>1, SameStands DEF Inv
  <2>2. \A r : Allowed(r)' <=> Allowed(r)
    BY <1>1, SameStands
  <2>3. \A t \in Sessions : \A r \in Statement : session'[t] = r => session[t] = r
    BY <1>1, NoneIsNoStatement
  <2>4. Pending'
    BY <2>2, <2>3 DEF Inv, Pending
  <2>5. TypeOK'
    BY <1>1 DEF Inv, TypeOK
  <2>6. QED BY <2>1, <2>4, <2>5 DEF Inv
<1>2. CASE \E s \in Sessions : \E q \in Statements[scenario] : Begin(s, q)
  BY <1>2, BeginKeeps
<1>3. CASE \E s \in Sessions : Commit(s)
  BY <1>3, CommitKeeps
<1>4. CASE \E s \in Sessions : Rollback(s)
  <2>1. Unsaid
    BY <1>4 DEF Rollback, Inv, TypeOK
  <2>2. QED BY <1>1, <2>1
<1>5. CASE UNCHANGED guardVars
  <2>1. Unsaid
    BY <1>5 DEF guardVars, Inv, TypeOK
  <2>2. QED BY <1>1, <2>1
<1>6. QED BY <1>2, <1>3, <1>4, <1>5 DEF Next

LEMMA GuardsHold ==
    ASSUME GuardsParameters, Inv
    PROVE  TypeOK /\ CompletedRunCovers /\ ChainHolds /\ CompletedKeepsOutput
<1>1. ASSUME NEW x \in Corroborated
      PROVE  db.member[db.states[x].row] = x
  <2>1. x \in Clusters /\ <<x, db.states[x].row>> \in db.claims
    BY DEF Corroborated, Inv, Sound, EvidenceStands
  <2>2. db.states[x].row \in Rows
    BY <2>1 DEF Inv, Sound, Database
  <2>3. QED BY <2>1, <2>2 DEF Inv, Sound, ClusteringSound
<1>2. ChainHolds
  BY <1>1 DEF ChainHolds, Inv, Sound, ClusteringSound, EvidenceStands, Members
<1>3. QED BY <1>2 DEF Inv, Sound

\* What the triggers and the constraints of the schema keep, whichever statements
\* its sessions interleave: a completed classification run covers its batch, the
\* clustering and the evidence that stand on it hold, and nothing of a completed
\* run is written again (migrations 0003 to 0009 and 0014).
THEOREM GuardsKeep ==
    GuardsParameters /\ Sound /\ Spec => [](TypeOK /\ CompletedRunCovers /\ ChainHolds /\ CompletedKeepsOutput)
<1> SUFFICES ASSUME GuardsParameters
             PROVE  Sound /\ Spec => [](TypeOK /\ CompletedRunCovers /\ ChainHolds /\ CompletedKeepsOutput)
  OBVIOUS
<1>1. Sound /\ Init => Inv
  BY GuardsInit
<1>2. Inv /\ [Next]_guardVars => Inv'
  BY GuardsNext
<1>3. Inv => TypeOK /\ CompletedRunCovers /\ ChainHolds /\ CompletedKeepsOutput
  BY GuardsHold
<1>4. QED BY <1>1, <1>2, <1>3, PTL DEF Spec
=============================================================================
