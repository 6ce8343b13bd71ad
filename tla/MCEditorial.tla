---------------------------- MODULE MCEditorial ----------------------------
(***************************************************************************)
(* The article, the review of incidents, the evidence, the editors'        *)
(* appends, the guards of a week's runs and the drafts of its evidence,    *)
(* checked one beside the other: a behaviour picks one of them and takes   *)
(* its steps only, the others staying in their initial states.             *)
(***************************************************************************)
EXTENDS Article, FiniteSets, TLC

CONSTANTS ClusterRows, Cluster, Base, None, MaxActions,
          Incidents, Signals, Targets, Seen, MaxDecisions, MaxRuns,
          MaxPerEntry, MaxSelections

VARIABLES part,
          actions, reviewer,
          subject, claimed, runs, decisions, analyst,
          queue, entryLock, drafts, selections, editor,
          scenario, db, session, kept,
          corpus, root, entry, staging, writer, first

\* One incident holds every row; every signal is of one target and
\* falls in the window.
MCBase == [m \in ClusterRows |-> Cluster]
MCTarget == [s \in Signals |-> Seen]
MCNotable == Incidents \X Signals

\* Two source rows, two classification runs and two incidents, and the starts
\* from which statements are issued: an empty batch, a frozen one, a batch
\* classified, and one clustered.
MCRows == {1, 2}
MCRuns == {1, 2}
MCClusters == {"x", "y"}

MCEmpty == [rows |-> {}, frozen |-> FALSE,
            runs |-> [c \in MCRuns |-> [status |-> "absent", included |-> 0]],
            results |-> [c \in MCRuns |-> [r \in MCRows |-> "none"]],
            clustering |-> [status |-> "absent", of |-> 0, incidents |-> 0],
            sizes |-> [x \in MCClusters |-> 0], member |-> [r \in MCRows |-> "none"],
            claims |-> {}, evidence |-> [status |-> "absent", corroborated |-> 0],
            states |-> [x \in MCClusters |-> [kind |-> "none", row |-> 0]],
            week |-> "running", children |-> {}]

MCFrozen == [MCEmpty EXCEPT !.rows = MCRows, !.frozen = TRUE]

MCClassified(included) ==
    [MCFrozen EXCEPT !.runs[1] = [status |-> "completed", included |-> Cardinality(included)],
                     !.results[1] = [r \in MCRows |-> IF r \in included THEN "include" ELSE "exclude"]]

MCClustered ==
    [MCClassified(MCRows) EXCEPT !.clustering = [status |-> "completed", of |-> 1, incidents |-> 2],
                                 !.sizes = [x \in MCClusters |-> 1],
                                 !.member = [r \in MCRows |-> IF r = 1 THEN "x" ELSE "y"]]

MCClassify(ids, verdicts) ==
    [op : {"insertRunningClassificationRun", "delete run"}, run : ids]
    \cup [op : {"insertClassificationResults"}, run : ids, row : MCRows, decision : verdicts]
    \cup [op : {"delete result"}, run : ids, row : MCRows]
    \cup [op : {"completeClassificationRun"}, run : ids, included : 0..2]

MCImport ==
    [op : {"insertSourceRows", "delete source row"}, row : MCRows]
    \cup [op : {"freezeBatchSourceSet", "clear freeze"}]

MCMoves == [op : {"move result"}, run : {1}, to : {2}, row : MCRows]

MCCluster ==
    [op : {"insertRunningClusteringRun"}, run : {1}]
    \cup [op : {"insertIncidentClusters"}, incident : MCClusters, size : 1..2]
    \cup [op : {"delete incident"}, incident : MCClusters]
    \cup [op : {"insertIncidentMemberships"}, incident : MCClusters, row : MCRows]
    \cup [op : {"delete membership"}, row : MCRows]
    \cup [op : {"completeClusteringRun"}, incidents : 0..2]

MCEvidence ==
    [op : {"insertRunningEvidenceRun"}]
    \cup [op : {"insertIncidentClaim"}, incident : MCClusters, row : MCRows]
    \cup [op : {"insertEvidenceStates"}, incident : MCClusters, kind : {"reported"}, row : {0}]
    \cup [op : {"insertEvidenceStates"}, incident : MCClusters, kind : {"corroborated"}, row : MCRows]
    \cup [op : {"delete state"}, incident : MCClusters]
    \cup [op : {"completeEvidenceRun"}, corroborated : 0..2]

MCWeek == [op : {"insertWeekRunChild"}, child : {"classification", "clustering"}] \cup [op : {"completeWeekRun"}]

MCScenarios == {"import", "runs", "all eligible", "one eligible", "evidence", "week"}

MCStart ==
    [n \in MCScenarios |->
        CASE n = "import" -> MCEmpty
          [] n = "runs" -> MCFrozen
          [] n = "all eligible" -> MCClassified(MCRows)
          [] n = "one eligible" -> MCClassified({1})
          [] n \in {"evidence", "week"} -> MCClustered]

MCStatements ==
    [n \in MCScenarios |->
        CASE n = "import" -> MCImport \cup MCClassify({1}, {"include", "exclude"})
          [] n = "runs" -> MCMoves \cup MCClassify({1, 2}, {"include"})
          [] n \in {"all eligible", "one eligible"} -> MCCluster
          [] n = "evidence" -> MCEvidence
          [] n = "week" -> MCWeek]

\* Two evidence runs: one beyond every bound of the drafter, one within them;
\* and requests whose claims propose names on every kind of support.
MCMember(n, titled) == [row |-> n, titled |-> titled]

MCIncident(n, state, crypto, members) ==
    [id |-> n, state |-> state, subject |-> crypto, members |-> members]

MCCorpora ==
    {{MCIncident(1, "reported_only", FALSE, {MCMember(1, TRUE)}),
      MCIncident(2, "reported_only", FALSE, {MCMember(2, TRUE)}),
      MCIncident(3, "contradicted", TRUE, {MCMember(3, FALSE), MCMember(4, TRUE), MCMember(5, TRUE)}),
      MCIncident(4, "corroborated", FALSE, {})},
     {MCIncident(1, "reported_only", FALSE, {MCMember(1, FALSE)}),
      MCIncident(2, "reported_only", TRUE, {MCMember(2, TRUE), MCMember(3, TRUE)})}}

MCSupports == {"primary_statement", "two_independent_reports", "single_report", "none"}

MCClaim(n, sources, named, support) == [id |-> n, sources |-> sources, named |-> named, support |-> support]

MCRequests ==
    {<<[id |-> 1, state |-> "reported_only", subject |-> FALSE, headline |-> TRUE, sources |-> {1, 2},
        claims |-> <<MCClaim(1, a, TRUE, x), MCClaim(2, {2}, b, y)>>]>> :
            a \in {{}, {1}}, b \in BOOLEAN, x, y \in MCSupports}

I == INSTANCE Incidents WITH handler <- reviewer
V == INSTANCE Evidence WITH handler <- analyst, Target <- MCTarget, Notable <- MCNotable
D == INSTANCE Editing WITH Editors <- Handlers, NoEditor <- NoOne, MaxDecisions <- MaxPerEntry
G == INSTANCE RunGuards WITH Sessions <- Handlers, Rows <- MCRows, Runs <- MCRuns,
         Clusters <- MCClusters, Scenarios <- MCScenarios,
         Start <- MCStart, Statements <- MCStatements
F == INSTANCE Drafting WITH Writers <- Handlers, Names <- {"n1", "n2"}, Corpora <- MCCorpora,
         Requests <- MCRequests, MaxIncidents <- 3, MaxClaims <- 2, MaxSources <- 2,
         MinSources <- 1, PreviewIncidents <- 2, PreviewSources <- 1

\* A lock names its holder or nobody; an incident of the run is no action.
ASSUME EditorialAssumption ==
    /\ NoOne \notin Handlers
    /\ MaxPerEntry \in Nat /\ MaxSelections \in Nat /\ MaxActions \in Nat
    /\ MaxDecisions \in Nat /\ MaxRuns \in Nat
    /\ IsFiniteSet(ClusterRows) /\ Base = [m \in ClusterRows |-> Base[m]]
    /\ \A m \in ClusterRows : Base[m] \notin 1..MaxActions

incidentVars == <<actions, reviewer>>
evidenceVars == <<subject, claimed, runs, decisions, analyst>>
editingVars == <<queue, entryLock, drafts, selections, editor>>
guardVars == <<scenario, db, session, kept>>
draftVars == <<corpus, root, entry, staging, writer, first>>

MCInit ==
    /\ part \in {"article", "incidents", "evidence", "editing", "guards", "draft"}
    /\ Init /\ I!Init /\ V!Init /\ D!Init /\ G!Init
    /\ part # "guards" => scenario = "import"
    /\ F!Init
    /\ part # "draft" => root = "absent" /\ Cardinality(corpus) = 2

\* What is selected and read later is of no account to an article once written.
SettledOnceWritten == article # <<>> => UNCHANGED <<now, selection, issued>>

MCNext ==
    /\ UNCHANGED part
    /\ \/ /\ part = "article" /\ Next
          /\ UNCHANGED <<incidentVars, evidenceVars, editingVars, guardVars, draftVars>>
       \/ /\ part = "incidents" /\ I!Next
          /\ UNCHANGED <<vars, evidenceVars, editingVars, guardVars, draftVars>>
       \/ /\ part = "evidence" /\ V!Next
          /\ UNCHANGED <<vars, incidentVars, editingVars, guardVars, draftVars>>
       \/ /\ part = "editing" /\ D!Next
          /\ UNCHANGED <<vars, incidentVars, evidenceVars, guardVars, draftVars>>
       \/ /\ part = "guards" /\ G!Next
          /\ UNCHANGED <<vars, incidentVars, evidenceVars, editingVars, draftVars>>
       \/ /\ part = "draft" /\ F!Next
          /\ UNCHANGED <<vars, incidentVars, evidenceVars, editingVars, guardVars>>

MCSpec == MCInit /\ [][MCNext]_<<part, vars, incidentVars, evidenceVars, editingVars, guardVars, draftVars>>

\* The steps of the run.
RunSpec ==
    MCInit /\ [][MCNext /\ SettledOnceWritten]_<<part, vars, incidentVars, evidenceVars, editingVars, guardVars, draftVars>>

\* Every state of the six is well formed, and no list outgrows its bound.
WellFormed == TypeOK /\ I!TypeOK /\ V!TypeOK /\ D!TypeOK /\ G!TypeOK /\ F!TypeOK

\* The article comes from a reading of its own, in force and complete, and no
\* edit lies over one its author did not see (generateArticle, saveArticleRevision).
ArticleSound == WrittenFromReading /\ EditsFollow

\* Whatever arrives together, the rows of a run stay divided into
\* incidents, joined whole or taken apart (mergeIncidents, splitIncident).
ImplementsGrouping == I!ImplementsGrouping

\* What editors record lies on what its author saw, and is recorded once: actions
\* on incidents (assertDeclaredRevision, actionKey), drafts and selections, which
\* have no fork and no gap (saveDraftRevision, selectStory).
ActsOnWhatItSaw == I!ActsOnWhatItSaw /\ D!EditsInOrder

\* A resolution answers with every decision made before it, and nothing is
\* corroborated without a person (resolveEvidence, decideAssociation).  Whatever
\* sessions write together, a completed run stands whole on the one before it and
\* keeps what it held (the guards of migrations 0004 to 0009 and 0014).  A draft
\* is published whole or not at all (publishDraft).
EvidenceSound ==
    /\ V!EvidenceSound
    /\ G!CompletedRunCovers /\ G!ChainHolds /\ G!CompletedKeepsOutput
    /\ F!PublishedAsAPair /\ F!OutcomeIsOnDisk

\* A draft of a completed run tells every incident once, whatever order its rows
\* are read in, and names nobody beyond the sourcing (generateDraft).
DraftSound ==
    part = "draft" =>
        F!EveryIncidentToldOnce /\ F!OrderIndependent /\ F!NamesStandOnSourcing /\ F!PreviewIsAccounted

\* Ids of a kind are interchangeable.
Symmetry == Permutations(Handlers) \cup Permutations(ClusterRows) \cup Permutations(Accounts)
=============================================================================
