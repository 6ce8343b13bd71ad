---------------------------- MODULE MCPlatform -----------------------------
(***************************************************************************)
(* The imports, the pool of connections, the tool server's calls and the   *)
(* migration runner, checked one beside the other: a behaviour picks one   *)
(* of them and takes its steps only, the others staying where they start.  *)
(* The readiness probe, which has a pool of its own, is one of them too.   *)
(***************************************************************************)
EXTENDS Connections, TLC

CONSTANTS u1, u2, Urls, Bad, Blank, Texts, Importers, Labels, MaxEdits, MaxImports,
          Calls, Permits, Rate, Window, MaxTime,
          Runners, Releases, Broken

VARIABLES part,
          text, edits, groups, batches, importer, attempts,
          now, starts, call, closing,
          owner, recorded, history, runner

\* Two addresses in either order, a row that is quarantined, and a line that
\* is blank: no row at all to a tab, a row too short to a file.
MCTexts == {<<u1, u2>>, <<u2, u1>>, <<Bad>>, <<Blank>>}

\* A release, its successor, one that skips a number, one with another file of
\* the same number, one of another branch, and an empty directory.
MCReleases ==
    {1 :> "a", (1 :> "a") @@ (2 :> "a"), (1 :> "a") @@ (3 :> "bad"),
     1 :> "b", 2 :> "a", [v \in {} |-> "a"]}

I == INSTANCE Intake
T == INSTANCE ToolCalls
M == INSTANCE Migrations WITH lock <- owner

ASSUME PlatformAssumption ==
    /\ NoOne \notin Runners
    /\ Releases # {}
    /\ \A files \in Releases : DOMAIN files \subseteq Nat
    /\ IsFiniteSet(Texts) /\ Texts # {} /\ \A t \in Texts : t \in Seq(I!Lines)
    /\ Bad # Blank /\ Bad \notin Urls /\ Blank \notin Urls /\ Labels # {}
    /\ MaxEdits \in Nat /\ MaxImports \in Nat
    /\ Permits \in Nat /\ Rate \in Nat /\ Window \in Nat /\ MaxTime \in Nat

importVars == <<text, edits, groups, batches, importer, attempts>>
callVars == <<now, starts, call, closing>>
schemaVars == <<owner, recorded, history, runner>>
allVars == <<part, connectionVars, importVars, callVars, schemaVars>>

MCInit ==
    /\ part \in {"intake", "pool", "probe", "calls", "schema"}
    /\ Init
    /\ IF part = "intake" THEN I!Init
       ELSE /\ text = [s \in I!Sources |-> <<>>] /\ edits = 0
            /\ groups = [u \in Urls |-> 0] /\ batches = {}
            /\ importer = [i \in Importers |-> I!Idle] /\ attempts = <<>>
    /\ T!Init
    /\ IF part = "schema" THEN M!Init
       ELSE /\ owner = NoOne /\ recorded = M!NoRow /\ history = <<>>
            /\ runner = [r \in Runners |->
                 [at |-> "over", files |-> CHOOSE files \in Releases : TRUE,
                  applied |-> {}, outcome |-> "none"]]

\* The other parts stay as they are.
Others(mine) ==
    /\ UNCHANGED part
    /\ mine # "intake" => UNCHANGED importVars
    /\ mine \notin {"pool", "probe"} => UNCHANGED connectionVars
    /\ mine # "calls" => UNCHANGED callVars
    /\ mine # "schema" => UNCHANGED schemaVars

Goes(mine, A) == part = mine /\ A /\ Others(mine)

\* Importers are interchangeable: the first attempt is the same one's always.
FirstAsks ==
    LET first == CHOOSE i \in Importers : TRUE
    IN  \A i \in Importers : importer[i].attempt = 1 => i = first

MCNext ==
    \/ Goes("intake", I!Next)
    \/ Goes("pool", Next /\ UNCHANGED probe)
    \/ Goes("probe", Next /\ UNCHANGED <<held, waiting, lock, request>>)
    \/ Goes("calls", T!Next)
    \/ Goes("schema", M!Next)

\* The fairness of the part that steps; the others cannot.
MCFairness ==
    /\ \A i \in Importers :
        /\ WF_allVars(Goes("intake", I!Progress(i)))
        /\ WF_allVars(Goes("intake", I!BreakDeadlock(i)))
    /\ \A r \in Requests : WF_allVars(Goes("pool", Step(r)))
    /\ \A c \in Calls :
        /\ WF_allVars(Goes("calls", T!Abort(c, "deadline")))
        /\ WF_allVars(Goes("calls", T!Grace(c)))
    /\ \A r \in Runners :
        /\ WF_allVars(Goes("schema", M!Load(r) \/ M!Check(r) \/ M!Apply(r) \/ M!Finish(r)))
        /\ SF_allVars(Goes("schema", M!Lock(r)))

MCSpec == MCInit /\ [][MCNext]_allVars /\ MCFairness

\* The steps of the run.
RunSpec == MCInit /\ [][MCNext /\ FirstAsks']_allVars /\ MCFairness

\* No import, whatever is edited while it reads and whoever imports beside it,
\* stores anything but one whole read once, in the groups of its addresses
\* (importCsvFile, persistSheetsBatch, ensureUrlGroups).
IntakeSound ==
    /\ I!TypeOK
    /\ I!BatchIsItsRead /\ I!OneBatchPerRead /\ I!RowsAreInTheirGroups /\ I!GroupsAreOfBatches

\* No connection is lost, none is handed out twice, and no advisory lock is
\* left on one that went back (withClient, withCheckoutLock, readinessProbe).
ConnectionsSound ==
    TypeOK /\ PoolAccounted /\ LockOnItsConnection /\ ProbeLeavesNothing

\* The calls' connections stay within the permits, cancelled calls included, an
\* answer says what happened, and a closed server leaves no connection
\* (invokeTool, awaitWithinScope, PostgresReadStoreProvider.close).
CallsSound ==
    T!TypeOK /\ T!ConnectionsWithinPermits /\ T!AnswersTruly /\ T!ClosedLeavesNothing

\* Runners of different releases leave a schema that one history made, once
\* each, and a run reports what that schema is (runMigrations, detectDrift).
MigrationsSound ==
    M!TypeOK /\ M!RecordedIsDone /\ M!OntoItsOwnHistory /\ M!OutcomeIsTheSchemas

\* Who waits is served: an import for another's row locks, a request for a
\* connection, a call for a database that does not answer, a runner for the
\* migration lock (flushChunk, Database.acquire, invokeTool, withMigrationLock).
EveryoneIsServed ==
    I!EveryImportEnds /\ EveryRequestEnds /\ T!EveryCallAnswered /\ M!EveryRunnerEnds
=============================================================================
