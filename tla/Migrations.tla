----------------------------- MODULE Migrations ------------------------------
(***************************************************************************)
(* The forward-only migration runner (packages/database/src/migrate.ts):   *)
(* runMigrations over withMigrationLock, several runners of several        *)
(* releases at once, each with the files its release was packaged with.    *)
(*                                                                         *)
(* A file is known by its version and its content: the name and the        *)
(* checksum, which detectDrift compares.  A release is a partial function  *)
(* from versions to contents; a missing version is a number never used or  *)
(* a file of another branch.                                               *)
(***************************************************************************)
EXTENDS Integers, Sequences, FiniteSets

CONSTANTS
    Runners,
    Releases,   \* the sets of files a runner can be started with
    Broken,     \* contents whose SQL fails
    NoOne

VARIABLES
    lock,       \* the session-level advisory lock of the schema
    recorded,   \* schema_migrations: version -> content
    history,    \* what was done to the schema, in order: version, content, by whom
    runner

migrationVars == <<lock, recorded, history, runner>>

-----------------------------------------------------------------------------
Versions == UNION {DOMAIN release : release \in Releases}
Contents == UNION {{release[v] : v \in DOMAIN release} : release \in Releases}

Outcomes == {"none", "done", "drift", "failed", "no files", "crashed"}

TypeOK ==
    /\ lock \in Runners \cup {NoOne}
    /\ DOMAIN recorded \subseteq Versions
    /\ \A v \in DOMAIN recorded : recorded[v] \in Contents
    /\ \A n \in DOMAIN history :
        history[n] \in [version : Versions, content : Contents, by : Runners]
    /\ \A r \in Runners :
        /\ runner[r].files \in Releases
        /\ runner[r].at \in {"start", "loaded", "locked", "applying", "over"}
        /\ runner[r].applied \subseteq Versions
        /\ runner[r].outcome \in Outcomes

NoRow == [v \in {} |-> "none"]

\* runMigrations reads its directory before it asks for the lock.
Init ==
    /\ lock = NoOne
    /\ recorded = NoRow
    /\ history = <<>>
    /\ \E files \in [Runners -> Releases] :
        runner = [r \in Runners |->
            [at |-> "start", files |-> files[r], applied |-> {}, outcome |-> "none"]]

Go(r, place) == runner' = [runner EXCEPT ![r].at = place]
End(r, outcome) == runner' = [runner EXCEPT ![r].at = "over", ![r].outcome = outcome]

\* loadMigrations.
Load(r) ==
    /\ runner[r].at = "start"
    /\ IF DOMAIN runner[r].files = {} THEN End(r, "no files") ELSE Go(r, "loaded")
    /\ UNCHANGED <<lock, recorded, history>>

\* The lock is not waited for.
LockTaken == TRUE

\* pg_advisory_lock waits until nobody has it.
LockFree == lock = NoOne

Lock(r) ==
    /\ runner[r].at = "loaded"
    /\ LockFree
    /\ lock' = r
    /\ Go(r, "locked")
    /\ UNCHANGED <<recorded, history>>

\* detectDrift: what is recorded has a file, and the file is what was applied.
Drifted(r) ==
    \E v \in DOMAIN recorded :
        \/ v \notin DOMAIN runner[r].files
        \/ runner[r].files[v] # recorded[v]

Check(r) ==
    /\ runner[r].at = "locked"
    /\ IF Drifted(r)
         THEN /\ End(r, "drift")
              /\ lock' = NoOne
         ELSE /\ runner' = [runner EXCEPT ![r].at = "applying", ![r].applied = DOMAIN recorded]
              /\ UNCHANGED lock
    /\ UNCHANGED <<recorded, history>>

\* The files whose version was not recorded when the lock was taken.
Pending(r) == DOMAIN runner[r].files \ runner[r].applied

NextVersion(r) == CHOOSE v \in Pending(r) : \A w \in Pending(r) : v <= w

Recordable(v) == v \notin DOMAIN recorded

\* One migration and its row, in one transaction: the statements fail, or the
\* row is there already (its primary key), and it is rolled back and the run
\* ends; or both are committed.
Apply(r) ==
    /\ runner[r].at = "applying"
    /\ Pending(r) # {}
    /\ LET v == NextVersion(r)
           content == runner[r].files[v] IN
       IF content \in Broken \/ ~Recordable(v)
         THEN /\ End(r, "failed")
              /\ lock' = NoOne
              /\ UNCHANGED <<recorded, history>>
         ELSE /\ recorded' = [w \in DOMAIN recorded \cup {v} |->
                                IF w = v THEN content ELSE recorded[w]]
              /\ history' = Append(history, [version |-> v, content |-> content, by |-> r])
              /\ runner' = [runner EXCEPT ![r].applied = @ \cup {v}]
              /\ UNCHANGED lock

Finish(r) ==
    /\ runner[r].at = "applying"
    /\ Pending(r) = {}
    /\ End(r, "done")
    /\ lock' = NoOne
    /\ UNCHANGED <<recorded, history>>

\* The process or its connection is lost: the session's lock goes with it, and
\* a transaction under way is undone.
Crash(r) ==
    /\ runner[r].at \in {"loaded", "locked", "applying"}
    /\ End(r, "crashed")
    /\ lock' = IF lock = r THEN NoOne ELSE lock
    /\ UNCHANGED <<recorded, history>>

\* The command is run again, by the same release or the next.
Restart(r) ==
    /\ runner[r].at = "over"
    /\ \E files \in Releases :
        runner' = [runner EXCEPT ![r] =
            [at |-> "start", files |-> files, applied |-> {}, outcome |-> "none"]]
    /\ UNCHANGED <<lock, recorded, history>>

Next ==
    \E r \in Runners :
        Load(r) \/ Lock(r) \/ Check(r) \/ Apply(r) \/ Finish(r) \/ Crash(r) \/ Restart(r)

Spec == Init /\ [][Next]_migrationVars

\* A runner goes on, and the lock is given to one that waits for it for ever.
Fairness ==
    \A r \in Runners :
        /\ WF_migrationVars(Load(r) \/ Check(r) \/ Apply(r) \/ Finish(r))
        /\ SF_migrationVars(Lock(r))

FairSpec == Spec /\ Fairness

-----------------------------------------------------------------------------
\* The table and the schema say the same: every recorded migration was done
\* once, nothing was done that is not recorded, and no content is replaced.
RecordedIsDone ==
    /\ DOMAIN recorded = {history[n].version : n \in DOMAIN history}
    /\ \A n \in DOMAIN history : recorded[history[n].version] = history[n].content
    /\ \A m, n \in DOMAIN history : history[m].version = history[n].version => m = n

\* A migration is done only to a schema made of the runner's own files: what
\* another release did before it is among them, unchanged, at every moment.
OntoItsOwnHistory ==
    \A r \in Runners : runner[r].at = "applying" =>
        \A v \in DOMAIN recorded :
            v \in DOMAIN runner[r].files /\ runner[r].files[v] = recorded[v]

\* A run that ends well leaves its files applied, a rerun finds nothing
\* pending, and one that fails did so on a file of its own that does not run:
\* never because another runner came between.
OutcomeIsTheSchemas ==
    \A r \in Runners :
        /\ runner[r].outcome = "done" =>
            \A v \in DOMAIN runner[r].files :
                v \in DOMAIN recorded /\ recorded[v] = runner[r].files[v]
        /\ runner[r].outcome = "failed" =>
            \E v \in DOMAIN runner[r].files : runner[r].files[v] \in Broken

\* "The second waits": a runner that waits for the lock is not left waiting.
EveryRunnerEnds == \A r \in Runners : runner[r].at = "loaded" ~> runner[r].at = "over"
=============================================================================
