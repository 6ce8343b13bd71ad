------------------------------ MODULE Evidence ------------------------------
(***************************************************************************)
(* The evidence beside one clustering run and one signal run: subjects     *)
(* and claims that people record (apps/worker/src/evidence/subject.ts,     *)
(* claim.ts), the runs that correlate incidents with signals and resolve a *)
(* state for each incident (evidence/run.ts, packages/evidence/src/        *)
(* correlate.ts), and the decisions on the associations they suggest       *)
(* (evidence/review.ts), over packages/database/src/evidence.ts and        *)
(* migrations 0008 and 0009.                                               *)
(*                                                                         *)
(* A run is identified by the decisions there are when it is asked for, so *)
(* a resolution without news returns the run there is.  Decisions, runs,   *)
(* subjects and claims are only ever added.                                *)
(***************************************************************************)
EXTENDS Integers, Sequences, FiniteSetsExt

CONSTANTS
    Incidents, Signals,
    Targets,        \* explicit chain and protocol
    Target,         \* what a signal was observed of
    Notable,        \* pairs of incident and signal within the window and above the floor
    Handlers,       \* requests running at once
    None,           \* no subject, and no incident or signal
    MaxDecisions, MaxRuns   \* bounds: decisions recorded, runs completed

VARIABLES
    subject,    \* incident_subjects
    claimed,    \* the incidents with a recorded claim
    runs,       \* evidence_runs, completed, in the order they committed
    decisions,  \* evidence_review_actions, in the order they committed
    handler

vars == <<subject, claimed, runs, decisions, handler>>

-----------------------------------------------------------------------------
Pairs == Incidents \X Signals

Relations == {"context", "supports", "conflicts"}

States == {"reported_only", "onchain_observed", "corroborated", "contradicted"}

SubjectMap == [Incidents -> Targets \cup {None}]

\* key: how many decisions there were when it was asked for; decided and
\* subject: what its transaction saw.
Run == [key : 0..MaxDecisions, decided : 0..MaxDecisions, subject : SubjectMap,
        suggested : SUBSET Pairs, state : [Incidents -> States]]

\* made: created_at, the application's instant, which runs ahead of the commit.
Decision == [run : 1..MaxRuns, pair : Pairs, accept : BOOLEAN, relation : Relations,
             made : 0..2 * MaxDecisions + 1]

\* What a request works on; since is what was decided when it came, or the
\* instant of a decision; decided and known are the decisions and the subjects
\* its transaction sees.
Work == [run : 0..MaxRuns, pair : (Incidents \cup {None}) \X (Signals \cup {None}),
         accept : BOOLEAN, relation : Relations, target : Targets \cup {None},
         prior : 0..MaxDecisions, since : 0..2 * MaxDecisions + 1,
         decided : 0..MaxDecisions, known : SubjectMap]

Nothing == [i \in Incidents |-> None]

Idle == [run |-> 0, pair |-> <<None, None>>, accept |-> FALSE, relation |-> "context",
         target |-> None, prior |-> 0, since |-> 0, decided |-> 0, known |-> Nothing]

Requests == {"idle", "subject", "resolve", "commit", "answered", "decide", "insert"}

\* Every state is well formed; a run suggests only pairs whose subject is the
\* signal's target.
TypeOK ==
    /\ subject \in SubjectMap
    /\ claimed \subseteq Incidents
    /\ runs \in Seq(Run)
    /\ decisions \in Seq(Decision)
    /\ Len(decisions) <= MaxDecisions /\ Len(runs) <= MaxRuns
    /\ handler \in [Handlers -> [pc : Requests, work : Work]]
    /\ \A k \in 1..Len(runs) : \A p \in runs[k].suggested : runs[k].subject[p[1]] = Target[p[2]]

Rest == [pc |-> "idle", work |-> Idle]

Init ==
    /\ subject = Nothing
    /\ claimed = {}
    /\ runs = <<>>
    /\ decisions = <<>>
    /\ handler = [h \in Handlers |-> Rest]

Become(h, pc, work) == handler' = [handler EXCEPT ![h] = [pc |-> pc, work |-> work]]

Answer(h, k, since) == Become(h, "answered", [Rest.work EXCEPT !.run = k, !.since = since])

Leave(h) == handler' = [handler EXCEPT ![h] = Rest]

-----------------------------------------------------------------------------
(* recordIncidentSubject and recordIncidentClaim. *)

\* What is recorded already is compared; nothing recorded, it is inserted.
ReadSubject(h, i, t) ==
    /\ handler[h].pc = "idle"
    /\ subject[i] = None
    /\ Become(h, "subject", [Rest.work EXCEPT !.pair = <<i, None>>, !.target = t])
    /\ UNCHANGED <<subject, claimed, runs, decisions>>

\* incident_subjects is unique by incident: a refused insert answers with the
\* winner.
InsertSubject(h) ==
    LET work == handler[h].work IN
    /\ handler[h].pc = "subject"
    /\ subject' = IF subject[work.pair[1]] = None
                    THEN [subject EXCEPT ![work.pair[1]] = work.target] ELSE subject
    /\ Leave(h)
    /\ UNCHANGED <<claimed, runs, decisions>>

\* A claim is found by its fingerprint or inserted, with the same outcome.
RecordClaim(i) ==
    /\ claimed' = claimed \cup {i}
    /\ UNCHANGED <<subject, runs, decisions, handler>>

-----------------------------------------------------------------------------
(* correlate and resolveEvidenceState. *)

\* Explicit chain and protocol, then the window, then the magnitude.
Correlate(known) == {p \in Notable : known[p[1]] # None /\ known[p[1]] = Target[p[2]]}

About(p, n) == {k \in 1..n : decisions[k].pair = p}

MadeBefore(j, k) == \/ decisions[j].made < decisions[k].made
                    \/ decisions[j].made = decisions[k].made /\ j <= k

\* listEffectiveAssociations: the decision on the incident and signal that was
\* made last, whichever run's association it was made on.
LatestOf(p, n) == CHOOSE k \in About(p, n) : \A j \in About(p, n) : MadeBefore(j, k)

Accepted(p, n) == About(p, n) # {} /\ decisions[LatestOf(p, n)].accept

RelationOf(p, n) ==
    IF About(p, n) = {} THEN "context" ELSE decisions[LatestOf(p, n)].relation

\* The contract's rules in their order, the first that holds.
Resolve(i, suggested, n) ==
    LET relations == {RelationOf(p, n) : p \in {q \in suggested : q[1] = i /\ Accepted(q, n)}} IN
    IF "conflicts" \in relations THEN "contradicted"
    ELSE IF "supports" \in relations THEN "corroborated"
    ELSE IF "context" \in relations THEN "onchain_observed"
    ELSE "reported_only"

-----------------------------------------------------------------------------
(* resolveEvidence. *)

\* Mutant: the identity of a run leaves out the decisions.
KeyBlind == 0

\* decisionDigest: every decision on the clustering run.
DecisionKey == Len(decisions)

WithKey(key) == {k \in 1..Len(runs) : runs[k].key = key}

\* A run of this identity is the answer.
AskResolve(h) ==
    LET work == [Rest.work EXCEPT !.prior = DecisionKey, !.since = Len(decisions)]
        found == WithKey(DecisionKey)
    IN
    /\ handler[h].pc = "idle"
    /\ IF found = {}
         THEN Become(h, "resolve", work)
         ELSE \E k \in found : Answer(h, k, work.since)
    /\ UNCHANGED <<subject, claimed, runs, decisions>>

\* The transaction's snapshot: what it will correlate and resolve.
Snapshot(h) ==
    /\ handler[h].pc = "resolve"
    /\ Become(h, "commit", [handler[h].work EXCEPT !.decided = Len(decisions), !.known = subject])
    /\ UNCHANGED <<subject, claimed, runs, decisions>>

\* idempotency_key is unique: the run is completed, or the winner is the answer.
Commit(h) ==
    LET work == handler[h].work
        suggested == Correlate(work.known)
        found == WithKey(work.prior)
    IN
    /\ handler[h].pc = "commit"
    /\ IF found = {}
         THEN /\ Len(runs) < MaxRuns
              /\ runs' = Append(runs, [key |-> work.prior, decided |-> work.decided,
                                       subject |-> work.known, suggested |-> suggested,
                                       state |-> [i \in Incidents |->
                                                    Resolve(i, suggested, work.decided)]])
              /\ Answer(h, Len(runs) + 1, work.since)
         ELSE /\ UNCHANGED runs
              /\ \E k \in found : Answer(h, k, work.since)
    /\ UNCHANGED <<subject, claimed, decisions>>

-----------------------------------------------------------------------------
(* decideAssociation. *)

OfRun(k) == {n \in 1..Len(decisions) : decisions[n].run = k}

Same(work) ==
    {n \in OfRun(work.run) : /\ decisions[n].pair = work.pair
                             /\ decisions[n].accept = work.accept
                             /\ decisions[n].relation = work.relation}

\* An association of a completed run; a supporting or conflicting one is
\* accepted with a claim of its incident.  A repeated decision is found by its
\* key; otherwise the run's revision is read, and the instant taken: after every
\* decision there is, before or after one that is on its way.
AskDecide(h, k, p, accept, relation, instant) ==
    LET work == [Rest.work EXCEPT !.run = k, !.pair = p, !.accept = accept,
                                  !.relation = relation, !.prior = Cardinality(OfRun(k)),
                                  !.since = instant]
    IN
    /\ handler[h].pc = "idle"
    /\ p \in runs[k].suggested
    /\ accept /\ relation # "context" => p[1] \in claimed
    /\ Same(work) = {}
    /\ Become(h, "insert", work)
    /\ UNCHANGED <<subject, claimed, runs, decisions>>

\* Unique by revision and by key within the run: recorded, or stale or repeated.
InsertDecision(h) ==
    LET work == handler[h].work
        free == Cardinality(OfRun(work.run)) = work.prior /\ Same(work) = {}
    IN
    /\ handler[h].pc = "insert"
    /\ Len(decisions) < MaxDecisions
    /\ decisions' = IF free THEN Append(decisions, [run |-> work.run, pair |-> work.pair,
                                                    accept |-> work.accept,
                                                    relation |-> work.relation,
                                                    made |-> work.since])
                    ELSE decisions
    /\ Leave(h)
    /\ UNCHANGED <<subject, claimed, runs>>

\* The command ends, or is stopped wherever it is.
End(h) ==
    /\ handler[h].pc # "idle"
    /\ Leave(h)
    /\ UNCHANGED <<subject, claimed, runs, decisions>>

\* Nothing reads the relation of a rejection: one stands for all.
Answers(accept) == IF accept THEN Relations ELSE {"context"}

Next ==
    \/ \E i \in Incidents : RecordClaim(i)
    \/ \E h \in Handlers :
          \/ \E i \in Incidents, t \in Targets : ReadSubject(h, i, t)
          \/ InsertSubject(h) \/ AskResolve(h) \/ Snapshot(h) \/ Commit(h)
          \/ \E k \in 1..Len(runs), early \in {0, 1}, accept \in BOOLEAN :
                \E p \in runs[k].suggested, relation \in Answers(accept) :
                   AskDecide(h, k, p, accept, relation, 2 * Len(decisions) + early)
          \/ InsertDecision(h) \/ End(h)

Spec == Init /\ [][Next]_vars

-----------------------------------------------------------------------------
(* What the evidence promises. *)

\* The run a resolution answers with has seen every decision recorded when the
\* resolution was asked for (decisionDigest, resolveEvidence).
AnswerKnowsTheDecisions ==
    \A h \in Handlers : handler[h].pc = "answered" =>
        runs[handler[h].work.run].decided >= handler[h].work.since

\* No incident rises above what was reported but by a person's acceptance,
\* with a claim where it says more than activity, and not taken back before
\* the run saw it (correlate, resolveEvidenceState, decideAssociation).
NothingCorroboratesItself ==
    \A k \in 1..Len(runs), i \in Incidents :
        LET state == runs[k].state[i] IN
        state # "reported_only" =>
            \E n \in 1..runs[k].decided :
                /\ decisions[n].pair[1] = i /\ decisions[n].accept
                /\ state # "onchain_observed" => i \in claimed
                /\ \A j \in 1..runs[k].decided :
                      decisions[j].pair = decisions[n].pair /\ ~MadeBefore(j, n) =>
                         decisions[j].accept

EvidenceSound == AnswerKnowsTheDecisions /\ NothingCorroboratesItself
=============================================================================
