----------------------------- MODULE Incidents ------------------------------
(***************************************************************************)
(* The review of the incidents of one completed clustering run:            *)
(* mergeIncidents and splitIncident (apps/worker/src/clustering/review.ts) *)
(* over clustering_review_actions (packages/database/src/clustering.ts,    *)
(* migrations 0006 and 0007).                                              *)
(*                                                                         *)
(* The base memberships never change; an action is appended with the next  *)
(* revision, and the effective incidents are the replay of the actions.    *)
(* A request is identified by what it asks for, so its repetition must     *)
(* find the action it made, and two reviewers may act on one view.  Who    *)
(* asks and with which note only chooses between the answers "already      *)
(* recorded" and "conflict", neither of which writes anything; the reason  *)
(* code, a part of the identity, is one and the same.                      *)
(***************************************************************************)
EXTENDS Integers, Sequences, FiniteSets

CONSTANTS
    Base,           \* the incident each membership was put in by the run
    Handlers,       \* requests running at once
    None,           \* no revision declared
    MaxActions      \* bound: actions recorded

VARIABLES
    actions,    \* clustering_review_actions in revision order
    handler

vars == <<actions, handler>>

-----------------------------------------------------------------------------
Memberships == DOMAIN Base

\* An incident is one of the run, or the action that made it.
IncidentIds == {Base[m] : m \in Memberships} \cup 1..MaxActions

Request == [operation : {"merge", "split"}, incidents : SUBSET IncidentIds,
            memberships : SUBSET Memberships, expected : {None} \cup 0..MaxActions]

NoRequest == [operation |-> "merge", incidents |-> {}, memberships |-> {},
              expected |-> None]

Idle == [pc |-> "idle", request |-> NoRequest, prior |-> 0]

HandlerRow == [pc : {"idle", "lookup", "view", "reread", "insert"},
               request : Request, prior : 0..MaxActions]

TypeOK ==
    /\ actions \in Seq(Request)
    /\ Len(actions) <= MaxActions
    /\ handler \in [Handlers -> HandlerRow]

Init ==
    /\ actions = <<>>
    /\ handler = [h \in Handlers |-> Idle]

Revision == Len(actions)

-----------------------------------------------------------------------------
(* The effective view. *)

\* replay of one action: a merge takes all that is in the named incidents, a
\* split the named memberships, wherever they are.
Apply(assignment, n) ==
    [m \in Memberships |->
        IF \/ actions[n].operation = "merge" /\ assignment[m] \in actions[n].incidents
           \/ actions[n].operation = "split" /\ m \in actions[n].memberships
          THEN n
          ELSE assignment[m]]

\* effectiveIncidents at a revision: the incident of each membership.
Effective(revision) ==
    LET replay[n \in 0..revision] == IF n = 0 THEN Base ELSE Apply(replay[n - 1], n)
    IN replay[revision]

\* group: the memberships of an incident.
Members(assignment, incident) == {m \in Memberships : assignment[m] = incident}

EffectiveIds(assignment) == {assignment[m] : m \in Memberships}

-----------------------------------------------------------------------------
(* Identity. *)

\* actionKey: without the actor, the note and the revision.
Key(request) == <<request.operation, request.incidents, request.memberships>>

Found(request) == {n \in 1..Revision : Key(actions[n]) = Key(request)}

Leave(h) == handler' = [handler EXCEPT ![h] = Idle]

Goto(h, pc) == handler' = [handler EXCEPT ![h].pc = pc]

-----------------------------------------------------------------------------
(* mergeIncidents and splitIncident. *)

Ask(h, request) ==
    /\ handler[h].pc = "idle"
    /\ handler' = [handler EXCEPT ![h] = [Idle EXCEPT !.pc = "lookup", !.request = request]]
    /\ UNCHANGED actions

\* A request is made from the page of this revision; it arrives later, and a
\* second one like it may be on its way.
AskMerge(h, expected) ==
    \E named \in SUBSET EffectiveIds(Effective(Revision)) :
        /\ Cardinality(named) >= 2
        /\ Ask(h, [operation |-> "merge", incidents |-> named, memberships |-> {},
                   expected |-> expected])

AskSplit(h, expected) ==
    LET view == Effective(Revision) IN
    \E i \in EffectiveIds(view) : \E out \in (SUBSET Members(view, i)) \ {{}} :
        Ask(h, [operation |-> "split", incidents |-> {i}, memberships |-> out,
                expected |-> expected])

\* alreadyRecorded, before the view: a landed action has changed the view.
AlreadyRecorded(h) ==
    /\ handler[h].pc = "lookup"
    /\ IF Found(handler[h].request) = {} THEN Goto(h, "view") ELSE Leave(h)
    /\ UNCHANGED actions

\* Mutant: a declared revision is not compared.
CurrentAnyway(request) == TRUE

\* assertDeclaredRevision.
DeclaredCurrent(request) == request.expected \in {None, Revision}

\* Mutant: the memberships may have moved to another incident.
TakesAnything(request, view) ==
    \E i \in request.incidents : request.memberships # Members(view, i)

\* The named memberships are of the incident and leave one behind.
TakesAPart(request, view) ==
    \E i \in request.incidents :
        /\ request.memberships \subseteq Members(view, i)
        /\ request.memberships # Members(view, i)

\* The request is held against the view of this revision.
Validate(h) ==
    LET request == handler[h].request
        view == Effective(Revision)
        valid == /\ DeclaredCurrent(request)
                 /\ request.incidents \subseteq EffectiveIds(view)
                 /\ request.operation = "split" => TakesAPart(request, view)
    IN
    /\ handler[h].pc = "view"
    /\ IF valid
         THEN handler' = [handler EXCEPT ![h].pc = "reread", ![h].prior = Revision]
         ELSE Leave(h)
    /\ UNCHANGED actions

\* record reads the revision again in its transaction: stale, or on.
Reread(h) ==
    /\ handler[h].pc = "reread"
    /\ IF handler[h].prior = Revision THEN Goto(h, "insert") ELSE Leave(h)
    /\ UNCHANGED actions

\* clustering_actions_run_revision and clustering_actions_idempotent.
Insertable(request, prior) == prior = Revision /\ Found(request) = {}

\* A refused insert looks for the winner only to choose its answer.
Insert(h) ==
    LET request == handler[h].request IN
    /\ handler[h].pc = "insert"
    /\ Revision < MaxActions
    /\ actions' = IF Insertable(request, handler[h].prior) THEN Append(actions, request)
                  ELSE actions
    /\ Leave(h)

\* A request is lost wherever it is; what it committed stays.
Die(h) ==
    /\ handler[h].pc # "idle"
    /\ Leave(h)
    /\ UNCHANGED actions

Next ==
    \E h \in Handlers :
        \/ \E expected \in {None, Revision} : AskMerge(h, expected) \/ AskSplit(h, expected)
        \/ AlreadyRecorded(h) \/ Validate(h) \/ Reread(h) \/ Insert(h) \/ Die(h)

Spec == Init /\ [][Next]_vars

-----------------------------------------------------------------------------
(* What the review promises. *)

Abstract == INSTANCE Grouping WITH
    Start <- {Members(Base, i) : i \in EffectiveIds(Base)},
    parts <- LET view == Effective(Revision) IN {Members(view, i) : i \in EffectiveIds(view)}

\* Whatever arrives together, late or twice, the memberships stay divided into
\* incidents, and an action joins incidents whole or takes a part out of one
\* (mergeIncidents, splitIncident, replay).
ImplementsGrouping == Abstract!Spec

\* An action that declared the revision it was made from was recorded on that
\* revision, and what was asked for twice is recorded once
\* (assertDeclaredRevision, actionKey).
ActsOnWhatItSaw ==
    \A n \in 1..Revision :
        actions[n].expected \in {None, n - 1} /\ Found(actions[n]) = {n}
=============================================================================
