------------------------------- MODULE Editing -------------------------------
(***************************************************************************)
(* What editors append beside each other: decisions on a row of the review *)
(* queue (reviewQueueEntry), revisions of a draft (saveDraftRevision) and  *)
(* the selection of an incident for its week (selectStory), all of         *)
(* apps/dashboard/src/server/dal/mutate.ts, over queue_decisions and       *)
(* draft_revisions (migration 0010, auth/postgres-store.ts, packages/      *)
(* database/src/dashboard-auth.ts) and issue_selections (migration 0014,   *)
(* packages/database/src/week.ts).                                         *)
(*                                                                         *)
(* One row, one draft and one incident stand for all: nothing is shared    *)
(* between two of a kind.  Each list bounds or orders itself differently,  *)
(* by a lock, by a primary key, and by a trigger with a unique revision.   *)
(***************************************************************************)
EXTENDS Integers, Sequences

CONSTANTS
    Editors,            \* requests running at once
    NoEditor,
    MaxDecisions,       \* MAX_QUEUE_DECISIONS_PER_ENTRY
    MaxRevisions,       \* MAX_DRAFT_REVISIONS
    MaxSelections       \* bound: selections recorded

VARIABLES
    queue,      \* how many decisions the row holds
    entryLock,  \* who holds the advisory lock on the row
    drafts,     \* draft_revisions: the revision each was made from
    selections, \* issue_selections: the revision of each
    editor

vars == <<queue, entryLock, drafts, selections, editor>>

-----------------------------------------------------------------------------
Idle == [pc |-> "idle", number |-> 0]

EditorRow == [pc : {"idle", "found", "counted", "page", "draft", "selection"}, number : Nat]

\* Every state is well formed, and no list outgrows its bound: a row of the
\* queue and a draft hold no more than their limits.
TypeOK ==
    /\ queue \in 0..MaxDecisions
    /\ entryLock \in Editors \cup {NoEditor}
    /\ drafts \in Seq(Nat)
    /\ Len(drafts) <= MaxRevisions
    /\ selections \in Seq(1..MaxSelections)
    /\ editor \in [Editors -> EditorRow]

Init ==
    /\ queue = 0
    /\ entryLock = NoEditor
    /\ drafts = <<>>
    /\ selections = <<>>
    /\ editor = [e \in Editors |-> Idle]

Become(e, new) == editor' = [editor EXCEPT ![e] = new]

-----------------------------------------------------------------------------
(* reviewQueueEntry. *)

\* countForEntry refuses early, and the row is found in its run's queue.
AskReview(e) ==
    /\ editor[e].pc = "idle"
    /\ queue < MaxDecisions
    /\ Become(e, [Idle EXCEPT !.pc = "found"])
    /\ UNCHANGED <<queue, entryLock, drafts, selections>>

\* Mutant: the count is taken without the lock.
EntryOpen == TRUE

\* lockQueueEntry waits for whoever appends to the same row.
EntryFree == entryLock = NoEditor

\* appendIfBelow: under the lock, the row is counted.
CountEntry(e) ==
    /\ editor[e].pc = "found"
    /\ EntryFree
    /\ entryLock' = e
    /\ Become(e, [Idle EXCEPT !.pc = "counted", !.number = queue])
    /\ UNCHANGED <<queue, drafts, selections>>

\* Below the limit the decision is appended; the commit gives the lock back.
AppendDecision(e) ==
    /\ editor[e].pc = "counted"
    /\ queue' = IF editor[e].number < MaxDecisions THEN queue + 1 ELSE queue
    /\ entryLock' = IF entryLock = e THEN NoEditor ELSE entryLock
    /\ Become(e, Idle)
    /\ UNCHANGED <<drafts, selections>>

-----------------------------------------------------------------------------
(* saveDraftRevision. *)

OpenDraft(e) ==
    /\ editor[e].pc = "idle"
    /\ Become(e, [Idle EXCEPT !.pc = "page", !.number = Len(drafts)])
    /\ UNCHANGED <<queue, entryLock, drafts, selections>>

\* The latest revision is below the limit and the one the page was made from.
SaveDraft(e) ==
    /\ editor[e].pc = "page"
    /\ Become(e, IF Len(drafts) < MaxRevisions /\ editor[e].number = Len(drafts)
                   THEN [editor[e] EXCEPT !.pc = "draft"] ELSE Idle)
    /\ UNCHANGED <<queue, entryLock, drafts, selections>>

\* Mutant: a revision goes in behind whatever is there.
RevisionAnyway(n) == TRUE

\* The primary key (draft_key, revision): taken is a conflict.
RevisionFree(n) == n = Len(drafts) + 1

AppendDraft(e) ==
    /\ editor[e].pc = "draft"
    /\ drafts' = IF RevisionFree(editor[e].number + 1) THEN Append(drafts, editor[e].number)
                 ELSE drafts
    /\ Become(e, Idle)
    /\ UNCHANGED <<queue, entryLock, selections>>

-----------------------------------------------------------------------------
(* selectStory: the week is completed, the run is one it recorded and the  *)
(* incident one of the run; all three never change afterwards.             *)

\* lastSelectionRevision, in the transaction of the insert.
ReadSelection(e) ==
    /\ editor[e].pc = "idle"
    /\ Become(e, [pc |-> "selection", number |-> Len(selections)])
    /\ UNCHANGED <<queue, entryLock, drafts, selections>>

\* issue_selection_guard and the unique revision: next in line, or a conflict.
InsertSelection(e) ==
    LET revision == editor[e].number + 1 IN
    /\ editor[e].pc = "selection"
    /\ Len(selections) < MaxSelections
    /\ selections' = IF revision = Len(selections) + 1 THEN Append(selections, revision)
                     ELSE selections
    /\ Become(e, Idle)
    /\ UNCHANGED <<queue, entryLock, drafts>>

\* A request is lost, and its transaction with it.
Die(e) ==
    /\ editor[e].pc # "idle"
    /\ entryLock' = IF entryLock = e THEN NoEditor ELSE entryLock
    /\ Become(e, Idle)
    /\ UNCHANGED <<queue, drafts, selections>>

Next ==
    \E e \in Editors :
        \/ AskReview(e) \/ CountEntry(e) \/ AppendDecision(e)
        \/ OpenDraft(e) \/ SaveDraft(e) \/ AppendDraft(e)
        \/ ReadSelection(e) \/ InsertSelection(e) \/ Die(e)

Spec == Init /\ [][Next]_vars

-----------------------------------------------------------------------------
(* What the appends promise. *)

\* No draft revision lies over one its author did not see, and the history of
\* a selection has no gap and no fork, whoever saves at once.
EditsInOrder ==
    /\ \A n \in 1..Len(drafts) : drafts[n] = n - 1
    /\ \A n \in 1..Len(selections) : selections[n] = n
=============================================================================
