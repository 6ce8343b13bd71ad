----------------------------- MODULE Generation -----------------------------
(***************************************************************************)
(* The round-up: one generation per week and category by a paid model, and *)
(* the owner's edits (generateRoundup, withGenerationLock and              *)
(* saveRoundupRevision of apps/dashboard/src/server/dal/mutate.ts,         *)
(* packages/roundup/src/generate.ts and cost.ts, packages/database/src/    *)
(* roundup.ts, migration 0015, and the client of server/model).            *)
(*                                                                         *)
(* A request checks that nothing was generated, tries the generation lock, *)
(* checks again, reads the month's spend, refuses what could cross the     *)
(* cap, calls the model, writes the ledger row in a transaction of its own *)
(* and then both revisions in another.  Other requests, edits, the end of  *)
(* a month and the model step in between; an answer that the model billed  *)
(* may be lost, and a request may die at any point with its lock.          *)
(*                                                                         *)
(* The ledger is kept as what the code reads of it: the month's sum and,   *)
(* for the properties, the number of `completed` rows of an output.        *)
(***************************************************************************)
EXTENDS Integers, Sequences

CONSTANTS
    Outputs,        \* a week run's round-up for one category
    Requests,       \* generation requests running at once
    Editors,        \* edit requests running at once
    NoOne,          \* no request, no output
    Cap,            \* MONTHLY_CAP_MICRODOLLARS, in units of cost
    Estimates,      \* the worst-case costs a prompt may be given
    Retries,        \* the client's maxRetries
    MaxRevisions,   \* MAX_DRAFT_REVISIONS
    Months,         \* bound: the months the clock passes, 1..n
    MaxBilled       \* bound: what the model bills in one month

ASSUME GenerationAssumption ==
    /\ NoOne \notin Requests \cup Outputs
    /\ Cap \in Nat
    /\ Estimates \subseteq Nat
    /\ Retries \in Nat
    /\ MaxRevisions \in Nat \ {0}
    /\ Months \subseteq Nat
    /\ 1 \in Months
    /\ MaxBilled \in Nat

VARIABLES
    month,      \* the UTC month
    rev,        \* roundup_revisions: revision n of an output at index n + 1
    spent,      \* model_calls: the sum of the costs of a month's rows
    kept,       \* model_calls: how many `completed` rows an output has
    lock,       \* the generation lock
    req,        \* the generation requests
    edit,       \* the edit requests and the pages they come from
    billed      \* what the model has billed in a month

vars == <<month, rev, spent, kept, lock, req, edit, billed>>

-----------------------------------------------------------------------------
History == INSTANCE OutputHistory WITH history <- rev

Revision == [kind : {"deterministic", "generated", "edited"}, base : Nat]

Idle == [pc |-> "idle", output |-> NoOne, month |-> 1, worst |-> 0, cost |-> 0,
         tries |-> 0, ok |-> FALSE]

Holding == {"check", "cap", "call", "wait", "billed", "ledger", "persist"}

RequestRow == [pc : {"idle", "claim"} \cup Holding, output : Outputs \cup {NoOne},
               month : Months, worst : Nat, cost : Nat, tries : 0..Retries, ok : BOOLEAN]

PageRow == [pc : {"idle", "page", "insert"}, output : Outputs \cup {NoOne}, base : Nat]

NoPage == [pc |-> "idle", output |-> NoOne, base |-> 0]

TypeOK ==
    /\ month \in Months
    /\ rev \in [Outputs -> Seq(Revision)]
    /\ \A o \in Outputs : Len(rev[o]) <= MaxRevisions + 1
    /\ spent \in [Months -> Nat]
    /\ kept \in [Outputs -> Nat]
    /\ lock \in Requests \cup {NoOne}
    /\ req \in [Requests -> RequestRow]
    /\ edit \in [Editors -> PageRow]
    /\ billed \in [Months -> Nat]

Init ==
    /\ month = 1
    /\ rev = [o \in Outputs |-> <<>>]
    /\ spent = [m \in Months |-> 0]
    /\ kept = [o \in Outputs |-> 0]
    /\ lock = NoOne
    /\ req = [r \in Requests |-> Idle]
    /\ edit = [e \in Editors |-> NoPage]
    /\ billed = [m \in Months |-> 0]

NotGenerated(o) == rev[o] = <<>>

\* latestRoundupRevision.
Latest(o) == Len(rev[o]) - 1

-----------------------------------------------------------------------------
(* generateRoundup. *)

\* Mutant: an exit leaves the lock behind.
ReleaseKeepsLock(r) ==
    /\ lock' = lock
    /\ req' = [req EXCEPT ![r] = Idle]

\* Every exit under the lock: unlock and answer.
Release(r) ==
    /\ lock' = NoOne
    /\ req' = [req EXCEPT ![r] = Idle]

\* The owner asks; a round-up that exists is refused, the selection is read.
Begin(r, o) ==
    /\ req[r].pc = "idle"
    /\ NotGenerated(o)
    /\ req' = [req EXCEPT ![r].pc = "claim", ![r].output = o]
    /\ UNCHANGED <<month, rev, spent, kept, lock, edit, billed>>

\* Mutant: the lock's answer is not looked at.
LockIgnored == TRUE

LockFree == lock = NoOne

\* pg_try_advisory_lock: a lock that is held refuses the request at once.
Claim(r) ==
    /\ req[r].pc = "claim"
    /\ \/ /\ LockFree
          /\ lock' = r
          /\ req' = [req EXCEPT ![r].pc = "check"]
       \/ /\ ~LockFree
          /\ lock' = lock
          /\ req' = [req EXCEPT ![r] = Idle]
    /\ UNCHANGED <<month, rev, spent, kept, edit, billed>>

\* assertNotGenerated again, under the lock.
Check(r) ==
    /\ req[r].pc = "check"
    /\ \/ /\ NotGenerated(req[r].output)
          /\ req' = [req EXCEPT ![r].pc = "cap"]
          /\ lock' = lock
       \/ /\ ~NotGenerated(req[r].output)
          /\ Release(r)
    /\ UNCHANGED <<month, rev, spent, kept, edit, billed>>

\* Mutant: the spend so far is compared without the request's own estimate.
WouldExceedCapLate(m, worst) == spent[m] > Cap

WouldExceedCap(m, worst) == spent[m] + worst > Cap

\* The month's spend is read and the worst case compared with what is left; a
\* refusal (of the cap, the template or a missing key) is a row that costs
\* nothing.
CheckCap(r) ==
    /\ req[r].pc = "cap"
    /\ \/ \E worst \in Estimates :
             /\ ~WouldExceedCap(month, worst)
             /\ req' = [req EXCEPT ![r].pc = "call", ![r].month = month, ![r].worst = worst]
             /\ lock' = lock
       \/ Release(r)
    /\ UNCHANGED <<month, rev, spent, kept, edit, billed>>

\* The one request of the generation leaves.
Call(r) ==
    /\ req[r].pc = "call"
    /\ req' = [req EXCEPT ![r].pc = "wait"]
    /\ UNCHANGED <<month, rev, spent, kept, lock, edit, billed>>

\* The model answers and bills, at most the estimate (external).
ModelBills(r) ==
    /\ req[r].pc = "wait"
    /\ \E cost \in 1..req[r].worst :
          /\ billed[month] + cost <= MaxBilled
          /\ billed' = [billed EXCEPT ![month] = @ + cost]
          /\ req' = [req EXCEPT ![r].pc = "billed", ![r].cost = cost]
    /\ UNCHANGED <<month, rev, spent, kept, lock, edit>>

\* Mutant: a kept answer goes to the revisions past the ledger.
AnswerUnrecorded(r) ==
    /\ req[r].pc = "billed"
    /\ \E ok \in BOOLEAN :
          req' = [req EXCEPT ![r].pc = IF ok THEN "persist" ELSE "ledger", ![r].ok = ok]
    /\ UNCHANGED <<month, rev, spent, kept, lock, edit, billed>>

\* The answer arrives and is kept, or is rejected with its cost.
Answer(r) ==
    /\ req[r].pc = "billed"
    /\ \E ok \in BOOLEAN : req' = [req EXCEPT ![r].pc = "ledger", ![r].ok = ok]
    /\ UNCHANGED <<month, rev, spent, kept, lock, edit, billed>>

\* No answer comes within the client's timeout, billed or not: it asks again.
Retry(r) ==
    /\ req[r].pc \in {"wait", "billed"}
    /\ req[r].tries < Retries
    /\ req' = [req EXCEPT ![r].pc = "wait", ![r].tries = @ + 1, ![r].cost = 0]
    /\ UNCHANGED <<month, rev, spent, kept, lock, edit, billed>>

\* The client gives up: model_failed, at a cost nobody told it.
GiveUp(r) ==
    /\ req[r].pc \in {"wait", "billed"}
    /\ req' = [req EXCEPT ![r].pc = "ledger", ![r].cost = 0]
    /\ UNCHANGED <<month, rev, spent, kept, lock, edit, billed>>

\* The ledger row, in its own transaction, dated when it is written; anything
\* but `completed` ends the request.
Ledger(r) ==
    /\ req[r].pc = "ledger"
    /\ spent' = [spent EXCEPT ![month] = @ + req[r].cost]
    /\ \/ /\ req[r].ok
          /\ kept' = [kept EXCEPT ![req[r].output] = @ + 1]
          /\ req' = [req EXCEPT ![r].pc = "persist"]
          /\ lock' = lock
       \/ /\ ~req[r].ok
          /\ kept' = kept
          /\ Release(r)
    /\ UNCHANGED <<month, rev, edit, billed>>

\* Revisions 0 and 1 in one transaction; migration 0015 admits revision 0 only
\* as the first, so revisions already there roll it back.
Persist(r) ==
    /\ req[r].pc = "persist"
    /\ rev' = [rev EXCEPT ![req[r].output] =
                  IF @ = <<>> THEN <<History!Deterministic, History!Generated>> ELSE @]
    /\ Release(r)
    /\ UNCHANGED <<month, spent, kept, edit, billed>>

\* A statement fails, or the process dies and its connection's lock with it;
\* what the model has billed stays billed.
Die(r) ==
    /\ req[r].pc \in Holding
    /\ Release(r)
    /\ UNCHANGED <<month, rev, spent, kept, edit, billed>>

-----------------------------------------------------------------------------
(* saveRoundupRevision. *)

\* The editor's page shows the latest revision.
OpenPage(e, o) ==
    /\ edit[e].pc = "idle"
    /\ ~NotGenerated(o)
    /\ edit' = [edit EXCEPT ![e] = [pc |-> "page", output |-> o, base |-> Latest(o)]]
    /\ UNCHANGED <<month, rev, spent, kept, lock, req, billed>>

\* Mutant: the number of revisions has no limit.
MayReviseForever(o) == TRUE

MayRevise(o) == Latest(o) < MaxRevisions

\* Its submission is refused at the limit, or when the page is behind.
Save(e) ==
    /\ edit[e].pc = "page"
    /\ edit' = [edit EXCEPT ![e] =
                   IF MayRevise(@.output) /\ @.base = Latest(@.output)
                   THEN [@ EXCEPT !.pc = "insert"] ELSE NoPage]
    /\ UNCHANGED <<month, rev, spent, kept, lock, req, billed>>

\* Mutant: the number is taken from the table, not from what was read.
FollowsAnything(e) == TRUE

\* The trigger and the primary key: the new revision follows the last one.
Follows(e) == edit[e].base = Latest(edit[e].output)

\* The insert, in its own transaction, or a conflict.
InsertEdit(e) ==
    /\ edit[e].pc = "insert"
    /\ \/ /\ Follows(e)
          /\ rev' = [rev EXCEPT ![edit[e].output] = Append(@, History!Edited(edit[e].base))]
       \/ /\ ~Follows(e)
          /\ rev' = rev
    /\ edit' = [edit EXCEPT ![e] = NoPage]
    /\ UNCHANGED <<month, spent, kept, lock, req, billed>>

-----------------------------------------------------------------------------
MonthEnds ==
    /\ month + 1 \in Months
    /\ month' = month + 1
    /\ UNCHANGED <<rev, spent, kept, lock, req, edit, billed>>

Handle(r) ==
    \/ Claim(r) \/ Check(r) \/ CheckCap(r) \/ Call(r)
    \/ Answer(r) \/ GiveUp(r) \/ Ledger(r) \/ Persist(r)

Generate(r) ==
    \/ \E o \in Outputs : Begin(r, o)
    \/ Handle(r)
    \/ ModelBills(r) \/ Retry(r) \/ Die(r)

Revise(e) ==
    \/ \E o \in Outputs : OpenPage(e, o)
    \/ Save(e)
    \/ InsertEdit(e)

Next ==
    \/ \E r \in Requests : Generate(r)
    \/ \E e \in Editors : Revise(e)
    \/ MonthEnds

Spec == Init /\ [][Next]_vars

\* A handler's own steps go on, and the client's timeout bounds a call.
FairSpec == Spec /\ \A r \in Requests : WF_vars(Handle(r))

-----------------------------------------------------------------------------
(* Properties. *)

\* Two submissions never pay twice at once: one request at a time is past the
\* lock, whatever dies, retries or is refused (withGenerationLock).
OneCallInFlight ==
    \A r, s \in Requests : req[r].pc \in Holding /\ req[s].pc \in Holding => r = s

\* The ledger of a month never passes the cap, also when a call that was
\* checked in one month is recorded in the next (wouldExceedCap, spendBetween).
LedgerWithinCap == \A m \in Months : spent[m] <= Cap

\* Generated text is never on record without the completed call that paid for
\* it: persistence may fail after the ledger, never the other way round.
RevisionsOnLedger == \A o \in Outputs : rev[o] # <<>> => kept[o] > 0

\* The revisions are generated once and whole and then only lengthened, every
\* edit from the revision it follows: no edit is lost under another.
ImplementsHistory == History!Spec

\* The generation lock is always given back, so the next generation is never
\* refused for good.
LockGivenBack == []<>(lock = NoOne)

\* The comment of worstCaseMicrodollars, `a run can never be the one that
\* crosses the month`: what the model bills in a month stays within the cap.
BilledWithinCap == \A m \in Months : billed[m] <= Cap
=============================================================================
