------------------------------- MODULE Article -------------------------------
(***************************************************************************)
(* The article of one week and category: readArticleSources,               *)
(* generateArticle and saveArticleRevision (apps/dashboard/src/server/dal/ *)
(* mutate.ts), the readings held in memory between the two (dal/           *)
(* readings.ts), packages/article/src/generate.ts, packages/database/src/  *)
(* article.ts and migration 0016.                                          *)
(*                                                                         *)
(* The owner has the selected sources read, looks at the reading, and      *)
(* confirms it by its identifier; the text is written from that reading.   *)
(* The selection, the readings and the article change while a request is   *)
(* under way, and the readings are gone when the process restarts.  The    *)
(* lock, the cap and the ledger are those of Generation under a key of     *)
(* their own: here a call is completed, refused or failed.                 *)
(***************************************************************************)
EXTENDS Integers, Sequences

CONSTANTS
    Rows,           \* source rows
    Selections,     \* bound: the sets of rows that are selected
    Accounts,
    Handlers,       \* requests running at once
    NoOne,          \* no account, no handler
    Life,           \* READING_TTL_MS, in ticks
    MaxRevisions,   \* MAX_DRAFT_REVISIONS
    MaxReadings,    \* bound: readings made
    MaxTime         \* bound: the clock stops here

ASSUME ArticleAssumption ==
    /\ NoOne \notin Accounts
    /\ Selections \subseteq SUBSET Rows
    /\ Life \in Nat /\ MaxReadings \in Nat /\ MaxTime \in Nat
    /\ MaxRevisions \in Nat \ {0}

VARIABLES
    now,
    selection,  \* the rows selected for the week and category
    reading,    \* ReadingCache.entries: the sources by identifier, in order of creation
    issued,     \* how many readings were made; their identifiers are 1..issued
    article,    \* article_revisions
    paid,       \* model_calls has a completed row of the article
    lock,       \* the article generation lock
    handler

vars == <<now, selection, reading, issued, article, paid, lock, handler>>

-----------------------------------------------------------------------------
Readings == 1..MaxReadings

Gone == [account |-> NoOne, rows |-> {}, made |-> 0]

ReadingEntry == [account : Accounts \cup {NoOne}, rows : SUBSET Rows, made : Nat]

\* The reading a text was written from, and by whom, when and for which
\* selection it was confirmed.
Source == [entry : ReadingEntry, by : Accounts \cup {NoOne}, at : Nat, rows : SUBSET Rows]

NoSource == [entry |-> Gone, by |-> NoOne, at |-> 0, rows |-> {}]

Revision == [kind : {"generated", "edited"}, base : Nat, source : Source]

Idle == [pc |-> "idle", account |-> NoOne, rows |-> {}, id |-> 0, base |-> 0, source |-> NoSource]

Holding == {"recheck", "prepare", "call", "persist"}

HandlerRow == [pc : {"idle", "fetch", "found", "confirm", "claim", "drop", "page", "insert"}
                       \cup Holding,
               account : Accounts \cup {NoOne}, rows : SUBSET Rows, id : Nat, base : Nat,
               source : Source]

\* Every state is well formed; the first revision is generated, the others are
\* edited (migration 0016), and an account has one reading at a time.
TypeOK ==
    /\ now \in Nat
    /\ selection \in SUBSET Rows
    /\ reading \in [Readings -> ReadingEntry]
    /\ issued \in 0..MaxReadings
    /\ article \in Seq(Revision)
    /\ Len(article) <= MaxRevisions
    /\ paid \in BOOLEAN
    /\ lock \in Handlers \cup {NoOne}
    /\ handler \in [Handlers -> HandlerRow]
    /\ \A n \in 1..Len(article) : article[n].kind = IF n = 1 THEN "generated" ELSE "edited"
    /\ \A i, j \in Readings :
          reading[i].account # NoOne /\ reading[i].account = reading[j].account => i = j

Init ==
    /\ now = 0
    /\ selection = {}
    /\ reading = [i \in Readings |-> Gone]
    /\ issued = 0
    /\ article = <<>>
    /\ paid = FALSE
    /\ lock = NoOne
    /\ handler = [h \in Handlers |-> Idle]

Become(h, new) == handler' = [handler EXCEPT ![h] = new]

Step(h, pc) == Become(h, [handler[h] EXCEPT !.pc = pc])

\* Mutant: a reading lives one instant longer.
SweptLate == [i \in Readings |-> IF reading[i].made + Life < now THEN Gone ELSE reading[i]]

\* sweep: what has expired is dropped before the cache is used.
Swept == [i \in Readings |-> IF reading[i].made + Life <= now THEN Gone ELSE reading[i]]

-----------------------------------------------------------------------------
(* readArticleSources. *)

\* articleSelection and the check that nothing was written.
AskForReading(h, a) ==
    /\ handler[h].pc = "idle"
    /\ selection # {}
    /\ article = <<>>
    /\ Become(h, [Idle EXCEPT !.pc = "fetch", !.account = a, !.rows = selection])
    /\ UNCHANGED <<now, selection, reading, issued, article, paid, lock>>

\* readSources has answered for each row; put replaces the account's reading.
HoldReading(h) ==
    LET a == handler[h].account IN
    /\ handler[h].pc = "fetch"
    /\ issued < MaxReadings
    /\ issued' = issued + 1
    /\ reading' = [i \in Readings |->
                     IF i = issued + 1
                       THEN [account |-> a, rows |-> handler[h].rows, made |-> now]
                     ELSE IF Swept[i].account = a THEN Gone
                     ELSE Swept[i]]
    /\ Become(h, Idle)
    /\ UNCHANGED <<now, selection, article, paid, lock>>

-----------------------------------------------------------------------------
(* generateArticle. *)

AskForArticle(h, a, id) ==
    /\ handler[h].pc = "idle"
    /\ selection # {}
    /\ id <= issued
    /\ Become(h, [Idle EXCEPT !.pc = "found", !.account = a, !.rows = selection, !.id = id])
    /\ UNCHANGED <<now, selection, reading, issued, article, paid, lock>>

\* assertNotGenerated, before the lock.
NotGenerated(h) ==
    /\ handler[h].pc = "found"
    /\ IF article = <<>> THEN Step(h, "confirm") ELSE Become(h, Idle)
    /\ UNCHANGED <<now, selection, reading, issued, article, paid, lock>>

\* The outcomes are those of the selected rows, neither more nor fewer.
Covers(entry, rows) == entry.rows = rows

\* The reading is there, is the account's own and is not stale; else it is
\* refused.  From here on the request has the entry, whatever the cache does.
Confirm(h) ==
    LET entry == Swept[handler[h].id]
        fits == /\ entry.account = handler[h].account
                /\ Covers(entry, handler[h].rows)
    IN
    /\ handler[h].pc = "confirm"
    /\ reading' = Swept
    /\ Become(h, IF fits
                   THEN [Idle EXCEPT !.pc = "claim", !.id = handler[h].id,
                           !.source = [entry |-> entry, by |-> handler[h].account,
                                       at |-> now, rows |-> handler[h].rows]]
                   ELSE Idle)
    /\ UNCHANGED <<now, selection, issued, article, paid, lock>>

\* withGenerationLock tries, and refuses when another holds it.
Claim(h) ==
    /\ handler[h].pc = "claim"
    /\ IF lock = NoOne
         THEN lock' = h /\ Step(h, "recheck")
         ELSE UNCHANGED lock /\ Become(h, Idle)
    /\ UNCHANGED <<now, selection, reading, issued, article, paid>>

Recheck(h) ==
    /\ handler[h].pc = "recheck"
    /\ IF article = <<>>
         THEN Step(h, "prepare") /\ UNCHANGED lock
         ELSE Become(h, Idle) /\ lock' = NoOne
    /\ UNCHANGED <<now, selection, reading, issued, article, paid>>

\* prepareArticle, the key and the cap: refused with a ledger row, or asked.
Prepare(h) ==
    /\ handler[h].pc = "prepare"
    /\ \/ Step(h, "call") /\ UNCHANGED lock
       \/ Become(h, Idle) /\ lock' = NoOne
    /\ UNCHANGED <<now, selection, reading, issued, article, paid>>

\* The answer stands, or is refused, invalid or lost; the ledger records it.
Answer(h) ==
    /\ handler[h].pc = "call"
    /\ \/ /\ paid' = TRUE
          /\ Step(h, "persist")
          /\ UNCHANGED lock
       \/ /\ Become(h, Idle)
          /\ lock' = NoOne
          /\ UNCHANGED paid
    /\ UNCHANGED <<now, selection, reading, issued, article>>

\* insertArticleRevision under article_revision_guard, and the unlock.
Persist(h) ==
    /\ handler[h].pc = "persist"
    /\ IF article = <<>>
         THEN /\ article' = <<[kind |-> "generated", base |-> 0, source |-> handler[h].source]>>
              /\ Become(h, [Idle EXCEPT !.pc = "drop", !.id = handler[h].id])
         ELSE /\ UNCHANGED article
              /\ Become(h, Idle)
    /\ lock' = NoOne
    /\ UNCHANGED <<now, selection, reading, issued, paid>>

\* readings.delete.
DropReading(h) ==
    /\ handler[h].pc = "drop"
    /\ reading' = [reading EXCEPT ![handler[h].id] = Gone]
    /\ Become(h, Idle)
    /\ UNCHANGED <<now, selection, issued, article, paid, lock>>

-----------------------------------------------------------------------------
(* saveArticleRevision. *)

OpenPage(h) ==
    /\ handler[h].pc = "idle"
    /\ article # <<>>
    /\ Become(h, [Idle EXCEPT !.pc = "page", !.base = Len(article)])
    /\ UNCHANGED <<now, selection, reading, issued, article, paid, lock>>

\* The newest revision is read, and must be the one the page was made from.
Save(h) ==
    /\ handler[h].pc = "page"
    /\ IF Len(article) < MaxRevisions /\ handler[h].base = Len(article)
         THEN Step(h, "insert")
         ELSE Become(h, Idle)
    /\ UNCHANGED <<now, selection, reading, issued, article, paid, lock>>

\* article_revision_guard: the revision after the last one.
Follows(n) == n = Len(article)

InsertEdit(h) ==
    /\ handler[h].pc = "insert"
    /\ IF Follows(handler[h].base) /\ Len(article) < MaxRevisions
         THEN article' = Append(article, [kind |-> "edited", base |-> handler[h].base,
                                          source |-> NoSource])
         ELSE UNCHANGED article
    /\ Become(h, Idle)
    /\ UNCHANGED <<now, selection, reading, issued, paid, lock>>

-----------------------------------------------------------------------------
\* A request is lost, with its connection and its lock.
Die(h) ==
    /\ handler[h].pc # "idle"
    /\ lock' = IF lock = h THEN NoOne ELSE lock
    /\ Become(h, Idle)
    /\ UNCHANGED <<now, selection, reading, issued, article, paid>>

\* The process restarts: the readings were its memory.
Restart ==
    /\ \E i \in Readings : reading[i] # Gone
    /\ reading' = [i \in Readings |-> Gone]
    /\ lock' = NoOne
    /\ handler' = [h \in Handlers |-> Idle]
    /\ UNCHANGED <<now, selection, issued, article, paid>>

\* selectStory, on another page.
Select(rows) ==
    /\ rows # selection
    /\ selection' = rows
    /\ UNCHANGED <<now, reading, issued, article, paid, lock, handler>>

Tick ==
    /\ now < MaxTime
    /\ now' = now + 1
    /\ UNCHANGED <<selection, reading, issued, article, paid, lock, handler>>

Next ==
    \/ \E h \in Handlers :
          \/ \E a \in Accounts :
                AskForReading(h, a) \/ \E id \in Readings : AskForArticle(h, a, id)
          \/ HoldReading(h) \/ NotGenerated(h) \/ Confirm(h) \/ Claim(h) \/ Recheck(h)
          \/ Prepare(h) \/ Answer(h) \/ Persist(h) \/ DropReading(h)
          \/ OpenPage(h) \/ Save(h) \/ InsertEdit(h) \/ Die(h)
    \/ Restart
    \/ \E rows \in Selections : Select(rows)
    \/ Tick

Spec == Init /\ [][Next]_vars

-----------------------------------------------------------------------------
(* What the article promises. *)

\* The text was written from a reading of the account that asked for it, not
\* expired when it was confirmed, of exactly the rows the selection held when
\* the request arrived, and after a completed, recorded call:
\* whatever was read, selected and lost in between (generateArticle).
WrittenFromReading ==
    article # <<>> =>
        LET s == article[1].source IN
        /\ s.entry.account = s.by
        /\ s.at < s.entry.made + Life
        /\ s.entry.rows = s.rows
        /\ paid

\* No edit lies over one its author did not see (saveArticleRevision).
EditsFollow == \A n \in 2..Len(article) : article[n].base = n - 1
=============================================================================
