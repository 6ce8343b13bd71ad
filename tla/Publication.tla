----------------------------- MODULE Publication -----------------------------
(***************************************************************************)
(* What readers and the public see of one output: publishOutput,           *)
(* unpublishOutput and publishedOutput (apps/dashboard/src/server/dal/     *)
(* readers.ts) over output_publications, and the story cards made from it: *)
(* makeCard, cardPage and cardImage (dal/cards.ts) over story_cards and    *)
(* story_card_images.                                                      *)
(*                                                                         *)
(* A publication is a record, numbered in the order of the insertions; the *)
(* last one decides what is seen, and no operation reads an earlier one.   *)
(* The text of a revision is the revision itself, for a revision never     *)
(* changes: what a page or an image shows is the revision whose text it    *)
(* was made from.  A story read holds one snapshot; what it found is used  *)
(* after it, when the output may have been edited, published again or      *)
(* taken off.  The limit on pages and images of a network source only      *)
(* refuses.                                                                *)
(***************************************************************************)
EXTENDS Integers, FiniteSets

CONSTANTS
    Revisions,     \* revision numbers an output may reach, 0 first
    Stories,       \* its entries, under each a card at most
    Accounts,
    Handlers,      \* requests running at once
    NoOne,         \* no account, no story, no handler
    NoRevision,
    States(_),     \* the stories a revision's text states, of those it still holds
    CardLimit,     \* CARDS_PER_ACCOUNT, the window not ending meanwhile
    MaxViews       \* bound: views of a card

VARIABLES
    revisions,  \* how many revisions the output has
    last,       \* output_publications, the record of the greatest seq
    card,       \* story_cards: the account that made it
    views,      \* story_cards.views
    image,      \* story_card_images: the revision an image shows
    lock,       \* pg_advisory_xact_lock of a story
    spent,      \* the window limiter's count of an account, up to the first refusal
    handler,
    wasted      \* history: the limit was spent and no card made

vars == <<revisions, last, card, views, image, lock, spent, handler, wasted>>

-----------------------------------------------------------------------------
Record == [revision : Revisions \cup {NoRevision}, action : {"publish", "unpublish"}]

Idle == [pc |-> "idle", story |-> NoOne, account |-> NoOne, revision |-> NoRevision,
         shows |-> NoRevision, seen |-> {}]

HandlerRow == [pc : {"idle", "unpublish", "page", "text", "resolve", "lock", "insert", "store",
                     "view", "image", "render", "count", "served"},
               story : Stories \cup {NoOne}, account : Accounts \cup {NoOne},
               revision : Revisions \cup {NoRevision}, shows : Revisions \cup {NoRevision},
               seen : SUBSET Revisions]

\* Every state is well formed; the records name revisions that exist, and
\* images belong to cards.
TypeOK ==
    /\ revisions \in Nat
    /\ last \in Record
    /\ card \in [Stories -> Accounts \cup {NoOne}]
    /\ views \in [Stories -> Nat]
    /\ image \in [Stories \X Revisions -> Revisions \cup {NoRevision}]
    /\ lock \in [Stories -> Handlers \cup {NoOne}]
    /\ spent \in [Accounts -> Nat]
    /\ handler \in [Handlers -> HandlerRow]
    /\ wasted \in BOOLEAN
    /\ last.revision # NoRevision => last.revision < revisions
    /\ \A s \in Stories, n \in Revisions : image[<<s, n>>] # NoRevision => card[s] # NoOne

Init ==
    /\ revisions = 0
    /\ last = [revision |-> NoRevision, action |-> "unpublish"]
    /\ card = [s \in Stories |-> NoOne]
    /\ views = [s \in Stories |-> 0]
    /\ image = [k \in Stories \X Revisions |-> NoRevision]
    /\ lock = [s \in Stories |-> NoOne]
    /\ spent = [a \in Accounts |-> 0]
    /\ handler = [h \in Handlers |-> Idle]
    /\ wasted = FALSE

\* The revision readers see (currentPublication), or none.
Current == IF last.action = "publish" THEN last.revision ELSE NoRevision

\* What is published as a request arrives, and later: a history of it.
Shown == {Current} \ {NoRevision}

Become(h, new) == handler' = [handler EXCEPT ![h] = new]

Step(h, pc) == Become(h, [handler[h] EXCEPT !.pc = pc])

-----------------------------------------------------------------------------
(* The output and its publication. *)

\* A generation writes revisions 0 and 1, an edit one more.
Revise ==
    /\ revisions < Cardinality(Revisions)
    /\ revisions' = IF revisions = 0 THEN 2 ELSE revisions + 1
    /\ UNCHANGED <<last, card, views, image, lock, spent, handler, wasted>>

\* The trigger output_publication_guard: the revision exists.
MayPublish(n) == n < revisions

\* publishOutput.
Publish(n) ==
    /\ MayPublish(n)
    /\ last' = [revision |-> n, action |-> "publish"]
    /\ handler' = [h \in Handlers |->
                     IF handler[h].pc = "idle" THEN Idle
                     ELSE [handler[h] EXCEPT !.seen = @ \cup {n}]]
    /\ UNCHANGED <<revisions, card, views, image, lock, spent, wasted>>

\* unpublishOutput reads what is current, and writes about it afterwards.
ReadForUnpublish(h) ==
    /\ handler[h].pc = "idle"
    /\ Current # NoRevision
    /\ Become(h, [Idle EXCEPT !.pc = "unpublish", !.revision = Current])
    /\ UNCHANGED <<revisions, last, card, views, image, lock, spent, wasted>>

Unpublish(h) ==
    /\ handler[h].pc = "unpublish"
    /\ last' = [revision |-> handler[h].revision, action |-> "unpublish"]
    /\ Become(h, Idle)
    /\ UNCHANGED <<revisions, card, views, image, lock, spent, wasted>>

-----------------------------------------------------------------------------
(* publishedOutput: the current record, then the revision's text. *)

OpenPage(h) ==
    /\ handler[h].pc = "idle"
    /\ Become(h, [Idle EXCEPT !.pc = "page", !.seen = Shown])
    /\ UNCHANGED <<revisions, last, card, views, image, lock, spent, wasted>>

ReadCurrent(h) ==
    /\ handler[h].pc = "page"
    /\ Become(h, IF Current = NoRevision THEN Idle
                 ELSE [handler[h] EXCEPT !.pc = "text", !.revision = Current])
    /\ UNCHANGED <<revisions, last, card, views, image, lock, spent, wasted>>

\* revisions.find: the text of the revision the mark names.
Text(n) == n

ReadText(h) ==
    /\ handler[h].pc = "text"
    /\ Become(h, [handler[h] EXCEPT !.pc = "served", !.shows = Text(handler[h].revision)])
    /\ UNCHANGED <<revisions, last, card, views, image, lock, spent, wasted>>

-----------------------------------------------------------------------------
(* makeCard. *)

\* resolveStoryOn, in one snapshot: the current revision, when its text
\* states the story.  Revision 0 is the deterministic one.
Resolved(s) ==
    IF Current # NoRevision /\ Current # 0 /\ s \in States(Current) THEN Current
    ELSE NoRevision

AskForCard(h, s, a) ==
    /\ handler[h].pc = "idle"
    /\ Resolved(s) # NoRevision
    /\ Become(h, [Idle EXCEPT !.pc = "lock", !.story = s, !.account = a,
                              !.revision = Resolved(s), !.seen = Shown])
    /\ UNCHANGED <<revisions, last, card, views, image, lock, spent, wasted>>

\* lockStoryCard grants one transaction at a time.
LockFree(s) == lock[s] = NoOne

\* findStoryCard.
Made(h) == card[handler[h].story] # NoOne

\* Under the lock: a card already made is returned; a new one spends the
\* account's limit, or is refused by it.
DecideCard(h) ==
    LET s == handler[h].story
        a == handler[h].account
    IN
    /\ handler[h].pc = "lock"
    /\ LockFree(s)
    /\ IF Made(h)
         THEN Become(h, Idle) /\ UNCHANGED <<lock, spent>>
         ELSE /\ spent' = [spent EXCEPT ![a] = IF @ > CardLimit THEN @ ELSE @ + 1]
              /\ IF spent[a] >= CardLimit
                   THEN Become(h, Idle) /\ UNCHANGED lock
                   ELSE Step(h, "insert") /\ lock' = [lock EXCEPT ![s] = h]
    /\ UNCHANGED <<revisions, last, card, views, image, wasted>>

\* insertStoryCard and COMMIT: ON CONFLICT the card already there.
InsertCard(h) ==
    LET s == handler[h].story IN
    /\ handler[h].pc = "insert"
    /\ IF card[s] = NoOne
         THEN /\ card' = [card EXCEPT ![s] = handler[h].account]
              /\ Become(h, [handler[h] EXCEPT !.pc = "store", !.shows = handler[h].revision])
              /\ UNCHANGED wasted
         ELSE /\ wasted' = TRUE
              /\ Become(h, Idle)
              /\ UNCHANGED card
    /\ lock' = [lock EXCEPT ![s] = NoOne]
    /\ UNCHANGED <<revisions, last, views, image, spent>>

-----------------------------------------------------------------------------
(* cardPage and cardImage. *)

\* storeImage: the key is the revision of the read that was rendered.
StoreKey(h) == handler[h].revision

\* insertStoryCardImage, ON CONFLICT DO NOTHING: at the end of makeCard, or
\* before the image route answers.
StoreImage(h) ==
    LET k == <<handler[h].story, StoreKey(h)>> IN
    /\ handler[h].pc \in {"store", "render"}
    /\ image' = IF image[k] = NoRevision THEN [image EXCEPT ![k] = handler[h].shows] ELSE image
    /\ IF handler[h].pc = "store" THEN Become(h, Idle) ELSE Step(h, "served")
    /\ UNCHANGED <<revisions, last, card, views, lock, spent, wasted>>

OpenCard(h, s) ==
    /\ handler[h].pc = "idle"
    /\ card[s] # NoOne
    /\ \E pc \in {"view", "image"} :
          Become(h, [Idle EXCEPT !.pc = pc, !.story = s, !.seen = Shown])
    /\ UNCHANGED <<revisions, last, card, views, image, lock, spent, wasted>>

\* Mutant: whatever image the card has.
CachedAny(s, n) ==
    LET some == {m \in Revisions : image[<<s, m>>] # NoRevision} IN
    IF some = {} THEN NoRevision ELSE image[<<s, CHOOSE m \in some : TRUE>>]

\* getStoryCardImage.
Cached(s, n) == image[<<s, n>>]

\* publicCard, one snapshot: the story resolved again, with the image stored
\* for the revision it found; a card whose story is gone answers not found.
ReadCard(h) ==
    LET s == handler[h].story
        n == Resolved(s)
        seen == [handler[h] EXCEPT !.revision = n, !.shows = n]
    IN
    /\ handler[h].pc \in {"view", "image"}
    /\ Become(h, IF n = NoRevision THEN Idle
                 ELSE IF handler[h].pc = "view" THEN [seen EXCEPT !.pc = "count"]
                 ELSE IF Cached(s, n) = NoRevision THEN [seen EXCEPT !.pc = "render"]
                 ELSE [seen EXCEPT !.pc = "served", !.shows = Cached(s, n)])
    /\ UNCHANGED <<revisions, last, card, views, image, lock, spent, wasted>>

\* countStoryCardView, then the page.
CountView(h) ==
    LET s == handler[h].story IN
    /\ handler[h].pc = "count"
    /\ views[s] < MaxViews
    /\ views' = [views EXCEPT ![s] = @ + 1]
    /\ Step(h, "served")
    /\ UNCHANGED <<revisions, last, card, image, lock, spent, wasted>>

\* The answer is sent.
Answer(h) ==
    /\ handler[h].pc = "served"
    /\ Become(h, Idle)
    /\ UNCHANGED <<revisions, last, card, views, image, lock, spent, wasted>>

\* A request dies, or fails: its transaction is rolled back and its lock is
\* gone.  What the limiter counted in memory stays; an image may be missing.
Die(h) ==
    /\ handler[h].pc \notin {"idle", "served"}
    /\ lock' = [s \in Stories |-> IF lock[s] = h THEN NoOne ELSE lock[s]]
    /\ Become(h, Idle)
    /\ UNCHANGED <<revisions, last, card, views, image, spent, wasted>>

Next ==
    \/ Revise
    \/ \E n \in Revisions : Publish(n)
    \/ \E h \in Handlers :
          \/ ReadForUnpublish(h) \/ Unpublish(h)
          \/ OpenPage(h) \/ ReadCurrent(h) \/ ReadText(h)
          \/ \E s \in Stories : OpenCard(h, s) \/ \E a \in Accounts : AskForCard(h, s, a)
          \/ DecideCard(h) \/ InsertCard(h) \/ StoreImage(h)
          \/ ReadCard(h) \/ CountView(h) \/ Answer(h) \/ Die(h)

Spec == Init /\ [][Next]_vars

-----------------------------------------------------------------------------
(* What the published pages and cards promise. *)

\* What a page, a card or an image shows is the text of a revision that was
\* the published one at some moment of the request: never text the owner has
\* corrected away or taken off before the request arrived, whatever edits,
\* publications and renderings run beside it.
ServedWasPublished ==
    \A h \in Handlers :
        handler[h].pc = "served" => handler[h].shows \in handler[h].seen

\* The limit of an account is spent on a new card or on nothing: a request
\* that finds, or loses to, another's card of the same story spends none of
\* it (makeCard, "the combined audit's F2").
NothingSpentInVain == ~wasted
=============================================================================
