----------------------------- MODULE MCReaders -----------------------------
(***************************************************************************)
(* Sign-up, publication with its cards, the request limits and the pages   *)
(* of the dashboard, checked one beside the other: a behaviour picks one   *)
(* of them and takes its steps only, the others staying in their initial   *)
(* states.                                                                 *)
(***************************************************************************)
EXTENDS Signup, Sequences, FiniteSets, TLC

CONSTANTS Revisions, Stories, Accounts, NoRevision, States(_), CardLimit, MaxViews,
          Keys, Limit, Window, MaxKeys, MaxInstant, MaxBurst,
          People, Newcomers, RoleOf, Corpora, Edited, Sayings, QueuePage, TablePage, MaxActs

ASSUME ReadersAssumption ==
    /\ Revisions \subseteq Nat /\ NoRevision \notin Revisions
    /\ NoOne \notin Accounts \cup Stories \cup Handlers
    /\ Limit \in Nat \ {0} /\ Window \in Nat \ {0} /\ MaxKeys \in Nat \ {0}
    /\ MaxInstant \in Nat

\* The weeks covered follow one another; ids are numbers above zero; and nobody
\* is called what a page calls who it does not know.
ASSUME PagesAssumption ==
    /\ Newcomers \subseteq People /\ "unknown" \notin People
    /\ Edited \in Corpora /\ QueuePage \in Nat \ {0} /\ TablePage \in Nat /\ MaxActs \in Nat
    /\ \A c \in Corpora :
        /\ c.review \subseteq Nat \ {0} /\ IsFiniteSet(c.review)
        /\ DOMAIN c.members \subseteq Nat /\ IsFiniteSet(DOMAIN c.members)
        /\ \A r \in c.dated : c.posted[r] \in Int /\ c.seen[r] \in Int
        /\ c.weeks \in Seq([start : Int, end : Int]) /\ c.week \in DOMAIN c.weeks
        /\ \A n \in DOMAIN c.weeks : c.weeks[n].start < c.weeks[n].end
        /\ \A n \in DOMAIN c.weeks : n > 1 => c.weeks[n].start = c.weeks[n - 1].end
        /\ \A m, n \in DOMAIN c.weeks : m < n => c.weeks[m].end <= c.weeks[n].start

VARIABLES part,
          revisions, last, card, views, image, lock, spent, reader, wasted,
          instant, order, bucket, allowed, refused, trips,
          corpus, titles, store, page, got, acts

\* Every generated or edited text still states its stories.
MCStates(n) == Stories

P == INSTANCE Publication WITH handler <- reader
L == INSTANCE Limits WITH now <- instant, MaxTime <- MaxInstant

\* A reader, the owner and an administrator who has no account at first.  Two
\* incidents of three rows in two weeks; in the first corpus the editors act, and
\* the others, which give a row every time of posting and of being seen, are read.
MCPeople == {"reader", "owner", "new"}
MCNewcomers == {"new"}
MCRoleOf == [reader |-> "reader", owner |-> "owner", new |-> "admin"]

MCWeeks == <<[start |-> 0, end |-> 2], [start |-> 2, end |-> 4]>>

MCCorpus(posted, seen, dated) ==
    [review |-> {2, 3}, members |-> <<{1}, {2, 3}>>, dated |-> dated, posted |-> posted,
     seen |-> seen, weeks |-> MCWeeks, week |-> 2, associations |-> {1}]

MCEdited == MCCorpus(<<1, 2, 3>>, <<3, 3, 4>>, 1..3)

MCCorpora ==
    {MCEdited} \cup {MCCorpus(<<1, p, 3>>, <<3, s, 4>>, d) : p, s \in 2..4, d \in {1..2, 1..3}}

MCSayings == {"x", "y"}

G == INSTANCE Pages

pubVars == <<revisions, last, card, views, image, lock, spent, reader, wasted>>
limVars == <<instant, order, bucket, allowed, refused, trips>>
pageVars == <<corpus, titles, store, page, got, acts>>

MCInit ==
    /\ part \in {"signup", "publication", "limits", "pages"}
    /\ Init /\ P!Init /\ L!Init
    /\ G!Init
    /\ \A r \in G!Rows : titles[r] = CHOOSE x \in Sayings : TRUE
    /\ part # "pages" => corpus = Edited /\ acts = 0 /\ store.completed
    /\ part = "pages" => IF corpus = Edited THEN acts = 0 ELSE acts = MaxActs /\ store.completed

\* The table's searches and orders are asked of the corpora that nobody edits.
PlainTable == corpus = Edited => page.search = "none" /\ page.sort = "posted_desc"

MCNext ==
    /\ UNCHANGED part
    /\ \/ part = "signup" /\ Next /\ UNCHANGED <<pubVars, limVars, pageVars>>
       \/ part = "publication" /\ P!Next /\ UNCHANGED <<vars, limVars, pageVars>>
       \/ part = "limits" /\ L!Next /\ UNCHANGED <<vars, pubVars, pageVars>>
       \/ part = "pages" /\ G!Next /\ UNCHANGED <<vars, pubVars, limVars>>

MCSpec == MCInit /\ [][MCNext]_<<part, vars, pubVars, limVars, pageVars>>

\* The steps of the run.
RunSpec == MCInit /\ [][MCNext /\ PlainTable']_<<part, vars, pubVars, limVars, pageVars>>

\* Every request for access is well formed, and what was decided of it is what
\* its address was told (Signup).
RequestsSound == TypeOK /\ SignupSound

\* What a page, a card or an image shows was the published text at some
\* moment of its request, and the limit of an account is spent on a new card
\* or on nothing (publishedOutput, cardPage, cardImage, makeCard).
PublicationSound == P!TypeOK /\ P!ServedWasPublished /\ P!NothingSpentInVain

\* No page tells a title to someone without source text; a page names who did what
\* it shows, lists the decisions behind it and leaves out no row, and every dated
\* row and every carried incident has its place in one week and one list (read.ts,
\* listWeekIncidents, generateRoundup).
PagesSound ==
    /\ G!TypeOK
    /\ G!TitlesStayInside /\ G!EveryActorIsNamed /\ G!DecisionsCover /\ G!CarriedOnce
    /\ part = "pages" => G!QueueIsWhole /\ G!EachRowInOneWeek

\* A tracked key passes at most twice its limit in a stretch as long as a
\* window, its refusals are reported once a window, and the keys tracked are
\* bounded in number (WindowLimiter).
LimitsHold == L!TypeOK /\ L!BoundedRate /\ L!OneTripPerWindow

\* Ids of a kind are interchangeable.
Symmetry == Permutations(Requests) \cup Permutations(Handlers) \cup Permutations(Accounts)
=============================================================================
