------------------------------- MODULE Pages -------------------------------
(***************************************************************************)
(* The pages of the dashboard (dal/read.ts) and the queries they are made  *)
(* of (packages/database/src/dashboard.ts, week.ts, roundup.ts), beside    *)
(* the editors who write what they show.  A page is read in several        *)
(* statements, each seeing the store of its own moment; what a person may  *)
(* be shown depends on the capabilities of the role.                       *)
(*                                                                         *)
(* A title is one of a few things it may say; ids are numbers; times are   *)
(* numbers, and a week covers (start, end].                                *)
(***************************************************************************)
EXTENDS Integers, Sequences, FiniteSets, SequencesExt

CONSTANTS
    People, Newcomers, RoleOf,  \* who may sign in, who has no account at first, their roles
    Corpora,                    \* what was imported and clustered
    Sayings,                    \* what a title may say
    QueuePage, TablePage,       \* the bounds of a page
    MaxActs

VARIABLES corpus, titles, store, page, got, acts

pagesVars == <<corpus, titles, store, page, got, acts>>

-----------------------------------------------------------------------------
(* Who may see what.                                                       *)

Sanitized == {"view:command_center", "view:incidents", "view:anomaly", "view:evidence",
              "view:published"}

Editorial == {"view:draft", "view:queue", "view:source_text", "view:notes", "review:queue",
              "review:incidents", "review:evidence", "edit:draft", "select:stories"}

Administers == {"admin:accounts", "admin:sessions", "view:audit"}

Owns == {"generate:roundup", "generate:article", "edit:output", "publish:output"}

Capabilities(role) ==
    Sanitized
    \cup (IF role = "reader" THEN {} ELSE Editorial)
    \cup (IF role = "admin" THEN Administers ELSE {})
    \cup (IF role = "owner" THEN Owns ELSE {})

Holds(who, capability) == capability \in Capabilities(RoleOf[who])

\* The capability a page begins with.
Requires(name) ==
    CASE name = "queue" -> "view:queue"
      [] name \in {"week", "incident"} -> "view:incidents"
      [] name \in {"roundup", "article", "draft"} -> "view:draft"
      [] name = "evidence" -> "view:evidence"
      [] name = "administration" -> "admin:accounts"
      [] name = "generation" -> "generate:roundup"

Hidden == "hidden"

Shown(who, capability, what) == IF Holds(who, capability) THEN what ELSE Hidden

-----------------------------------------------------------------------------
(* The queries.                                                            *)

Prefix(s, n) == SubSeq(s, 1, IF Len(s) < n THEN Len(s) ELSE n)

\* ORDER BY a key of its own for each: the members of S, once each.
InOrderOf(S, key) ==
    CHOOSE s \in [1..Cardinality(S) -> S] :
        ToSet(s) = S /\ \A m, n \in DOMAIN s : m < n => key[s[m]] < key[s[n]]

InOrder(ids) == InOrderOf(ids, [i \in ids |-> i])

\* One page of ids in their order, after the last of the page before.
KeysetPage(ids, after, limit) == Prefix(InOrder({i \in ids : i > after}), limit)

\* Where the next page starts: nowhere when this one is not full.
NextAfter(ids, limit) == IF Len(ids) = limit THEN Last(ids) ELSE 0

\* The queue of a run: the rows it left for review.
ListReviewQueueEntries(after, who, said) ==
    LET rows == KeysetPage(corpus.review, after, QueuePage)
    IN  [n \in DOMAIN rows |-> [row |-> rows[n], title |-> Shown(who, "view:source_text", said[rows[n]])]]

ListIncidentMembers(incident, who, said) ==
    LET rows == InOrder(corpus.members[incident])
    IN  [n \in DOMAIN rows |-> [row |-> rows[n], title |-> Shown(who, "view:source_text", said[rows[n]])]]

\* A dated row is in a week when it was posted in it and seen by its end.
PostedIn(row, week) ==
    /\ row \in corpus.dated
    /\ corpus.posted[row] > week.start /\ corpus.posted[row] <= week.end
    /\ corpus.seen[row] <= week.end

\* Mutant: a row posted as its week began is neither in it nor carried.
SeenLateOnly(row, week) ==
    /\ row \in corpus.dated
    /\ corpus.posted[row] < week.start
    /\ corpus.seen[row] > week.start /\ corpus.seen[row] <= week.end

\* It is carried into a week when it was posted before and first seen in it.
SeenLateIn(row, week) ==
    /\ row \in corpus.dated
    /\ corpus.posted[row] <= week.start
    /\ corpus.seen[row] > week.start /\ corpus.seen[row] <= week.end

InWindow(incident, week) == \E r \in corpus.members[incident] : PostedIn(r, week)

Carried(incident, week) ==
    ~InWindow(incident, week) /\ \E r \in corpus.members[incident] : SeenLateIn(r, week)

PostedTo(incident) ==
    LET times == {corpus.posted[r] : r \in corpus.members[incident] \cap corpus.dated}
    IN  CHOOSE t \in times : \A u \in times : u <= t

Size(incident) == Cardinality(corpus.members[incident])

\* The table's two orders.
Before(sort, a, b) ==
    LET keys(i) == IF sort = "members_desc" THEN <<Size(i), PostedTo(i)>> ELSE <<PostedTo(i), Size(i)>>
    IN  \/ keys(a)[1] > keys(b)[1]
        \/ keys(a)[1] = keys(b)[1] /\ keys(a)[2] > keys(b)[2]
        \/ keys(a) = keys(b) /\ a < b

Representative(incident) == CHOOSE r \in corpus.members[incident] :
    \A o \in corpus.members[incident] : r <= o

Matches(incident, search, said) == search = "none" \/ said[Representative(incident)] = search

\* The table's incidents in its order.
TableOf(incidents, sort) ==
    CHOOSE s \in [1..Cardinality(incidents) -> incidents] :
        ToSet(s) = incidents /\ \A m, n \in DOMAIN s : m < n => Before(sort, s[m], s[n])

ListWeekIncidents(week, search, sort, who, said) ==
    LET shown == {i \in DOMAIN corpus.members :
                    /\ InWindow(i, week) \/ Carried(i, week)
                    /\ Matches(i, search, said)}
        rows == Prefix(TableOf(shown, sort), TablePage)
    IN  [n \in DOMAIN rows |->
            [incident |-> rows[n], inWindow |-> InWindow(rows[n], week), carried |-> Carried(rows[n], week),
             title |-> Shown(who, "view:source_text", said[Representative(rows[n])])]]

\* The latest selection of an incident, if it was ever selected.
Recorded(selections, incident) == {n \in DOMAIN selections : selections[n].incident = incident}

LatestOf(selections, incident) ==
    CHOOSE n \in Recorded(selections, incident) : \A k \in Recorded(selections, incident) : k <= n

ListLatestIssueSelections(selections) ==
    [i \in {selections[n].incident : n \in DOMAIN selections} |-> selections[LatestOf(selections, i)]]

\* The incidents of the latest selections, in the order of those.
ListSelected(selections) ==
    LET latest == ListLatestIssueSelections(selections)
        wanted == {i \in DOMAIN latest : latest[i].state = "selected"}
    IN  InOrderOf(wanted, [i \in wanted |-> LatestOf(selections, i)])

ListOmittedIncidents(selections) ==
    LET latest == ListLatestIssueSelections(selections)
        wanted == {i \in DOMAIN latest : latest[i].state = "unselected" /\ latest[i].noted}
    IN  InOrderOf(wanted, [i \in wanted |-> LatestOf(selections, i)])

\* Every carried incident that is neither selected nor omitted.
ListCarriedIncidents(selections, week) ==
    LET latest == ListLatestIssueSelections(selections)
    IN  {i \in DOMAIN corpus.members :
            /\ Carried(i, week)
            /\ i \in DOMAIN latest => latest[i].state # "selected" /\ ~latest[i].noted}

\* An association and what was last decided of it.
ListAssociationDetails(actions) ==
    [a \in corpus.associations |->
        LET of == {n \in DOMAIN actions : actions[n].association = a}
        IN  IF of = {} THEN [status |-> "suggested", by |-> 0]
            ELSE LET last == CHOOSE n \in of : \A k \in of : k <= n
                 IN  [status |-> actions[last].status, by |-> last]]

-----------------------------------------------------------------------------
(* The pages.  got[read] is the store at the moment of that read.          *)

Reads(name) ==
    CASE name = "queue" -> <<"entries", "decisions", "accounts">>
      [] name = "week" -> <<"week", "children", "incidents", "selections", "accounts">>
      [] name \in {"roundup", "article"} -> <<"week", "revisions", "selected", "accounts", "publication">>
      [] name = "draft" -> <<"generated", "revisions", "accounts">>
      [] name = "evidence" -> <<"states", "associations", "actions">>
      [] name = "administration" -> <<"accounts", "audit">>
      [] name = "incident" -> <<"cluster", "members">>
      [] name = "generation" -> <<"selected", "omitted", "carried">>

\* Who did what a page shows, by the accounts the page read.
NameOf(account) == IF account \in got["accounts"].accounts THEN account ELSE "unknown"

\* The last decision of a row, and its note for those who may read notes.
DecisionDto(decisions, row, who) ==
    LET of == {n \in DOMAIN decisions : decisions[n].row = row}
        latest == decisions[CHOOSE n \in of : \A k \in of : k <= n]
    IN  IF of = {} THEN [by |-> "nobody", note |-> Hidden]
        ELSE [by |-> NameOf(latest.by), note |-> Shown(who, "view:notes", latest.noted)]

ReviewQueue(who, after, said) ==
    LET entries == ListReviewQueueEntries(after, who, said)
        rows == [n \in DOMAIN entries |-> entries[n].row]
    IN  [entries |-> entries,
         decisions |-> [n \in DOMAIN rows |-> DecisionDto(got["decisions"].decisions, rows[n], who)],
         next |-> NextAfter(rows, QueuePage)]

WeekIncidentDto(row, latest, who) ==
    [row |-> row,
     by |-> IF row.incident \in DOMAIN latest THEN NameOf(latest[row.incident].by) ELSE "nobody",
     state |-> IF row.incident \in DOMAIN latest THEN latest[row.incident].state ELSE "none",
     note |-> IF row.incident \in DOMAIN latest
              THEN Shown(who, "view:notes", latest[row.incident].noted) ELSE Hidden]

\* A search is a read of titles: without source text it is refused, whatever
\* it would have found.
WeekTable(who, search, sort, said) ==
    LET rows == ListWeekIncidents(corpus.weeks[corpus.week], search, sort, who, said)
        latest == ListLatestIssueSelections(got["selections"].selections)
    IN  [rows |-> [n \in DOMAIN rows |-> WeekIncidentDto(rows[n], latest, who)],
         canSelect |-> Holds(who, "select:stories")]

RevisionDto(savers) == [n \in DOMAIN savers |-> NameOf(savers[n])]

\* The page of an output, with what its reader may do next.
RoundupView(who) ==
    LET revisions == got["revisions"].revisions["roundup"]
    IN  [revisions |-> RevisionDto(revisions),
         selected |-> Len(ListSelected(got["selected"].selections)),
         canGenerate |-> Holds(who, "generate:roundup") /\ got["week"].completed /\ revisions = <<>>,
         canEdit |-> Holds(who, "edit:output") /\ revisions # <<>>,
         published |-> got["publication"].published["roundup"]]

ArticleView(who) ==
    LET revisions == got["revisions"].revisions["article"]
        may == Holds(who, "generate:article") /\ got["week"].completed /\ revisions = <<>>
    IN  [revisions |-> RevisionDto(revisions),
         selected |-> Len(ListSelected(got["selected"].selections)),
         canGenerate |-> may /\ who \in got["accounts"].readings,
         canEdit |-> Holds(who, "edit:output") /\ revisions # <<>>,
         published |-> got["publication"].published["article"]]

DraftView(who) ==
    [revisions |-> RevisionDto(got["revisions"].revisions["draft"]), canEdit |-> Holds(who, "edit:draft")]

EvidenceView(who) ==
    [associations |-> ListAssociationDetails(got["associations"].actions),
     decisions |-> [n \in DOMAIN got["actions"].actions |-> got["actions"].actions[n].association],
     revision |-> Len(got["actions"].actions),
     canReview |-> Holds(who, "review:evidence")]

Administration ==
    [accounts |-> got["accounts"].accounts,
     audit |-> [n \in DOMAIN got["audit"].audit |-> NameOf(got["audit"].audit[n])]]

IncidentDetail(who, incident, said) ==
    [members |-> ListIncidentMembers(incident, who, said), canReview |-> Holds(who, "review:incidents")]

\* What a round-up is generated from.
GenerationInput ==
    [selected |-> ToSet(ListSelected(got["selected"].selections)),
     omitted |-> ToSet(ListOmittedIncidents(got["omitted"].selections)),
     carried |-> ListCarriedIncidents(got["carried"].selections, corpus.weeks[corpus.week])]

\* The answer of a page whose reads are done, were the titles to say this.
Answer(said) ==
    CASE page.name = "queue" -> ReviewQueue(page.who, page.after, said)
      [] page.name = "week" -> WeekTable(page.who, page.search, page.sort, said)
      [] page.name = "roundup" -> RoundupView(page.who)
      [] page.name = "article" -> ArticleView(page.who)
      [] page.name = "draft" -> DraftView(page.who)
      [] page.name = "evidence" -> EvidenceView(page.who)
      [] page.name = "administration" -> Administration
      [] page.name = "incident" -> IncidentDetail(page.who, page.incident, said)
      [] page.name = "generation" -> GenerationInput

-----------------------------------------------------------------------------
(* The store and the editors.                                              *)

Kinds == {"roundup", "article", "draft"}

Empty ==
    [accounts |-> People \ Newcomers, decisions |-> <<>>, selections |-> <<>>, actions |-> <<>>,
     revisions |-> [k \in Kinds |-> <<>>], published |-> [k \in Kinds |-> 0], readings |-> {},
     clustered |-> FALSE, completed |-> FALSE, audit |-> <<>>]

NoPage == [name |-> "none", who |-> "nobody", after |-> 0, search |-> "none",
           sort |-> "posted_desc", incident |-> 0, at |-> "closed"]

Rows == UNION {corpus.members[i] : i \in DOMAIN corpus.members} \cup corpus.review

Store ==
    [accounts : SUBSET People,
     decisions : Seq([row : corpus.review, by : People, noted : BOOLEAN]),
     selections : Seq([incident : DOMAIN corpus.members, state : {"selected", "unselected"},
                       by : People, noted : BOOLEAN]),
     actions : Seq([association : corpus.associations, status : {"accepted", "rejected"}]),
     revisions : [Kinds -> Seq(People)], published : [Kinds -> Nat], readings : SUBSET People,
     clustered : BOOLEAN, completed : BOOLEAN, audit : Seq(People)]

Names == {"queue", "week", "roundup", "article", "draft", "evidence", "administration",
          "incident", "generation"}

Page == [name : Names \cup {"none"}, who : People \cup {"nobody"}, after : corpus.review \cup {0},
         search : Sayings \cup {"none"}, sort : {"posted_desc", "members_desc"},
         incident : DOMAIN corpus.members \cup {0},
         at : {"closed", "reading", "answered", "refused"}]

TypeOK ==
    /\ corpus \in Corpora
    /\ titles \in [Rows -> Sayings]
    /\ store \in Store
    /\ page \in Page
    /\ page.at = "reading" => DOMAIN got \subseteq ToSet(Reads(page.name))
    /\ \A r \in DOMAIN got : got[r] \in Store
    /\ acts \in 0..MaxActs

Init ==
    /\ corpus \in Corpora
    /\ titles \in [Rows -> Sayings]
    /\ \E done \in BOOLEAN : store = [Empty EXCEPT !.clustered = done, !.completed = done]
    /\ page = NoPage
    /\ got = [r \in {} |-> Empty]
    /\ acts \in 0..MaxActs

Writes(changed) ==
    /\ acts < MaxActs
    /\ acts' = acts + 1
    /\ store' = changed
    /\ UNCHANGED <<corpus, titles, page, got>>

\* An account is made, by an invitation, an approval or a command.
InsertAccount(a) ==
    /\ a \notin store.accounts
    /\ Writes([store EXCEPT !.accounts = @ \cup {a}, !.audit = Append(@, a)])

AppendQueueDecision(a, row, noted) ==
    /\ a \in store.accounts /\ Holds(a, "review:queue")
    /\ Writes([store EXCEPT !.decisions = Append(@, [row |-> row, by |-> a, noted |-> noted]),
                            !.audit = Append(@, a)])

\* A selection is recorded in a completed week.
InsertIssueSelection(a, incident, state, noted) ==
    /\ a \in store.accounts /\ Holds(a, "select:stories")
    /\ store.completed
    /\ Writes([store EXCEPT !.selections =
                    Append(@, [incident |-> incident, state |-> state, by |-> a, noted |-> noted])])

InsertEvidenceAction(a, association, status) ==
    /\ a \in store.accounts /\ Holds(a, "review:evidence")
    /\ Writes([store EXCEPT !.actions = Append(@, [association |-> association, status |-> status])])

\* A draft is edited by editors; an output is generated once its week is
\* complete and edited by the owner.
InsertRevision(a, kind) ==
    /\ a \in store.accounts
    /\ Holds(a, IF kind = "draft" THEN "edit:draft" ELSE "edit:output")
    /\ kind # "draft" => store.completed
    /\ Writes([store EXCEPT !.revisions[kind] = Append(@, a)])

InsertPublication(a, kind) ==
    /\ a \in store.accounts /\ Holds(a, "publish:output") /\ kind # "draft"
    /\ store.revisions[kind] # <<>>
    /\ Writes([store EXCEPT !.published[kind] = Len(store.revisions[kind])])

KeepReading(a) ==
    /\ a \in store.accounts /\ Holds(a, "generate:article") /\ store.completed
    /\ Writes([store EXCEPT !.readings = @ \cup {a}])

InsertWeekRunChild == ~store.clustered /\ Writes([store EXCEPT !.clustered = TRUE])

CompleteWeekRun == store.clustered /\ ~store.completed /\ Writes([store EXCEPT !.completed = TRUE])

\* A page is asked for; without the capability, or with a search it may not
\* make, it is refused before anything is read.
Open(name, who, after, search, sort, incident) ==
    /\ page.at = "closed" /\ who \in store.accounts
    /\ LET refused == ~Holds(who, Requires(name)) \/ (search # "none" /\ ~Holds(who, "view:source_text"))
       IN  page' = [name |-> name, who |-> who, after |-> after, search |-> search, sort |-> sort,
                    incident |-> incident, at |-> IF refused THEN "refused" ELSE "reading"]
    /\ UNCHANGED <<corpus, titles, store, got, acts>>

OpenPage ==
    \E who \in People :
        \/ \E after \in corpus.review \cup {0} : Open("queue", who, after, "none", "posted_desc", 0)
        \/ \E search \in Sayings \cup {"none"}, sort \in {"posted_desc", "members_desc"} :
            Open("week", who, 0, search, sort, 0)
        \/ \E name \in {"roundup", "article", "draft", "evidence", "administration", "generation"} :
            Open(name, who, 0, "none", "posted_desc", 0)
        \/ \E i \in DOMAIN corpus.members : Open("incident", who, 0, "none", "posted_desc", i)

\* A statement of the page; a week that is not clustered has no table, and
\* nothing is generated from a week that is not complete.
Read ==
    /\ page.at = "reading"
    /\ LET reads == Reads(page.name)
           done == Cardinality(DOMAIN got)
           what == reads[done + 1]
           refused == \/ what = "children" /\ ~store.clustered
                      \/ page.name = "generation" /\ ~store.completed
       IN  /\ got' = [r \in {reads[n] : n \in 1..(done + 1)} |-> IF r = what THEN store ELSE got[r]]
           /\ page' = [page EXCEPT !.at = IF refused THEN "refused"
                                          ELSE IF done + 1 = Len(reads) THEN "answered" ELSE @]
    /\ UNCHANGED <<corpus, titles, store, acts>>

Edit ==
    \E a \in People :
        \/ InsertAccount(a)
        \/ \E row \in corpus.review, noted \in BOOLEAN : AppendQueueDecision(a, row, noted)
        \/ \E i \in DOMAIN corpus.members, s \in {"selected", "unselected"}, noted \in BOOLEAN :
            InsertIssueSelection(a, i, s, noted)
        \/ \E association \in corpus.associations, status \in {"accepted", "rejected"} :
            InsertEvidenceAction(a, association, status)
        \/ \E kind \in Kinds : InsertRevision(a, kind) \/ InsertPublication(a, kind)
        \/ KeepReading(a)

Next == Edit \/ InsertWeekRunChild \/ CompleteWeekRun \/ OpenPage \/ Read

Spec == Init /\ [][Next]_pagesVars

-----------------------------------------------------------------------------
\* What someone without source text is answered does not depend on what any
\* title says: not in a field, not in the order of a table and not in what a
\* search finds (dashboard.ts, withText; read.ts, weekTable,
\* search_requires_source_text).
TitlesStayInside ==
    page.at = "answered" /\ ~Holds(page.who, "view:source_text") =>
        \A said \in [Rows -> Sayings] : Answer(said) = Answer(titles)

\* Whoever decided, selected or saved what a page shows is named on it, though
\* accounts are made while it is read (read.ts, the accounts after the rows).
EveryActorIsNamed ==
    page.at = "answered" =>
        LET answer == Answer(titles)
        IN  /\ page.name = "queue" => \A n \in DOMAIN answer.decisions : answer.decisions[n].by # "unknown"
            /\ page.name = "week" => \A n \in DOMAIN answer.rows : answer.rows[n].by # "unknown"
            /\ page.name \in {"roundup", "article", "draft"} =>
                "unknown" \notin ToSet(answer.revisions)

\* Of every association the evidence page shows as decided, it lists the
\* decision, and its revision covers it (read.ts, evidenceView).
DecisionsCover ==
    page.at = "answered" /\ page.name = "evidence" =>
        LET answer == Answer(titles)
        IN  \A a \in DOMAIN answer.associations :
                LET by == answer.associations[a].by
                IN  by # 0 => by <= answer.revision /\ answer.decisions[by] = a

\* Turning the pages of the queue shows each of its rows once, in order: a page
\* begins after the one before it and leaves out no row up to where the next one
\* begins, or up to the end (listReviewQueueEntries, nextAfterRowNumber).
QueueIsWhole ==
    \A after \in corpus.review \cup {0} :
        LET rows == KeysetPage(corpus.review, after, QueuePage)
            next == NextAfter(rows, QueuePage)
        IN  /\ ToSet(rows) = {i \in corpus.review : i > after /\ (next # 0 => i <= next)}
            /\ \A m, n \in DOMAIN rows : m < n => rows[m] < rows[n]
            /\ next # 0 => next > after

\* A dated row first seen in the weeks covered, and posted by their end, belongs
\* to one of them: posted in it, or seen late in it; and a table shows an
\* incident in the weeks of its rows, in the window or carried and never both
\* (week.ts, listWeekIncidents).
EachRowInOneWeek ==
    LET weeks == ToSet(corpus.weeks)
        owns(row, week) == PostedIn(row, week) \/ SeenLateIn(row, week)
        shows(incident, week) == InWindow(incident, week) \/ Carried(incident, week)
    IN  /\ \A row \in corpus.dated :
            /\ \E w \in weeks : corpus.seen[row] > w.start /\ corpus.seen[row] <= w.end
            /\ \E w \in weeks : corpus.posted[row] <= w.end
            => \E w \in weeks : {v \in weeks : owns(row, v)} = {w}
        /\ \A i \in DOMAIN corpus.members, w \in weeks :
            /\ shows(i, w) <=> \E r \in corpus.members[i] : owns(r, w)
            /\ ~(InWindow(i, w) /\ Carried(i, w))

\* A round-up is generated from each carried incident once, selected, omitted
\* or flagged; one that is in two lists or in none had its selection changed
\* while they were read (mutate.ts, generateRoundup).
CarriedOnce ==
    page.at = "answered" /\ page.name = "generation" =>
        LET input == GenerationInput
            unchanged(i) == Recorded(got["selected"].selections, i) = Recorded(got["carried"].selections, i)
        IN  \A i \in DOMAIN corpus.members :
                Carried(i, corpus.weeks[corpus.week]) /\ unchanged(i) =>
                    \E l \in {"selected", "omitted", "carried"} :
                        \A m \in {"selected", "omitted", "carried"} : i \in input[m] <=> m = l
=============================================================================
