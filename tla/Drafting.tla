------------------------------ MODULE Drafting ------------------------------
(***************************************************************************)
(* The draft of a completed evidence run: what is read of the run          *)
(* (apps/worker/src/drafting/build.ts, listDraftIncidents), what the       *)
(* deterministic drafter makes of it (packages/drafting/src), how the two  *)
(* files of a draft are published as a pair (apps/worker/src/drafting/     *)
(* generate.ts) and the preview the tool server gives of one section       *)
(* (packages/mcp-server/src/tools/draft-section.ts).                       *)
(*                                                                         *)
(* Writers publish beside one another, and beside whoever else writes in   *)
(* the directory; a write may fail and a process may end at any step.  A   *)
(* text is what it tells: which claim, and whether a name is in it.        *)
(***************************************************************************)
EXTENDS Integers, Sequences, FiniteSets, SequencesExt

CONSTANTS
    Writers, Names,                 \* commands, and the directories of their drafts
    Corpora,                        \* what a completed evidence run holds: its incidents
    Requests,                       \* requests whose claims propose names or lack sources
    MaxIncidents, MaxClaims, MaxSources, MinSources,    \* the contract's bounds
    PreviewIncidents, PreviewSources                    \* the tool's bounds

VARIABLES
    corpus,
    root,       \* what is at the root of the drafts
    entry,      \* what is at the place of each draft
    staging,    \* each writer's staging directory
    writer,
    first       \* what was published first at each place

draftVars == <<corpus, root, entry, staging, writer, first>>

-----------------------------------------------------------------------------
(* The request.                                                            *)

States == <<"contradicted", "corroborated", "onchain_observed", "reported_only">>

Supports == {"primary_statement", "two_independent_reports", "single_report", "none"}

Sections == <<"incidents", "crypto">>

Prefix(s, n) == SubSeq(s, 1, IF Len(s) < n THEN Len(s) ELSE n)

\* The incidents of the run in the order of their ids, the first of them.
ListDraftIncidents(incidents, limit) ==
    Prefix(SetToSortSeq(incidents, LAMBDA a, b : a.id < b.id), limit)

\* The members of an incident in the order of their rows.
Members(incident) == SetToSortSeq(incident.members, LAMBDA a, b : a.row < b.row)

Titled(member) == member.titled

Shown(members) == {members[n].row : n \in DOMAIN members}

\* A claim of each member with a title, saying what its headline says: nothing
\* is extracted, so no claim proposes a name.
ClaimsOf(members) ==
    LET titled == SelectSeq(members, Titled)
    IN  [n \in DOMAIN titled |->
            [id |-> titled[n].row, sources |-> {titled[n].row}, named |-> FALSE, support |-> "none"]]

\* An incident as it is drafted from the members that are shown of it.
Drafted(incident, members, headline) ==
    [id |-> incident.id, state |-> incident.state, subject |-> incident.subject,
     headline |-> headline, sources |-> Shown(members), claims |-> ClaimsOf(members)]

\* The headline is the first member's, which may have none.
BuildDraftRequest(incidents) ==
    LET rows == ListDraftIncidents(incidents, MaxIncidents)
        headline(members) == members # <<>> /\ members[1].titled
    IN  [n \in DOMAIN rows |-> Drafted(rows[n], Members(rows[n]), headline(Members(rows[n])))]

-----------------------------------------------------------------------------
(* The deterministic drafter.                                              *)

StateRank(state) == CHOOSE n \in DOMAIN States : States[n] = state

\* By state, then the more sources first, then by id.
Precedes(a, b) ==
    \/ StateRank(a.state) < StateRank(b.state)
    \/ /\ a.state = b.state
       /\ \/ Cardinality(a.sources) > Cardinality(b.sources)
          \/ Cardinality(a.sources) = Cardinality(b.sources) /\ a.id < b.id

OrderIncidents(request) == Prefix(SortSeq(request, Precedes), MaxIncidents)

\* Mutant: one report is enough for a name.
WithheldUnreported(claim) == ~claim.named \/ claim.support = "none"

\* A name is printed on a primary statement or two independent reports.
Withheld(claim) ==
    ~claim.named \/ claim.support \notin {"primary_statement", "two_independent_reports"}

\* The claims of an incident: what is recorded of each, and what is printed.
RenderIncident(incident) ==
    LET claims == Prefix(incident.claims, MaxClaims)
        written(c) == Cardinality(c.sources) >= MinSources
        recorded(c) == [claim |-> c.id, incident |-> incident.id, sources |-> c.sources,
                        withheld |-> Withheld(c), written |-> written(c)]
        lines == SelectSeq(claims, written)
        cited == UNION {c.sources : c \in ToSet(claims)}
    IN  [incident |-> incident.id, state |-> incident.state, headline |-> incident.headline,
         provenance |-> [n \in DOMAIN claims |-> recorded(claims[n])],
         lines |-> [n \in DOMAIN lines |->
                        [claim |-> lines[n].id, named |-> lines[n].named /\ ~Withheld(lines[n])]],
         withheld |-> \E c \in ToSet(lines) : c.named /\ Withheld(c),
         sources |-> ToSet(Prefix(SetToSortSeq(cited, <), MaxSources)) \cap incident.sources]

GenerateSection(section, request) ==
    LET wanted == SelectSeq(OrderIncidents(request),
                            LAMBDA i : i.subject = (section = "crypto"))
    IN  [n \in DOMAIN wanted |-> RenderIncident(wanted[n])]

\* The text and the provenance, which counts what is in the text.
GenerateDraft(request) ==
    LET sections == [s \in ToSet(Sections) |-> GenerateSection(s, request)]
        ordered == OrderIncidents(request)
        rendered == sections["incidents"] \o sections["crypto"]
        claims == FlattenSeq([n \in DOMAIN rendered |-> rendered[n].provenance])
        Of(P(_)) == Len(SelectSeq(claims, P))
    IN  [markdown |-> sections,
         provenance |->
            [claims |-> claims,
             assessments |-> [n \in DOMAIN rendered |-> <<rendered[n].incident, rendered[n].state>>],
             incidents |-> Len(ordered),
             written |-> Of(LAMBDA c : c.written),
             omitted |-> Of(LAMBDA c : ~c.written),
             withheld |-> Of(LAMBDA c : c.withheld),
             contradicted |-> Len(SelectSeq(ordered, LAMBDA i : i.state = "contradicted")),
             crypto |-> Len(SelectSeq(ordered, LAMBDA i : i.subject))]]

-----------------------------------------------------------------------------
(* The preview of the tool server: fewer incidents, fewer members of each, *)
(* and the first title there is for a headline.                            *)

PreviewRow(incident) ==
    LET shown == Prefix(Members(incident), PreviewSources)
    IN  Drafted(incident, shown, \E m \in ToSet(shown) : m.titled)

\* The section, and the account of what the bounds left out of it.
DraftSection(section, incidents) ==
    LET rows == ListDraftIncidents(incidents, PreviewIncidents)
        request == [n \in DOMAIN rows |-> PreviewRow(rows[n])]
        shown(n) == Cardinality(request[n].sources)
        omitted(n) == Cardinality(rows[n].members) - shown(n)
    IN  [markdown |-> GenerateDraft(request).markdown[section],
         considered |-> Len(rows),
         sources |-> SumFunction([n \in DOMAIN rows |-> shown(n)]),
         omitted |-> SumFunction([n \in DOMAIN rows |-> omitted(n)]),
         shortened |-> Cardinality({n \in DOMAIN rows : omitted(n) > 0})]

-----------------------------------------------------------------------------
(* The publication of a draft.                                             *)

\* What may be at a place: nothing, what others put there, or a draft.
Entry(kind) == [kind |-> kind, by |-> "others", markdown |-> "absent", sidecar |-> "absent"]

Unstaged == [markdown |-> "absent", sidecar |-> "absent", made |-> FALSE]

Idle == [at |-> "idle", name |-> "none"]

Published(w) ==
    [kind |-> "draft", by |-> w, markdown |-> staging[w].markdown, sidecar |-> staging[w].sidecar]

Drafts == {n \in Names : entry[n].kind = "draft"}

TypeOK ==
    /\ corpus \in Corpora
    /\ root \in {"absent", "directory", "link", "file"}
    /\ \A n \in Names : entry[n].kind \in {"absent", "empty directory", "file", "draft"}
    /\ \A w \in Writers :
        /\ writer[w].at \in {"idle", "root", "look", "stage", "markdown", "sidecar", "rename",
                             "discard", "published", "refused", "crashed"}
        /\ writer[w].name \in Names \cup {"none"}
        /\ {staging[w].markdown, staging[w].sidecar} \subseteq {"absent", "part", "whole"}

Init ==
    /\ corpus \in Corpora
    /\ root \in {"absent", "directory", "link", "file"}
    /\ entry = [n \in Names |-> Entry("absent")]
    /\ staging = [w \in Writers |-> Unstaged]
    /\ writer = [w \in Writers |-> Idle]
    /\ first = [n \in Names |-> Entry("absent")]

At(w, at) == writer[w].at = at

Goes(w, at) == writer' = [writer EXCEPT ![w].at = at]

\* Others put a directory or a file where a draft would go.
Occupy(n, what) ==
    /\ root = "directory" /\ entry[n].kind = "absent"
    /\ entry' = [entry EXCEPT ![n] = Entry(what)]
    /\ UNCHANGED <<corpus, root, staging, writer, first>>

\* The request is read and named; two writers may be given one name.
Build(w, n) ==
    /\ At(w, "idle")
    /\ writer' = [writer EXCEPT ![w] = [at |-> "root", name |-> n]]
    /\ UNCHANGED <<corpus, root, entry, staging, first>>

\* The root is a directory, made if there is none; anything else is refused.
EnsureAuthorisedRoot(w) ==
    /\ At(w, "root")
    /\ root' = IF root = "absent" THEN "directory" ELSE root
    /\ Goes(w, IF root' = "directory" THEN "look" ELSE "refused")
    /\ UNCHANGED <<corpus, entry, staging, first>>

\* Whatever sits at the draft's place already, it is refused.
Look(w) ==
    /\ At(w, "look")
    /\ Goes(w, IF entry[writer[w].name].kind = "absent" THEN "stage" ELSE "refused")
    /\ UNCHANGED <<corpus, root, entry, staging, first>>

Stage(w) ==
    /\ At(w, "stage")
    /\ staging' = [staging EXCEPT ![w].made = TRUE]
    /\ Goes(w, "markdown")
    /\ UNCHANGED <<corpus, root, entry, first>>

\* A file of the staging directory is written in full, or the write fails and
\* leaves a part of it.
WriteExclusive(w, file, next) ==
    /\ At(w, file)
    /\ \/ staging' = [staging EXCEPT ![w][file] = "whole"] /\ Goes(w, next)
       \/ staging' = [staging EXCEPT ![w][file] = "part"] /\ Goes(w, "discard")
    /\ UNCHANGED <<corpus, root, entry, first>>

WriteMarkdown(w) == WriteExclusive(w, "markdown", "sidecar")

WriteSidecar(w) == WriteExclusive(w, "sidecar", "rename")

\* The staging directory takes the draft's place, unless that holds anything
\* but an empty directory by now.
Rename(w) ==
    LET n == writer[w].name
    IN  /\ At(w, "rename")
        /\ IF entry[n].kind \in {"absent", "empty directory"}
           THEN /\ entry' = [entry EXCEPT ![n] = Published(w)]
                /\ first' = [first EXCEPT ![n] = IF @.kind = "absent" THEN Published(w) ELSE @]
                /\ staging' = [staging EXCEPT ![w] = Unstaged]
                /\ Goes(w, "published")
           ELSE Goes(w, "discard") /\ UNCHANGED <<entry, first, staging>>
        /\ UNCHANGED <<corpus, root>>

DiscardStaging(w) ==
    /\ At(w, "discard")
    /\ staging' = [staging EXCEPT ![w] = Unstaged]
    /\ Goes(w, "refused")
    /\ UNCHANGED <<corpus, root, entry, first>>

\* The process ends, by its deadline's grace or otherwise.
Crash(w) ==
    /\ writer[w].at \notin {"idle", "published", "refused", "crashed"}
    /\ Goes(w, "crashed")
    /\ UNCHANGED <<corpus, root, entry, staging, first>>

Publishes(w) ==
    \/ \E n \in Names : Build(w, n)
    \/ EnsureAuthorisedRoot(w) \/ Look(w) \/ Stage(w)
    \/ WriteMarkdown(w) \/ WriteSidecar(w) \/ Rename(w) \/ DiscardStaging(w)
    \/ Crash(w)

Next ==
    \/ \E n \in Names, what \in {"empty directory", "file"} : Occupy(n, what)
    \/ \E w \in Writers : Publishes(w)

Spec == Init /\ [][Next]_draftVars

-----------------------------------------------------------------------------
\* What is published at a place is a whole draft, both its files by one writer,
\* and it is never replaced, whatever failed, ended or was put in the way of it
\* (generate.ts, publishDraft).
PublishedAsAPair ==
    /\ \A n \in Drafts : entry[n].markdown = "whole" /\ entry[n].sidecar = "whole"
    /\ \A n \in Names : first[n].kind = "draft" => entry[n] = first[n]

\* A writer that says it published has its own draft at its place, and one that
\* was refused left no file behind (publishDraft, discardStaging).
OutcomeIsOnDisk ==
    \A w \in Writers :
        /\ At(w, "published") => writer[w].name \in Drafts /\ entry[writer[w].name].by = w
        /\ At(w, "refused") => staging[w] = Unstaged /\ \A n \in Drafts : entry[n].by # w

\* A draft tells every incident of its request once, in one section, and its
\* provenance counts what its sections hold (draft.ts, generateDraft).
EveryIncidentToldOnce ==
    LET request == BuildDraftRequest(corpus)
        draft == GenerateDraft(request)
        told == draft.markdown["incidents"] \o draft.markdown["crypto"]
    IN  /\ Len(told) = Len(request)
        /\ {told[n].incident : n \in DOMAIN told} = {i.id : i \in ToSet(request)}
        /\ draft.provenance.incidents = Len(told)
        /\ draft.provenance.crypto = Len(draft.markdown["crypto"])
        /\ draft.provenance.written = SumFunction([n \in DOMAIN told |-> Len(told[n].lines)])
        /\ draft.provenance.written + draft.provenance.omitted = Len(draft.provenance.claims)

\* A draft does not depend on the order its incidents were given in (draft.ts,
\* orderIncidents).
OrderIndependent ==
    LET request == BuildDraftRequest(corpus)
    IN  GenerateDraft(request) = GenerateDraft(Reverse(request))

\* A name is printed only in a claim whose sourcing permits it, a claim without
\* a source is recorded and not printed, and where a name was withheld the
\* draft says so (contract.ts, naming; draft.ts, renderIncident).
NamesStandOnSourcing ==
    \A request \in Requests, s \in ToSet(Sections) :
        \A told \in ToSet(GenerateSection(s, request)) :
            LET claims == UNION {ToSet(i.claims) : i \in {j \in ToSet(request) : j.id = told.incident}}
                printed == {c \in claims : \E l \in ToSet(told.lines) : l.claim = c.id}
            IN  /\ \A c \in printed : c.sources # {}
                /\ \A l \in ToSet(told.lines) : l.named =>
                    \E c \in printed : c.id = l.claim /\ c.support \in
                        {"primary_statement", "two_independent_reports"}
                /\ told.withheld <=>
                    \E c \in printed : c.named /\ \A l \in ToSet(told.lines) :
                        l.claim = c.id => ~l.named

\* A preview accounts for every member of the incidents it considers, and cites
\* only what it shows (draft-section.ts, draftSection).
PreviewIsAccounted ==
    \A s \in ToSet(Sections) :
        LET preview == DraftSection(s, corpus)
            rows == ListDraftIncidents(corpus, PreviewIncidents)
        IN  /\ preview.sources + preview.omitted =
                   SumFunction([n \in DOMAIN rows |-> Cardinality(rows[n].members)])
            /\ preview.considered <= PreviewIncidents
            /\ \A told \in ToSet(preview.markdown) :
                Cardinality(told.sources) <= PreviewSources
=============================================================================
