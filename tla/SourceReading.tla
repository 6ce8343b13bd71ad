---------------------------- MODULE SourceReading ----------------------------
(***************************************************************************)
(* The reading of the sources of a selection for an article                *)
(* (packages/source-reader: readSources with its Reader, checkTarget,      *)
(* robots.txt and readBounded).  A few readers take the sources in their   *)
(* order; each URL is fetched once, whoever comes to it first, and the     *)
(* others wait for the same answer; a fetch asks the robots.txt of an      *)
(* origin once and follows redirects, each checked as the first was.  When *)
(* every reader is done the outcomes are bounded together, in the order of *)
(* the selection.                                                          *)
(*                                                                         *)
(* A step ends where the code awaits: a resolver, a robots.txt, a page, or *)
(* the outcome of a URL.  A text is its number of characters.              *)
(***************************************************************************)
EXTENDS Integers, Sequences, FiniteSets

CONSTANTS
    Sources,          \* the selection: a sequence of [row, url]
    Readers,          \* limits.concurrency of them
    Urls,
    Origin,           \* url -> the scheme and host whose robots.txt covers it
    Https,            \* the URLs of that scheme
    RefusedUrls,      \* the URLs the reference policy, or the rule on ports, refuses
    Pages,            \* what a request for a page may come to
    Permissions,      \* what a robots.txt may come to
    RedirectLimit, BodyBytes, CharsPerSource, CharsPerReading, StageTimeout,
    Nowhere,          \* a redirect without a location
    MaxTime           \* bound: the clock

VARIABLES
    time,
    next,             \* the index of the next source nobody took
    reader,           \* the readers: free, waiting for the outcome of a source, or over
    fetch,            \* byUrl: the fetch of each URL of the selection
    robots,           \* Reader.robots: what is known of each origin
    results,          \* the outcome of each source, in any order
    reading           \* what readSources returns; empty until it does

readingVars == <<time, next, reader, fetch, robots, results, reading>>

-----------------------------------------------------------------------------
Indices == DOMAIN Sources
Selected == {Sources[i].url : i \in Indices}
Origins == {Origin[u] : u \in Urls}

Outcome(row, status, code, chars) ==
    [row |-> row, status |-> status, code |-> code, chars |-> chars]

Unread(row, code) == Outcome(row, "not_read", code, 0)

NoOutcome == Outcome(0, "none", "none", 0)

NoFetch == [at |-> "none", row |-> 0, current |-> Nowhere, hop |-> 0, outcome |-> NoOutcome]

NotAsked == [kind |-> "unasked", rules |-> {}]
BeingAsked == [kind |-> "asked", rules |-> {}]

TypeOK ==
    /\ time \in 0..MaxTime
    /\ next \in Nat \ {0}
    /\ \A r \in Readers : reader[r].at \in {"free", "waiting", "over"}
    /\ \A u \in Selected : fetch[u].at \in {"none", "target", "robots", "page", "done"}
    /\ robots \in [Origins -> {NotAsked, BeingAsked} \cup Permissions]
    /\ DOMAIN results = Indices
    /\ reading = <<>> \/ DOMAIN reading = Indices

Init ==
    /\ time = 0
    /\ next = 1
    /\ reader = [r \in Readers |-> [at |-> "free", index |-> 0]]
    /\ fetch = [u \in Selected |-> NoFetch]
    /\ robots = [o \in Origins |-> NotAsked]
    /\ results = [i \in Indices |-> NoOutcome]
    /\ reading = <<>>

Ended(f, outcome) == [f EXCEPT !.at = "done", !.outcome = outcome]
Failed(f, code) == Ended(f, Unread(f.row, code))

\* classifySourceReference: the scheme, the user information and the host of a URL.
Rejected(url) == url \in RefusedUrls

\* checkTarget, up to the resolver.
Toward(f, url) ==
    IF Rejected(url) THEN Failed(f, "refused") ELSE [f EXCEPT !.at = "target", !.current = url]

\* readOne, up to its first await: the deadline of the stage is read here alone.
Begun(source) ==
    LET f == [NoFetch EXCEPT !.row = source.row]
    IN  IF time >= StageTimeout THEN Failed(f, "stage_timeout") ELSE Toward(f, source.url)

\* A reader takes the next source, and fetches its URL if nobody does.
Take(r) ==
    /\ reader[r].at = "free"
    /\ next' = next + 1
    /\ IF next \notin Indices
         THEN /\ reader' = [reader EXCEPT ![r].at = "over"]
              /\ UNCHANGED fetch
         ELSE /\ reader' = [reader EXCEPT ![r] = [at |-> "waiting", index |-> next]]
              /\ fetch' = IF fetch[Sources[next].url].at = "none"
                            THEN [fetch EXCEPT ![Sources[next].url] = Begun(Sources[next])]
                            ELSE fetch
    /\ UNCHANGED <<time, robots, results, reading>>

Go(u, f) == fetch' = [fetch EXCEPT ![u] = f]

\* The resolver answers: an address that is refused, or none, ends the fetch;
\* otherwise the robots.txt of the origin is asked for, once.
Resolve(u) ==
    /\ fetch[u].at = "target"
    /\ \/ Go(u, Failed(fetch[u], "unresolved")) /\ UNCHANGED robots
       \/ /\ Go(u, [fetch[u] EXCEPT !.at = "robots"])
          /\ robots' = IF robots[Origin[fetch[u].current]] = NotAsked
                         THEN [robots EXCEPT ![Origin[fetch[u].current]] = BeingAsked]
                         ELSE robots
    /\ UNCHANGED <<time, next, reader, results, reading>>

\* fetchRobots: the rules of the reader's group, no file, or one that cannot be read.
RobotsAnswered(o) ==
    /\ robots[o] = BeingAsked
    /\ \E p \in Permissions : robots' = [robots EXCEPT ![o] = p]
    /\ UNCHANGED <<time, next, reader, fetch, results, reading>>

\* robotsAllows: of the rules whose pattern is the path's the longest decides, and
\* of two as long the one that allows.
Allows(permission, url) ==
    LET matching == {rule \in permission.rules : url \in rule.paths}
        longest == {rule \in matching : \A other \in matching : other.length <= rule.length}
    IN  matching # {} => \E rule \in longest : rule.allow

Permit(u) ==
    LET permission == robots[Origin[fetch[u].current]] IN
    /\ fetch[u].at = "robots"
    /\ permission \in Permissions
    /\ Go(u, IF permission.kind = "unavailable" THEN Failed(fetch[u], "robots_unavailable")
             ELSE IF ~Allows(permission, fetch[u].current) THEN Failed(fetch[u], "robots_disallowed")
             ELSE [fetch[u] EXCEPT !.at = "page"])
    /\ UNCHANGED <<time, next, reader, robots, results, reading>>

\* A redirect is followed to what would have been fetched had it been selected,
\* a few times, and never from https to http.
Redirected(f, to) ==
    IF to = Nowhere THEN Failed(f, "redirect_refused")
    ELSE IF f.hop >= RedirectLimit THEN Failed(f, "redirect_limit")
    ELSE IF Rejected(to) THEN Failed(f, "refused")
    ELSE IF f.current \in Https /\ to \notin Https THEN Failed(f, "redirect_downgrade")
    ELSE Toward([f EXCEPT !.hop = @ + 1], to)

\* declaredLength, before a byte is read: a length that is no number, or over
\* the bound, ends the fetch.  A length below it is not trusted.
DeclaredTooLong(page) == page.declared > BodyBytes

\* readBounded: the body is cut past the bound, and whole at it.
Cut(page) == page.size > BodyBytes

\* htmlToText, or the lines of a plain text: of what was kept of the body.
Extracted(page) == page.chars

\* cutAtParagraph: at the limit, or at a paragraph before it.
Kept(page) == IF Extracted(page) <= CharsPerSource THEN {Extracted(page)} ELSE 1..CharsPerSource

Completeness(page, chars) ==
    IF Cut(page) THEN "body_limit" ELSE IF chars < Extracted(page) THEN "text_limit" ELSE "none"

ReadAs(f, page, chars) ==
    LET code == Completeness(page, chars)
    IN  Ended(f, Outcome(f.row, IF code = "none" THEN "read" ELSE "partly_read", code, chars))

Answer(u) ==
    /\ fetch[u].at = "page"
    /\ \E page \in Pages :
        \/ page.kind = "redirect" /\ Go(u, Redirected(fetch[u], page.to))
        \/ page.kind = "failed" /\ Go(u, Failed(fetch[u], page.code))
        \/ page.kind = "page" /\ DeclaredTooLong(page) /\ Go(u, Failed(fetch[u], "body_limit"))
        \/ /\ page.kind = "page" /\ ~DeclaredTooLong(page)
           /\ \E chars \in Kept(page) : Go(u, ReadAs(fetch[u], page, chars))
    /\ UNCHANGED <<time, next, reader, robots, results, reading>>

\* A source of a URL that another fetched has the outcome as its own.
Deliver(r) ==
    LET i == reader[r].index IN
    /\ reader[r].at = "waiting"
    /\ fetch[Sources[i].url].at = "done"
    /\ results' = [results EXCEPT ![i] = [fetch[Sources[i].url].outcome EXCEPT !.row = Sources[i].row]]
    /\ reader' = [reader EXCEPT ![r].at = "free"]
    /\ UNCHANGED <<time, next, fetch, robots, reading>>

\* The characters kept of the sources up to the nth: a source that would pass
\* the bound is left out, and a later one that fits is not.
KeptUpTo(outcomes) ==
    LET sum[n \in {0} \cup Indices] ==
            IF n = 0 THEN 0
            ELSE IF sum[n - 1] + outcomes[n].chars > CharsPerReading THEN sum[n - 1]
            ELSE sum[n - 1] + outcomes[n].chars
    IN  sum

Fits(outcomes, n) == KeptUpTo(outcomes)[n - 1] + outcomes[n].chars <= CharsPerReading

Return ==
    /\ \A r \in Readers : reader[r].at = "over"
    /\ reading = <<>>
    /\ reading' = [n \in Indices |->
            IF results[n].status # "not_read" /\ ~Fits(results, n)
              THEN Unread(results[n].row, "text_limit")
              ELSE results[n]]
    /\ UNCHANGED <<time, next, reader, fetch, robots, results>>

Tick ==
    /\ time < MaxTime
    /\ time' = time + 1
    /\ UNCHANGED <<next, reader, fetch, robots, results, reading>>

Next ==
    \/ \E r \in Readers : Take(r) \/ Deliver(r)
    \/ \E u \in Selected : Resolve(u) \/ Permit(u) \/ Answer(u)
    \/ \E o \in Origins : RobotsAnswered(o)
    \/ Return \/ Tick

Spec == Init /\ [][Next]_readingVars

-----------------------------------------------------------------------------
\* A reading has one outcome for each source, in the order of the selection and
\* under its own row; sources of one URL have the outcome of its one fetch, but
\* for the bound on the reading.
ReadingIsTheSelections ==
    reading # <<>> =>
        \A i \in Indices :
            /\ reading[i].row = Sources[i].row
            /\ \/ reading[i] = Unread(Sources[i].row, "text_limit")
               \/ reading[i] = [fetch[Sources[i].url].outcome EXCEPT !.row = Sources[i].row]
            /\ reading[i].status # "none"

\* The owner's first selections are read first: what is left out for the bound
\* would have passed it after what stands before it, whichever was fetched
\* first, and all that is kept fits.
FirstSelectionsFirst ==
    reading # <<>> =>
        LET before(n) == KeptUpTo(reading)[n]
        IN  /\ \A i \in Indices :
                reading[i] = Unread(Sources[i].row, "text_limit") =>
                    before(i - 1) + fetch[Sources[i].url].outcome.chars > CharsPerReading
            /\ \A i \in Indices : before(i) = before(i - 1) + reading[i].chars

\* At most as many fetches as readers are under way, each with a reader that
\* waits for it: none is left behind when the reading ends.
FetchesAreAwaited ==
    /\ Cardinality({u \in Selected : fetch[u].at \notin {"none", "done"}}) <= Cardinality(Readers)
    /\ \A u \in Selected : fetch[u].at \notin {"none", "done"} =>
        \E r \in Readers : reader[r].at = "waiting" /\ Sources[reader[r].index].url = u

\* Wherever redirects lead, a page is asked for, and read, only where the
\* robots.txt of its own origin was read and allows it, after a bounded number
\* of hops, and over https if it was selected so.
AskedAsAllowed ==
    \A u \in Selected :
        fetch[u].at = "page" \/ fetch[u].outcome.status \in {"read", "partly_read"} =>
            /\ fetch[u].current \notin RefusedUrls
            /\ robots[Origin[fetch[u].current]].kind \in {"none", "rules"}
            /\ Allows(robots[Origin[fetch[u].current]], fetch[u].current)
            /\ fetch[u].hop <= RedirectLimit
            /\ u \in Https => fetch[u].current \in Https
=============================================================================
