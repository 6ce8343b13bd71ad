------------------------------ MODULE Anomaly -------------------------------
(***************************************************************************)
(* The anomaly feed (packages/evidence/src/anomaly.ts): the newest         *)
(* observation of each target against the observations before it, the      *)
(* newest reporting window against the windows before it, and the bounded  *)
(* list a reader sees, strongest first.                                    *)
(*                                                                         *)
(* Movements are whole per cents and instants whole intervals.  A median   *)
(* is kept doubled and a deviation from it fourfold, so every comparison   *)
(* is between integers; 1.4826 is Scale over Unit.                         *)
(***************************************************************************)
EXTENDS Integers, Sequences, SequencesExt

CONSTANTS
    Inputs,                     \* what a feed is asked of: series, windows, now
    Interval, Freshness,        \* observationIntervalHours, freshnessLimitHours
    MinBaseline, Deviations,    \* minimumBaselineObservations, thresholdDeviations
    Floor,                      \* minimumAbsoluteDeltaPercent
    MaxPerTarget, MaxFeed,      \* maximumObservationsPerTarget, maximumFeedEntries
    MinWindows, WindowDeviations, StoriesPerIncident

VARIABLES asked, told

anomalyVars == <<asked, told>>

Scale == 14826
Unit == 10000

\* multiSourceConcentrationThreshold, as a fraction.
Concentration == <<1, 4>>

Rank == [positive_spike |-> 0, negative_spike |-> 1, stale_observation |-> 2,
         missing_observation |-> 3, insufficient_history |-> 4, normal |-> 5]

Spikes == {"positive_spike", "negative_spike"}

Size(n) == IF n < 0 THEN -n ELSE n

-----------------------------------------------------------------------------
\* median, doubled; nothing has the median zero.
Doubled(values) ==
    LET s == SortSeq(values, <)
        n == Len(s)
    IN IF n = 0 THEN 0 ELSE s[(n + 1) \div 2] + s[n \div 2 + 1]

\* baselineOf by the median absolute deviation, the method of the contract.
Baseline(values) ==
    LET centre == Doubled(values) IN
    [centre |-> centre,
     spread |-> Doubled([n \in DOMAIN values |-> Size(2 * values[n] - centre)])]

\* distance, doubled, of a value from a centre.
Distance(value, centre) == Size(2 * value - centre)

\* Whether a distance lies below so many deviations.
Within(distance, spread, deviations) == 2 * Unit * distance < Scale * deviations * spread

\* labelFor, the answer normal: below the floor, or near a baseline that moved.
Normal(delta, baseline) ==
    \/ Size(delta) < Floor
    \/ Distance(delta, baseline.centre) < 2 * Floor
    \/ Within(Distance(delta, baseline.centre), baseline.spread, Deviations)

LabelFor(delta, baseline) ==
    CASE Normal(delta, baseline) -> "normal"
      [] ~Normal(delta, baseline) /\ delta >= 0 -> "positive_spike"
      [] OTHER -> "negative_spike"

-----------------------------------------------------------------------------
\* The observations in the order of their instants, as many as are read.
Ordered(observations) ==
    LET s == SortSeq(observations, LAMBDA a, b : a.at < b.at)
        n == Len(s)
    IN SubSeq(s, IF n > MaxPerTarget THEN n - MaxPerTarget + 1 ELSE 1, n)

HasGap(s) == \E n \in 2..Len(s) : s[n].at - s[n - 1].at > 2 * Interval

Deltas(s) == [n \in DOMAIN s |-> s[n].delta]

Entry(type, label, subject, reason) ==
    [type |-> type, label |-> label, subject |-> subject, reason |-> reason]

\* chainAnomalies: why nothing can be said of a series, in this order, or its label.
ChainEntry(target, now) ==
    LET s == Ordered(target.observations)
        history == SubSeq(s, 1, Len(s) - 1)
        baseline == Baseline(Deltas(history))
        is(label, reason) == Entry("chain", label, target.id, reason)
    IN CASE s = <<>> -> is("missing_observation", "observation_missing")
         [] s # <<>> /\ now - Last(s).at > Freshness -> is("stale_observation", "observation_stale")
         [] s # <<>> /\ now - Last(s).at <= Freshness /\ Len(history) < MinBaseline ->
                is("insufficient_history", "insufficient_history")
         [] s # <<>> /\ now - Last(s).at <= Freshness /\ Len(history) >= MinBaseline /\ HasGap(s) ->
                is("missing_observation", "observation_missing")
         [] OTHER -> is(LabelFor(Last(s).delta, baseline),
                        IF baseline.spread = 0 THEN "zero_baseline" ELSE "")

ChainEntries(series, now) ==
    LET s == SortSeq(series, LAMBDA a, b : a.id < b.id)
    IN [n \in DOMAIN s |-> ChainEntry(s[n], now)]

-----------------------------------------------------------------------------
(* reportingAnomalies. *)

\* The volume of the newest window; a window has no floor.
Volume(stories, counts) ==
    LET baseline == Baseline(counts)
        far == ~Within(Distance(stories, baseline.centre), baseline.spread, WindowDeviations)
               /\ Unit * 2 * Distance(stories, baseline.centre)
                    # Scale * WindowDeviations * baseline.spread
        reason == IF baseline.spread = 0 THEN "zero_baseline" ELSE ""
    IN CASE far /\ 2 * stories > baseline.centre -> Entry("reporting", "positive_spike", 1, reason)
         [] far /\ 2 * stories < baseline.centre -> Entry("reporting", "negative_spike", 1, reason)
         [] OTHER -> Entry("reporting", "normal", 1, reason)

\* Many stories of few incidents, or many incidents told by several.
Concentrated(w) ==
    /\ w.incidents > 0
    /\ \/ w.stories >= StoriesPerIncident * w.incidents
       \/ w.multi * Concentration[2] >= Concentration[1] * w.incidents

WindowEntries(windows) ==
    LET s == SortSeq(windows, LAMBDA a, b : a.at < b.at)
        history == SubSeq(s, 1, Len(s) - 1)
    IN CASE s = <<>> -> <<>>
         [] s # <<>> /\ Len(history) < MinWindows ->
                <<Entry("reporting", "insufficient_history", 1, "insufficient_history")>>
         [] OTHER ->
                << Volume(Last(s).stories, [n \in DOMAIN history |-> history[n].stories]),
                   Entry("reporting", IF Concentrated(Last(s)) THEN "positive_spike" ELSE "normal",
                         2, IF Last(s).incidents = 0 THEN "zero_baseline" ELSE "") >>

-----------------------------------------------------------------------------
\* The order of a feed: kind, then strength, then subject.
Precedes(a, b) ==
    \/ a.type = "chain" /\ b.type = "reporting"
    \/ a.type = b.type /\ Rank[a.label] < Rank[b.label]
    \/ a.type = b.type /\ a.label = b.label /\ a.subject < b.subject

\* anomalyFeed.
Feed(q) ==
    LET all == SortSeq(ChainEntries(q.series, q.now) \o WindowEntries(q.windows), Precedes)
        entries == SubSeq(all, 1, IF Len(all) < MaxFeed THEN Len(all) ELSE MaxFeed)
    IN [entries |-> entries, cut |-> Len(all) - Len(entries)]

\* The tool server's stored entries: the chain's, cut in the order of targets.
StoredEntries(q) ==
    LET all == ChainEntries(q.series, q.now)
    IN SubSeq(all, 1, IF Len(all) < MaxFeed THEN Len(all) ELSE MaxFeed)

NotTold == [entries |-> <<>>, cut |-> -1]

Init ==
    /\ asked \in Inputs
    /\ told = NotTold

Tell ==
    /\ told = NotTold
    /\ told' = Feed(asked)
    /\ UNCHANGED asked

Next == Tell

Spec == Init /\ [][Next]_anomalyVars

-----------------------------------------------------------------------------
(* What the feed promises, said of the input alone. *)

Of(id) == CHOOSE n \in DOMAIN asked.series : asked.series[n].id = id

ObservationsOf(id) == asked.series[Of(id)].observations

\* The observation at the latest instant; instants of a target are distinct.
NewestOf(s) == CHOOSE n \in DOMAIN s : \A m \in DOMAIN s : s[m].at <= s[n].at

Values(s) == {[n |-> n, delta |-> s[n].delta] : n \in DOMAIN s \ {NewestOf(s)}}

\* A centre: twice a value, or the sum of two, with half of the values on each side.
CentreOf(values) ==
    CHOOSE c \in {v.delta + w.delta : v, w \in values} :
        /\ 2 * Cardinality({v \in values : 2 * v.delta <= c}) >= Cardinality(values)
        /\ 2 * Cardinality({v \in values : 2 * v.delta >= c}) >= Cardinality(values)

TypeOK ==
    /\ told.cut >= -1
    /\ \A n \in DOMAIN told.entries : told.entries[n].label \in DOMAIN Rank

\* A movement is called a spike only on evidence that is there: a newest
\* observation that is fresh and past the floor, enough before it without a
\* gap, and half of those nearer to their centre than it is; however flat they
\* were (chainAnomalies, labelFor).
SpikesHaveEvidence ==
    \A n \in DOMAIN told.entries :
        LET e == told.entries[n]
            s == ObservationsOf(e.subject)
            newest == s[NewestOf(s)]
            values == Values(s)
        IN e.type = "chain" /\ e.label \in Spikes =>
            /\ Len(s) > MinBaseline
            /\ asked.now - newest.at <= Freshness
            /\ \A m \in DOMAIN s : s[m].at # newest.at =>
                  \E k \in DOMAIN s : s[k].at > s[m].at /\ s[k].at - s[m].at <= 2 * Interval
            /\ Size(newest.delta) >= Floor
            /\ LET near == {v \in values : Distance(v.delta, CentreOf(values))
                                              < Distance(newest.delta, CentreOf(values))}
               IN 2 * Cardinality(near) >= Cardinality(values)

\* A target is never left out in silence: each has one entry, or the feed says
\* how many it left out, and of the chain's none is left out for a weaker one
\* (anomalyFeed).
StrongestKept ==
    told # NotTold =>
        LET shown == {n \in DOMAIN told.entries : told.entries[n].type = "chain"}
            ids == {told.entries[n].subject : n \in shown}
            left == {n \in DOMAIN asked.series : asked.series[n].id \notin ids}
        IN /\ Cardinality(shown) = Cardinality(ids)
           /\ Cardinality(left) <= told.cut
           /\ \A n \in left, k \in shown :
                 Rank[ChainEntry(asked.series[n], asked.now).label] >= Rank[told.entries[k].label]

\* The feed does not depend on the order in which anything arrives (anomalyFeed).
ArrivalIndependent ==
    told # NotTold =>
        told = Feed([series |-> [n \in DOMAIN asked.series |->
                        [Reverse(asked.series)[n] EXCEPT !.observations = Reverse(@)]],
                     windows |-> Reverse(asked.windows), now |-> asked.now])
=============================================================================
