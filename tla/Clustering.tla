----------------------------- MODULE Clustering ------------------------------
(***************************************************************************)
(* The clustering engine (packages/clustering/src/engine.ts): the three    *)
(* stages of clusterEligible over the inputs of one classification run.    *)
(* Rows of one canonical URL are a unit; units whose wording is the same   *)
(* are a report; reports that share rare tokens within a time window are   *)
(* an incident.  Every merge is bounded by the size it would make.         *)
(*                                                                         *)
(* A text is the set of its distinctive tokens and the set of its          *)
(* shingles; tokens are ordered by Hash, which picks blocking keys.  The   *)
(* contract's numbers are constants, its thresholds fractions.             *)
(***************************************************************************)
EXTENDS Integers, Sequences, FiniteSets, SequencesExt, FiniteSetsExt

CONSTANTS
    Inputs,         \* the lists of rows that may be clustered
    Hash,           \* the fixed order of tokens: token -> number
    NoUrl, NoTime,
    MaxCluster,     \* bounds.maximumClusterSize, in rows
    MaxLinks,       \* bounds.maximumAmbiguousLinks
    KeysPerItem, MaxBlock, MaxComparisons,
    MaxShare,       \* blocking.maximumDocumentFrequencyRatio
    RareShare,      \* incident.rareTokenDocumentFrequencyRatio
    Syndication,    \* similarity.syndicationThreshold
    Incident,       \* similarity.incidentThreshold
    Near,           \* the same less similarity.ambiguousMargin
    MinShared, MinRare,
    TimeWindow

VARIABLES
    rows,       \* the inputs of this run
    stage,
    units,      \* exact-URL duplicates, in the order of their keys
    reports,    \* units of one wording
    root,       \* the union-find of the stage: each item's lowest fellow
    pairs,      \* candidate pairs still to be decided
    refused,    \* units and reports whose merge the bound refused
    links,      \* ambiguous links between reports
    reasons     \* roots at the time of a merge: with both times, without

clusteringVars == <<rows, stage, units, reports, root, pairs, refused, links, reasons>>

-----------------------------------------------------------------------------
Eligible == {r \in DOMAIN rows : rows[r].decision \in {"include", "review"}}

Larger(a, b) == IF a < b THEN b ELSE a

\* A share of n, and never less than two.
ShareOf(share, n) == Larger(2, (n * share[1]) \div share[2])

\* similarityOf: Jaccard, compared with a fraction; nothing is like an empty set.
AtLeast(left, right, threshold) ==
    /\ left # {} /\ right # {}
    /\ Cardinality(left \cap right) * threshold[2]
        >= threshold[1] * Cardinality(left \cup right)

\* representativeOf: the earliest row, the lowest of several, the untimed last.
Before(r, q) ==
    IF rows[r].time = rows[q].time THEN r <= q
    ELSE rows[q].time = NoTime \/ (rows[r].time # NoTime /\ rows[r].time < rows[q].time)

Representative(S) == CHOOSE r \in S : \A q \in S : Before(r, q)

\* A set of numbers as a sequence, the lowest first.
InOrder(S) ==
    FoldSet(LAMBDA x, s : InsertAt(s, 1 + Cardinality({n \in DOMAIN s : s[n] < x}), x), <<>>, S)

-----------------------------------------------------------------------------
(* candidatePairs: an inverted index over a few tokens of each item. *)

Carrying(items, token) == {i \in DOMAIN items : token \in items[i].tokens}

\* The tokens that may be keys, the first of them in the order of Hash.
KeysOf(items, i) ==
    LET usable == {t \in items[i].tokens :
                     Cardinality(Carrying(items, t)) <= ShareOf(MaxShare, Len(items))}
    IN {t \in usable : Cardinality({u \in usable : Hash[u] < Hash[t]}) < KeysPerItem}

Block(items, token) == {i \in DOMAIN items : token \in KeysOf(items, i)}

\* The pairs of a block in the order the two loops visit them.
PairsWithin(block) ==
    LET s == InOrder(block)
    IN FlattenSeq([n \in DOMAIN s |-> [m \in 1..(Len(s) - n) |-> <<s[n], s[n + m]>>]])

\* One iteration: over budget it is skipped and told, seen already it is not repeated.
Admit(walk, pair) ==
    LET spent(i) == Cardinality({n \in DOMAIN walk.pairs : i \in {walk.pairs[n][1], walk.pairs[n][2]}})
    IN CASE spent(pair[1]) >= MaxComparisons \/ spent(pair[2]) >= MaxComparisons ->
              [walk EXCEPT !.told = TRUE]
         [] \E n \in DOMAIN walk.pairs : walk.pairs[n] = pair -> walk
         [] OTHER -> [walk EXCEPT !.pairs = Append(@, pair)]

\* Blocks in the order of their keys; one that is too large is skipped and told.
Scan(items) ==
    LET keys == InOrder(UNION {KeysOf(items, i) : i \in DOMAIN items})
        blocks == [n \in DOMAIN keys |-> Block(items, keys[n])]
        kept == SelectSeq(blocks, LAMBDA b : Cardinality(b) <= MaxBlock)
    IN FoldLeft(Admit, [pairs |-> <<>>, told |-> Len(kept) < Len(blocks)],
                FlattenSeq([n \in DOMAIN kept |-> PairsWithin(kept[n])]))

-----------------------------------------------------------------------------
(* UnionFind, by the lowest item of each component. *)

Alone(items) == [i \in DOMAIN items |-> i]

Component(i) == {j \in DOMAIN root : root[j] = root[i]}

Weight(items, S) == FoldFunctionOnSet(+, 0, [i \in DOMAIN items |-> Cardinality(items[i].rows)], S)

\* The bound read from the pair alone.
CanUnionPair(items, i, j) ==
    root[i] = root[j] \/ Cardinality(items[i].rows \cup items[j].rows) <= MaxCluster

\* canUnion: by what the two components would make together.
CanUnion(items, i, j) ==
    root[i] = root[j] \/ Weight(items, Component(i) \cup Component(j)) <= MaxCluster

\* union: the higher root under the lower.
Joined(i, j) ==
    LET low == IF root[i] < root[j] THEN root[i] ELSE root[j]
    IN [k \in DOMAIN root |-> IF k \in Component(i) \cup Component(j) THEN low ELSE root[k]]

-----------------------------------------------------------------------------
Unit(S) ==
    LET r == Representative(S)
    IN [rows |-> S, of |-> {}, tokens |-> rows[r].tokens, wording |-> rows[r].wording,
        time |-> rows[r].time]

\* A row without a URL is a unit of its own; those come first, by their keys.
UnitsInOrder ==
    LET bare == InOrder({r \in Eligible : rows[r].url = NoUrl})
        urls == InOrder({rows[r].url : r \in Eligible} \ {NoUrl})
    IN [n \in DOMAIN bare |-> Unit({bare[n]})]
       \o [n \in DOMAIN urls |-> Unit({r \in Eligible : rows[r].url = urls[n]})]

Init ==
    /\ rows \in Inputs
    /\ stage = "rows"
    /\ units = <<>> /\ reports = <<>> /\ root = <<>> /\ pairs = <<>>
    /\ refused = [units |-> {}, reports |-> {}, told |-> FALSE]
    /\ links = {}
    /\ reasons = [timed |-> {}, untimed |-> {}]

\* Stage 1.  A group of duplicates that is too large refuses the run.
GroupDuplicates ==
    /\ stage = "rows"
    /\ LET made == UnitsInOrder
           scan == Scan(made) IN
        /\ units' = made
        /\ IF \E n \in DOMAIN made : Cardinality(made[n].rows) > MaxCluster
             THEN stage' = "refused" /\ UNCHANGED <<root, pairs, refused>>
             ELSE /\ stage' = "wording"
                  /\ root' = Alone(made)
                  /\ pairs' = scan.pairs
                  /\ refused' = [refused EXCEPT !.told = scan.told]
    /\ UNCHANGED <<rows, reports, links, reasons>>

Refuse(kind, left, right) ==
    refused' = [refused EXCEPT ![kind] = @ \cup {left, right}, !.told = TRUE]

SameWording(left, right) == AtLeast(units[left].wording, units[right].wording, Syndication)

\* Stage 2, one pair.
Syndicate ==
    /\ stage = "wording" /\ pairs # <<>>
    /\ LET left == Head(pairs)[1]
           right == Head(pairs)[2] IN
       CASE ~SameWording(left, right) -> UNCHANGED <<root, refused>>
         [] SameWording(left, right) /\ ~CanUnion(units, left, right) ->
              Refuse("units", left, right) /\ UNCHANGED root
         [] OTHER -> root' = Joined(left, right) /\ UNCHANGED refused
    /\ pairs' = Tail(pairs)
    /\ UNCHANGED <<rows, stage, units, reports, links, reasons>>

Report(S) ==
    [rows |-> UNION {units[i].rows : i \in S}, of |-> S,
     tokens |-> UNION {units[i].tokens : i \in S}, wording |-> {},
     time |-> LET times == {units[i].time : i \in S} \ {NoTime}
              IN IF times = {} THEN NoTime ELSE Min(times)]

\* Stage 2 is over: the reports, in the order of their lowest units.
MakeReports ==
    /\ stage = "wording" /\ pairs = <<>>
    /\ LET roots == InOrder({root[i] : i \in DOMAIN root})
           made == [n \in DOMAIN roots |-> Report(Component(roots[n]))]
           scan == Scan(made) IN
        /\ reports' = made
        /\ root' = Alone(made)
        /\ pairs' = scan.pairs
        /\ refused' = [refused EXCEPT !.told = @ \/ scan.told]
    /\ stage' = "incidents"
    /\ UNCHANGED <<rows, units, links, reasons>>

-----------------------------------------------------------------------------
Shared(left, right) == reports[left].tokens \cap reports[right].tokens

\* A token is rare that few of this run's reports carry.
Rare(token) == Cardinality(Carrying(reports, token)) <= ShareOf(RareShare, Len(reports))

EnoughSignals(left, right) ==
    /\ Cardinality(Shared(left, right)) >= MinShared
    /\ Cardinality({t \in Shared(left, right) : Rare(t)}) >= MinRare

EnoughSimilarity(left, right) == AtLeast(reports[left].tokens, reports[right].tokens, Incident)

BothTimed(left, right) == reports[left].time # NoTime /\ reports[right].time # NoTime

Apart(left, right) ==
    IF reports[left].time < reports[right].time THEN reports[right].time - reports[left].time
                                                ELSE reports[left].time - reports[right].time

WithinWindow(left, right) ==
    BothTimed(left, right) => Apart(left, right) <= TimeWindow

Supported(left, right) ==
    EnoughSignals(left, right) /\ EnoughSimilarity(left, right) /\ WithinWindow(left, right)

\* A near miss, or criteria that disagree.
WorthRecording(left, right) ==
    \/ /\ Cardinality(Shared(left, right)) >= MinShared - 1
       /\ AtLeast(reports[left].tokens, reports[right].tokens, Near)
    \/ EnoughSimilarity(left, right) # EnoughSignals(left, right)
    \/ EnoughSignals(left, right) /\ ~WithinWindow(left, right)

\* Stage 3, one pair: merged, refused by the bound, or recorded for a human.
Relate ==
    /\ stage = "incidents" /\ pairs # <<>>
    /\ LET left == Head(pairs)[1]
           right == Head(pairs)[2]
           low == Joined(left, right)[left] IN
       CASE Supported(left, right) /\ CanUnion(reports, left, right) ->
              /\ root' = Joined(left, right)
              /\ reasons' = IF root[left] = root[right] THEN reasons
                            ELSE IF BothTimed(left, right)
                              THEN [reasons EXCEPT !.timed = @ \cup {low}]
                              ELSE [reasons EXCEPT !.untimed = @ \cup {low}]
              /\ UNCHANGED <<refused, links>>
         [] Supported(left, right) /\ ~CanUnion(reports, left, right) ->
              Refuse("reports", left, right) /\ UNCHANGED <<root, links, reasons>>
         [] OTHER ->
              /\ links' = IF Cardinality(links) < MaxLinks /\ WorthRecording(left, right)
                            THEN links \cup {<<left, right>>} ELSE links
              /\ refused' = [refused EXCEPT !.told = @ \/ Cardinality(links) >= MaxLinks]
              /\ UNCHANGED <<root, reasons>>
    /\ pairs' = Tail(pairs)
    /\ UNCHANGED <<rows, stage, units, reports>>

Assemble ==
    /\ stage = "incidents" /\ pairs = <<>>
    /\ stage' = "done"
    /\ UNCHANGED <<rows, units, reports, root, pairs, refused, links, reasons>>

Next == GroupDuplicates \/ Syndicate \/ MakeReports \/ Relate \/ Assemble

Spec == Init /\ [][Next]_clusteringVars

-----------------------------------------------------------------------------
(* The outcome: incidents, their rows and their reason codes. *)

Incidents == {Component(i) : i \in DOMAIN reports}

RowsOf(incident) == UNION {reports[i].rows : i \in incident}

Codes(incident) ==
    LET base == CHOOSE i \in incident : root[i] = i
        parts == UNION {reports[i].of : i \in incident} IN
    {code \in {"singleton", "exact url", "syndicated", "signals", "time proximity",
               "timestamp absent", "bound reached"} :
        CASE code = "singleton" -> Cardinality(RowsOf(incident)) = 1
          [] code = "exact url" -> \E i \in parts : Cardinality(units[i].rows) > 1
          [] code = "syndicated" -> Cardinality(parts) > Cardinality(incident)
          [] code = "signals" -> Cardinality(incident) > 1
          [] code = "time proximity" -> Cardinality(incident) > 1 /\ base \in reasons.timed
          [] code = "timestamp absent" -> Cardinality(incident) > 1 /\ base \in reasons.untimed
          [] OTHER -> incident \cap refused.reports # {} \/ parts \cap refused.units # {}}

Done == stage = "done"

TypeOK ==
    /\ rows \in Inputs
    /\ stage \in {"rows", "wording", "incidents", "done", "refused"}
    /\ \A i \in DOMAIN root : root[i] \in DOMAIN root /\ root[i] <= i /\ root[root[i]] = root[i]
    /\ links \subseteq (DOMAIN reports) \X (DOMAIN reports)
    /\ Cardinality(links) <= MaxLinks

\* Every eligible row is in one incident and no other row is in any, whole
\* units and whole reports.
CoversTheEligible ==
    Done => /\ UNION {RowsOf(I) : I \in Incidents} = Eligible
            /\ \A I, J \in Incidents : I # J => RowsOf(I) \cap RowsOf(J) = {}
            /\ \A q, r \in Eligible : rows[q].url # NoUrl /\ rows[q].url = rows[r].url =>
                 \E I \in Incidents : {q, r} \subseteq RowsOf(I)

\* No chain of merges makes a cluster larger than the bound, though each pair
\* of it is small.
WithinTheBound == Done => \A I \in Incidents : Cardinality(RowsOf(I)) <= MaxCluster

\* "A merge must be positively supported": the reports of an incident cannot
\* be parted in two without a supported pair across, and nor can a report's
\* units without two of one wording.
Held(S, holds(_, _)) ==
    \A part \in SUBSET S \ {{}, S} : \E i \in part, j \in S \ part : holds(i, j) \/ holds(j, i)

MergedForAReason ==
    Done => /\ \A I \in Incidents : Held(I, Supported)
            /\ \A n \in DOMAIN reports : Held(reports[n].of, SameWording)

\* "Every bound that stops work is recorded": reports that were compared and
\* belong together are together, or both their clusters say the bound parted
\* them; and an incident of several reports says on what its times rested.
BoundsAreTold ==
    Done => /\ \A pair \in ToSet(Scan(reports).pairs) :
                Supported(pair[1], pair[2]) /\ root[pair[1]] # root[pair[2]] =>
                    /\ refused.told
                    /\ \A i \in {pair[1], pair[2]} : "bound reached" \in Codes(Component(i))
            /\ \A I \in Incidents : Cardinality(I) > 1 =>
                 Codes(I) \cap {"time proximity", "timestamp absent"} # {}
=============================================================================
