------------------------------ MODULE Gateway -------------------------------
(***************************************************************************)
(* The live client of the gateway and the gate over what it answers        *)
(* (packages/graph-evidence/src): the probe, which asks the targets of a   *)
(* registry one after the other (probe.ts), and the tool server's live     *)
(* source, which asks the targets of a chain at once and may be cancelled  *)
(* (packages/mcp-server/src/engines/live-graph.ts).  A target is valid     *)
(* only if its answer names what the registry expects, has a baseline in   *)
(* the window and is fresh at the instant of its query; the gate counts    *)
(* distinct valid targets.                                                 *)
(*                                                                         *)
(* An answer is a failure of the transport, named for it, or a document:   *)
(* the identity it names, its deployment, its indexing errors, and its     *)
(* observations with that of the head last.                                *)
(***************************************************************************)
EXTENDS Integers, Sequences, FiniteSets

CONSTANTS
    Registries,         \* lists of targets; a target has label, chain, slug, subgraph, network
    Answers,
    NoDeployment,
    Limit,              \* concurrentRequests
    Minimum,            \* ETHEREUM_GATE_MINIMUM_PROTOCOLS
    BaseMinimum,        \* BASE_GATE_MINIMUM_PROTOCOLS
    Nearest, Aim, Farthest,     \* the window of a baseline: least, target, most
    FreshFor, Skew,
    Times               \* bound: the instants of the clock

VARIABLES
    registry, mode, clock, inFlight,
    call,       \* of each target: where its query is, since when, its answer and evaluation
    verdict     \* what the caller was told

gatewayVars == <<registry, mode, clock, inFlight, call, verdict>>

-----------------------------------------------------------------------------
Targets == DOMAIN registry

Chains == {"ethereum", "base"}

\* normalizeNetwork: the chain a network's name stands for, in either case.
Normalized(network) ==
    IF network \in {"MAINNET", "mainnet"} THEN "ethereum"
    ELSE IF network \in {"BASE", "base"} THEN "base" ELSE "unknown"

\* validateRegistry: named slugs, networks of the chain, each label and
\* subgraph once.
RegistryValid(r) ==
    /\ \A n \in DOMAIN r : r[n].slug # "" /\ Normalized(r[n].network) = r[n].chain
    /\ \A n, m \in DOMAIN r :
          r[n].label = r[m].label \/ r[n].subgraph = r[m].subgraph => n = m

\* assertObservation: an instant and an amount that are positive.
Sound(o) == o.at > 0 /\ o.positive

\* The position of the newest observation; of several at one instant, the last.
CurrentOf(seen) ==
    CHOOSE n \in DOMAIN seen : \A m \in DOMAIN seen :
        seen[m].at < seen[n].at \/ (seen[m].at = seen[n].at /\ m <= n)

\* Those in the window before the current one.
Baselines(seen) ==
    {n \in DOMAIN seen \ {CurrentOf(seen)} :
        seen[CurrentOf(seen)].at - seen[n].at \in Nearest..Farthest}

Off(seen, n) ==
    LET d == seen[CurrentOf(seen)].at - seen[n].at - Aim IN IF d < 0 THEN -d ELSE d

\* The one whose age is nearest to the target; of several, the oldest.
BaselineOf(seen) ==
    CHOOSE n \in Baselines(seen) : \A m \in Baselines(seen) :
        \/ Off(seen, n) < Off(seen, m)
        \/ Off(seen, n) = Off(seen, m) /\ seen[n].at <= seen[m].at

\* evaluateFreshness: neither older than the limit nor ahead of the clock.
Freshness(asked, at) ==
    IF asked - at < -Skew THEN "future" ELSE IF asked - at > FreshFor THEN "stale" ELSE "fresh"

Failed(kind) == [valid |-> FALSE, kind |-> kind, baseline |-> 0]

\* createPolicyFetch: an address outside the gateway and a redirect.
PolicyRefusals == {"elsewhere", "redirect"}

\* readBodyBounded, parseJsonBounded: one byte or one level too many.
Overruns == {"long", "deep"}

\* #query: the kind of what did not become a document.
FailureOf(answer) ==
    CASE answer = "timeout" -> "timeout"
      [] answer \in PolicyRefusals \cup {"unreachable"} -> "network"
      [] answer \in Overruns -> "limit"
      [] answer = "status" -> "http"
      [] answer = "errors" -> "graphql"
      [] OTHER -> "schema"

\* validateLiveIdentity: what the registry expects is what the provider names.
IdentityMatches(t, a) ==
    /\ a.slug = t.slug
    /\ a.network = t.network
    /\ a.family = "LENDING"
    /\ a.deployment # NoDeployment

\* adaptStandardizedTvl: the kind of what is wrong with a document itself.
Adapted(a) ==
    CASE ~a.complete \/ a.seen = <<>> -> "schema"
      [] a.complete /\ a.seen # <<>> /\ Normalized(a.network) = "unknown" -> "validation"
      [] a.complete /\ a.seen # <<>> /\ Normalized(a.network) # "unknown" /\ a.indexing -> "indexing"
      [] OTHER -> "none"

\* calculateTvlDelta: two observations, each sound, and a baseline.
HasDelta(seen) ==
    /\ Len(seen) >= 2
    /\ \A n \in DOMAIN seen : Sound(seen[n])
    /\ Baselines(seen) # {}

\* evaluateTarget, of an answer to a query made at `asked`.
EvaluateTarget(t, a, asked) ==
    IF ~IdentityMatches(t, a) \/ ~HasDelta(a.seen) THEN Failed("validation")
    ELSE IF Freshness(asked, a.seen[CurrentOf(a.seen)].at) # "fresh" THEN Failed("validation")
    ELSE [valid |-> TRUE, kind |-> "none", baseline |-> BaselineOf(a.seen)]

\* The client's answer for a target: a failure of the transport, of the
\* document, or the evaluation of its reading (#query, evaluateFailedTarget).
Evaluate(t, a, asked) ==
    IF a.kind # "document" THEN Failed(FailureOf(a.kind))
    ELSE IF Adapted(a) # "none" THEN Failed(Adapted(a))
    ELSE EvaluateTarget(t, a, asked)

-----------------------------------------------------------------------------
(* evaluateChainGate. *)

Key(n) == [slug |-> call[n].answer.slug, subgraph |-> registry[n].subgraph,
           deployment |-> call[n].answer.deployment]

\* A target adds an identity, a subgraph and a deployment, each of them new.
New(counted, n) ==
    \A m \in counted :
        /\ Key(m).slug # Key(n).slug
        /\ Key(m).subgraph # Key(n).subgraph
        /\ Key(m).deployment # Key(n).deployment

Counts(counted, n, chain) ==
    /\ call[n].evaluation.valid
    /\ Normalized(call[n].answer.network) = chain
    /\ New(counted, n)

\* Of some targets those that count, taken in the order of the registry.
Counted(ns, chain) ==
    CHOOSE counted \in SUBSET ns :
        \A n \in ns : n \in counted <=> Counts({m \in counted : m < n}, n, chain)

Gate(ns, chain, minimum, requireAll) ==
    LET counted == Counted(ns, chain)
        passed == /\ Cardinality(counted) >= minimum
                  /\ requireAll => counted = ns
    IN [chain |-> chain, passed |-> passed, counted |-> counted]

OfChain(chain) == {n \in Targets : registry[n].chain = chain}

-----------------------------------------------------------------------------
NotAsked == [pc |-> "none", at |-> 0, answer |-> [kind |-> "none"], evaluation |-> Failed("none")]

NoVerdict == [told |-> "nothing"]

Init ==
    /\ registry \in Registries
    /\ mode = "idle"
    /\ clock \in Times
    /\ inFlight = 0
    /\ call = [n \in Targets |-> NotAsked]
    /\ verdict = NoVerdict

Tick ==
    /\ mode = "probe"
    /\ \E t \in Times : t > clock /\ clock' = t
    /\ UNCHANGED <<registry, mode, inFlight, call, verdict>>

\* runProbe: a registry that contradicts itself is refused before any request.
StartProbe ==
    /\ mode = "idle"
    /\ IF RegistryValid(registry) THEN mode' = "probe" /\ UNCHANGED verdict
       ELSE mode' = "done" /\ verdict' = [told |-> "probe", code |-> 2]
    /\ UNCHANGED <<registry, clock, inFlight, call>>

Asking(n) == [NotAsked EXCEPT !.pc = "out", !.at = clock]

Refused == [NotAsked EXCEPT !.pc = "settled", !.evaluation = Failed("limit")]

\* probeTarget: the next target, once the one before has settled.
ProbeNext(n) ==
    /\ mode = "probe"
    /\ call[n].pc = "none"
    /\ \A m \in Targets : call[m].pc = "none" => n <= m
    /\ \A m \in Targets : call[m].pc # "out"
    /\ inFlight < Limit
    /\ inFlight' = inFlight + 1
    /\ call' = [call EXCEPT ![n] = Asking(n)]
    /\ UNCHANGED <<registry, mode, clock, verdict>>

\* observe: every target of the chain at once; the count is raised before
\* anything is awaited, and who finds it at the limit is refused.
Observe(chain) ==
    LET ns == OfChain(chain)
        out == {n \in ns : Cardinality({m \in ns : m < n}) < Limit}
    IN
    /\ mode = "idle"
    /\ RegistryValid(registry)
    /\ mode' = chain
    /\ inFlight' = Cardinality(out)
    /\ call' = [n \in Targets |-> IF n \in out THEN Asking(n)
                                  ELSE IF n \in ns THEN Refused ELSE NotAsked]
    /\ UNCHANGED <<registry, clock, verdict>>

\* The answer of the gateway, or of the timeout, and its evaluation.
Settle(n, a) ==
    /\ call[n].pc = "out"
    /\ call' = [call EXCEPT ![n].pc = "settled", ![n].answer = a,
                            ![n].evaluation = Evaluate(registry[n], a, call[n].at)]
    /\ inFlight' = inFlight - 1
    /\ UNCHANGED <<registry, mode, clock, verdict>>

AllSettled(ns) == \A n \in ns : call[n].pc = "settled"

\* The end of the probe: the code is the Ethereum gate's alone.
EndProbe ==
    LET gate == Gate(OfChain("ethereum"), "ethereum", Minimum, FALSE)
        second == Gate(OfChain("base"), "base", BaseMinimum, TRUE)
    IN
    /\ mode = "probe"
    /\ AllSettled(Targets)
    /\ mode' = "done"
    /\ verdict' = [told |-> "probe", code |-> IF gate.passed THEN 0 ELSE 1,
                   ethereum |-> gate, base |-> second]
    /\ UNCHANGED <<registry, clock, inFlight, call>>

\* liveAnomalies: the valid targets and the failures, each told as what it is.
EndObserve ==
    LET ns == OfChain(mode) IN
    /\ mode \in Chains
    /\ AllSettled(ns)
    /\ mode' = "done"
    /\ verdict' = [told |-> "live", valid |-> {n \in ns : call[n].evaluation.valid},
                   failed |-> {n \in ns : ~call[n].evaluation.valid}]
    /\ UNCHANGED <<registry, clock, inFlight, call>>

\* The call's signal aborts every socket; nothing of the call is told.
Cancel ==
    /\ mode \in Chains
    /\ mode' = "done"
    /\ inFlight' = 0
    /\ call' = [n \in Targets |->
                  IF call[n].pc = "out"
                  THEN [call[n] EXCEPT !.pc = "settled", !.evaluation = Failed("timeout")]
                  ELSE call[n]]
    /\ verdict' = [told |-> "cancelled"]
    /\ UNCHANGED <<registry, clock>>

Next ==
    \/ Tick \/ StartProbe \/ EndProbe \/ EndObserve \/ Cancel
    \/ \E n \in Targets : ProbeNext(n) \/ \E a \in Answers : Settle(n, a)
    \/ \E chain \in Chains : Observe(chain)

Spec == Init /\ [][Next]_gatewayVars

-----------------------------------------------------------------------------
(* What the client and the gate promise. *)

TypeOK ==
    /\ mode \in {"idle", "probe", "done"} \cup Chains
    /\ \A n \in Targets : call[n].pc \in {"none", "out", "settled"}

\* The count of requests is of those that are out, within the limit, and
\* nothing is left of it when the caller is told (queryStandardizedTvl).
CountIsReturned ==
    /\ inFlight = Cardinality({n \in Targets : call[n].pc = "out"})
    /\ inFlight <= Limit
    /\ mode = "done" => inFlight = 0

\* What is valid is what the registry expects, without indexing errors, with a
\* baseline in the window no other is nearer in, fresh when it was asked for
\* (evaluateTarget).
ValidIsExpected ==
    \A n \in Targets : call[n].evaluation.valid =>
        LET t == registry[n]
            a == call[n].answer
            base == a.seen[call[n].evaluation.baseline]
            now == a.seen[CurrentOf(a.seen)]
        IN /\ a.kind = "document" /\ ~a.indexing /\ a.deployment # NoDeployment
           /\ a.slug = t.slug /\ Normalized(a.network) = t.chain
           /\ now.at - base.at >= Nearest /\ now.at - base.at <= Farthest
           /\ call[n].at - now.at <= FreshFor /\ now.at - call[n].at <= Skew
           /\ \A m \in DOMAIN a.seen :
                 a.seen[m].at <= now.at /\ Sound(a.seen[m])

\* A gate is passed by as many targets as it asks for, all of them valid and no
\* two of one identity, subgraph or deployment; the second never decides the
\* code (evaluateChainGate, runProbe).
GateIsDistinct ==
    verdict.told = "probe" /\ verdict.code # 2 =>
        LET distinct(S) == \A n, m \in S : n # m =>
                /\ call[n].answer.slug # call[m].answer.slug
                /\ call[n].answer.deployment # call[m].answer.deployment
        IN /\ distinct(verdict.ethereum.counted) /\ distinct(verdict.base.counted)
           /\ \A n \in verdict.ethereum.counted : call[n].evaluation.valid
           /\ verdict.code = 0 <=> Cardinality(verdict.ethereum.counted) >= Minimum
           /\ verdict.base.passed => verdict.base.counted = OfChain("base")

\* Of a chain that was observed every target is told, and none as valid that
\* was refused or had failed (liveAnomalies).
EveryTargetTold ==
    verdict.told = "live" =>
        \A n \in Targets : call[n].pc = "settled" => n \in verdict.valid \/ n \in verdict.failed
=============================================================================
