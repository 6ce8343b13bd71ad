----------------------------- MODULE Classifier ------------------------------
(***************************************************************************)
(* The classification of one row under one category                        *)
(* (packages/classification: classify under a contract, contractFor) and   *)
(* the registry of the categories (packages/taxonomy: categories.ts, with  *)
(* the policies this repository ships as values of a constant).            *)
(*                                                                         *)
(* A text is a sequence of words, a term a sequence of words that stand    *)
(* together, and a hash of a contract what it is the hash of.  A contract  *)
(* is frozen when it is made, so the matchers kept for it are its own.     *)
(***************************************************************************)
EXTENDS Integers, Sequences, FiniteSets

CONSTANTS
    Loaded,       \* the policies registered when the module is loaded, in order
    Policies,     \* the policies registered later, or in vain
    Vocabulary,   \* what a policy names: its signals, patterns, thresholds and weights
    Names,        \* the categories asked for
    RowKinds,     \* the rows classified
    Break         \* fieldSeparator: no word, and in no term

VARIABLES
    registered,   \* REGISTRY, in the order of registration
    contracts,    \* CONTRACTS: category -> contract
    owner,        \* OWNER_OF_HASH: contract -> category
    answer,       \* what the last call came to
    scored        \* the last row classified: its category, the row, the result

classifierVars == <<registered, contracts, owner, answer, scored>>

-----------------------------------------------------------------------------
NothingScored == <<>>

Tiers == {"decisive", "contextual", "out_of_scope"}

OutOfScopeHits == 1

\* assertPolicyShape, of what the model tells of a policy.
Sound(policy) ==
    LET rules == Vocabulary[policy.rules]
    IN  /\ rules.signals # <<>>
        /\ rules.thresholds.decisive >= 1 /\ rules.thresholds.contextual >= 1
        /\ \A tier \in Tiers : rules.weights[tier] >= 0

\* policyIdentity: a policy is another only if every field of it is.
Same(policy, other) == policy = other

\* buildContract: the vocabulary, thresholds and weights of a policy under its
\* version.  The category and its question are no part of it, and what is the
\* same for every category tells no contract from another.
Contract(policy) == [version |-> policy.version, rules |-> policy.rules]

\* assembleText: absent and empty fields are skipped, and no term stands across
\* two of them.
Joined(s, t) == IF s = <<>> THEN t ELSE IF t = <<>> THEN s ELSE s \o <<Break>> \o t
Text(row) == Joined(Joined(row.title, row.summary), row.description)

StandsAt(text, p, term) ==
    /\ p + Len(term) - 1 <= Len(text)
    /\ SubSeq(text, p, p + Len(term) - 1) = term

\* buildTierMatcher: the terms of a tier; one that two signals have is the last
\* one's.
TermsOf(rules, tier) ==
    UNION {rules.signals[n].terms : n \in {k \in DOMAIN rules.signals : rules.signals[k].tier = tier}}

SignalOf(rules, tier, term) ==
    LET having == {k \in DOMAIN rules.signals : rules.signals[k].tier = tier /\ term \in rules.signals[k].terms}
    IN  rules.signals[CHOOSE k \in having : \A j \in having : j <= k].id

Longest(terms) == CHOOSE t \in terms : \A u \in terms : Len(u) <= Len(t)

\* The alternation of a tier, longest first, over the text from the left: what
\* a match covers is not looked at again.
Scan(text, terms) ==
    LET from[p \in 1..Len(text) + 1] ==
            LET here == {t \in terms : StandsAt(text, p, t)} IN
            IF p > Len(text) THEN {}
            ELSE IF here = {} THEN from[p + 1]
            ELSE {Longest(here)} \cup from[p + Len(Longest(here))]
    IN  from[1]

\* matchTier: the distinct signals of a tier.  A pattern is tried on the whole
\* text.
Matched(text, rules, tier) ==
    {SignalOf(rules, tier, t) : t \in Scan(text, TermsOf(rules, tier))}
    \cup {q.id : q \in {q \in rules.patterns : q.tier = tier /\ \E p \in DOMAIN text : text[p] = q.word}}

\* matchSignals: what a predicate and an emission may ask.
Match(row, rules) == [tier \in Tiers |-> Matched(Text(row), rules, tier)]

DecisiveMet(m, rules) == Cardinality(m["decisive"]) >= rules.thresholds.decisive
ContextualMet(m, rules) == Cardinality(m["contextual"]) >= rules.thresholds.contextual
OutOfScopeMet(m) == Cardinality(m["out_of_scope"]) >= OutOfScopeHits
InScope(m, rules) == DecisiveMet(m, rules) \/ ContextualMet(m, rules)

\* DECISION_RULES, in the order of their precedence.
Precedence == <<"quarantined_row", "no_usable_text", "in_scope_conflicting", "in_scope",
                "out_of_scope_only", "otherwise">>

\* predicateHolds.
Holds(rule, row, m, rules) ==
    CASE rule = "quarantined_row" -> row.quarantined
      [] rule = "no_usable_text" -> Text(row) = <<>>
      [] rule = "in_scope_conflicting" -> InScope(m, rules) /\ OutOfScopeMet(m)
      [] rule = "in_scope" -> InScope(m, rules)
      [] rule = "out_of_scope_only" ->
            OutOfScopeMet(m) /\ m["decisive"] = {} /\ m["contextual"] = {}
      [] OTHER -> TRUE

Fired(row, m, rules) ==
    LET holding == {n \in DOMAIN Precedence : Holds(Precedence[n], row, m, rules)}
    IN  Precedence[CHOOSE n \in holding : \A k \in holding : n <= k]

Decision(rule) ==
    IF rule = "in_scope" THEN "include" ELSE IF rule = "out_of_scope_only" THEN "exclude" ELSE "review"

\* codesFor: the conditions under which the rule that fired says why.
Why(rule, m, rules) ==
    LET met == {c \in {"decisive_signal", "contextual_signals"} :
                    IF c = "decisive_signal" THEN DecisiveMet(m, rules) ELSE ContextualMet(m, rules)}
        some == {c \in {"contextual_signal_single", "out_of_scope_signal"} :
                    IF c = "out_of_scope_signal" THEN m["out_of_scope"] # {} ELSE Cardinality(m["contextual"]) = 1}
    IN  CASE rule = "quarantined_row" -> {"row_quarantined"}
          [] rule = "no_usable_text" -> {"text_absent"}
          [] rule = "in_scope_conflicting" -> {"out_of_scope_signal", "signals_conflicting"} \cup met
          [] rule = "in_scope" -> met
          [] rule = "out_of_scope_only" -> {"out_of_scope_signal", "no_signal_match"}
          [] OTHER -> IF some = {} THEN {"no_signal_match"} ELSE some

\* scoreOf, of the rules that score.
Score(m, weights) ==
    Cardinality(m["decisive"]) * weights["decisive"]
        + Cardinality(m["contextual"]) * weights["contextual"]
        + Cardinality(m["out_of_scope"]) * weights["out_of_scope"]

Unscored == {"quarantined_row", "no_usable_text"}

\* classify, of a row its boundary admits.
Result(row, rules) ==
    LET m == Match(row, rules)
        rule == Fired(row, m, rules)
    IN  [decision |-> Decision(rule), why |-> Why(rule, m, rules),
         signals |-> IF rule \in Unscored THEN {} ELSE UNION {m[tier] : tier \in Tiers},
         score |-> IF rule \in Unscored THEN 0 ELSE Score(m, rules.weights)]

-----------------------------------------------------------------------------
Registered(name) == \E n \in DOMAIN registered : registered[n].category = name
PolicyOf(name) == registered[CHOOSE n \in DOMAIN registered : registered[n].category = name]

VersionTaken(policy) == \E n \in DOMAIN registered : registered[n].version = policy.version

\* The contracts of what is registered at load are built at load.
Init ==
    LET policy(name) == Loaded[CHOOSE n \in DOMAIN Loaded : Loaded[n].category = name]
        names == {Loaded[n].category : n \in DOMAIN Loaded}
    IN  /\ registered = Loaded
        /\ contracts = [name \in names |-> Contract(policy(name))]
        /\ owner = [h \in {Contract(policy(name)) : name \in names} |->
                        CHOOSE name \in names : Contract(policy(name)) = h]
        /\ answer = "loaded"
        /\ scored = NothingScored

Say(what) == answer' = what /\ scored' = NothingScored

\* registerCategoryPolicy: a category keeps its policy, and a version names one
\* category.
Register(policy) ==
    /\ IF ~Sound(policy) THEN Say("policy_shape_invalid") /\ UNCHANGED registered
       ELSE IF Registered(policy.category)
         THEN /\ Say(IF Same(policy, PolicyOf(policy.category)) THEN "registered" ELSE "category_policy_conflict")
              /\ UNCHANGED registered
       ELSE IF VersionTaken(policy) THEN Say("policy_version_taken") /\ UNCHANGED registered
       ELSE Say("registered") /\ registered' = Append(registered, policy)
    /\ UNCHANGED <<contracts, owner>>

\* contractFor: built once, and refused if its hash is another category's.
ContractFor(name) ==
    LET built == Contract(PolicyOf(name)) IN
    IF name \in DOMAIN contracts \/ ~Registered(name)
      THEN /\ Say(IF Registered(name) THEN "built" ELSE "category_unknown")
           /\ UNCHANGED <<registered, contracts, owner>>
    ELSE IF built \in DOMAIN owner /\ owner[built] # name
      THEN Say("category_hash_shared") /\ UNCHANGED <<registered, contracts, owner>>
    ELSE /\ Say("built")
         /\ contracts' = [n \in DOMAIN contracts \cup {name} |-> IF n = name THEN built ELSE contracts[n]]
         /\ owner' = [h \in DOMAIN owner \cup {built} |-> IF h = built THEN name ELSE owner[h]]
         /\ UNCHANGED registered

\* assertClassificationInput: the keys of a row, and what each holds.
Admitted(row) == row.admitted

\* A row under the contract of a category.
Classify(name, row) ==
    /\ name \in DOMAIN contracts
    /\ answer' = IF Admitted(row) THEN "classified" ELSE "input_rejected"
    /\ scored' = IF Admitted(row)
                   THEN <<[name |-> name, row |-> row, result |-> Result(row, Vocabulary[contracts[name].rules])]>>
                   ELSE NothingScored
    /\ UNCHANGED <<registered, contracts, owner>>

Next ==
    \/ \E policy \in Policies : Register(policy)
    \/ \E name \in Names : ContractFor(name) \/ \E row \in RowKinds : Classify(name, row)

Spec == Init /\ [][Next]_classifierVars

-----------------------------------------------------------------------------
TypeOK ==
    /\ \A name \in DOMAIN contracts : Registered(name)
    /\ \A h \in DOMAIN owner : owner[h] \in DOMAIN contracts
    /\ scored # NothingScored => scored[1].result.decision \in {"include", "exclude", "review"}

\* A hash names one category whatever the order of registrations and first
\* uses: a run is told from its hash, a contract is its policy's, and no
\* registered category finds its hash another's.
HashNamesOneCategory ==
    /\ \A name \in DOMAIN contracts :
        /\ contracts[name] = Contract(PolicyOf(name))
        /\ contracts[name] \in DOMAIN owner /\ owner[contracts[name]] = name
    /\ \A m, n \in DOMAIN registered : registered[m].category = registered[n].category => m = n
    /\ answer # "category_hash_shared"

\* What stands in a row, whatever else stands about it: a term within one field,
\* or the word of a pattern.
Standing(row, rules, tier) ==
    {rules.signals[n].id : n \in {k \in DOMAIN rules.signals :
        /\ rules.signals[k].tier = tier
        /\ \E t \in rules.signals[k].terms : \E f \in {row.title, row.summary, row.description} :
            \E p \in DOMAIN f : StandsAt(f, p, t)}}
    \cup {q.id : q \in {q \in rules.patterns : q.tier = tier
        /\ \E f \in {row.title, row.summary, row.description} : \E p \in DOMAIN f : f[p] = q.word}}

\* Recall: a row is excluded only where no decisive and no contextual signal
\* stands, though a match hides what it covers; a decisive one that stands alone
\* is enough where one is asked for; and what is included has as many signals
\* as its policy asks.
RecallKept ==
    scored # NothingScored =>
    LET row == scored[1].row
        rules == Vocabulary[contracts[scored[1].name].rules]
        result == scored[1].result
    IN  /\ result.decision = "exclude" =>
            /\ ~row.quarantined
            /\ Standing(row, rules, "decisive") \cup Standing(row, rules, "contextual") = {}
            /\ Standing(row, rules, "out_of_scope") # {}
        /\ Standing(row, rules, "decisive") # {} /\ rules.thresholds.decisive = 1 /\ ~row.quarantined =>
            \/ result.decision = "include"
            \/ result.decision = "review" /\ Standing(row, rules, "out_of_scope") # {}
        /\ result.decision = "include" =>
            \/ Cardinality(Standing(row, rules, "decisive")) >= rules.thresholds.decisive
            \/ Cardinality(Standing(row, rules, "contextual")) >= rules.thresholds.contextual
        /\ result.why # {}
=============================================================================
