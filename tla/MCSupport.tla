----------------------------- MODULE MCSupport ------------------------------
(***************************************************************************)
(* The checkout hand-off and the supporter ledger, checked one beside the  *)
(* other: a behaviour picks one of them and takes its steps only, the      *)
(* other staying where it starts.  The ledger has two subscriptions of one *)
(* account under one customer, and one nobody here started; the statuses   *)
(* of one subscription have distinct instants.                             *)
(***************************************************************************)
EXTENDS Checkout, TLC

CONSTANTS
    Supporters,     \* the accounts of the ledger
    Events, Owner, Recorded, MaxClock, MaxReplays, MaxDeaths,
    alice, bob, s1, s2, s4, c1, c4

VARIABLES part, rows, delivery, clock, audited, replays, deaths

Ev(id, type, of, customer, at, status) ==
    [id |-> id, type |-> type, sub |-> of, customer |-> customer, at |-> at, status |-> status]

MCOwner == (s1 :> alice) @@ (s2 :> alice) @@ (s4 :> NoOne)

\* s1 starts and is cancelled; s2, known by its customer alone, is billing; s4
\* is not of this service.
TwoSubscriptions == {
    Ev(1, "completed", s1, c1, 1, NoOne),
    Ev(2, "subscription", s1, c1, 1, "active"),
    Ev(3, "subscription", s1, c1, 3, "canceled"),
    Ev(4, "subscription", s2, c1, 2, "past_due"),
    Ev(5, "subscription", s4, c4, 2, "active") }

\* The first two events of a subscription.
FirstEvents == {
    Ev(1, "completed", s1, c1, 1, NoOne),
    Ev(2, "subscription", s1, c1, 1, "active") }

\* A running request is a request to either.
L == INSTANCE SupporterLedger WITH
        Accounts <- Supporters, Deliveries <- Requests

ASSUME LedgerAssumption ==
    /\ NoOne \notin Supporters \cup Events
    /\ MaxClock \in Nat /\ MaxReplays \in Nat /\ MaxDeaths \in Nat
    /\ L!EventsConsistent

rowVars == <<rows, delivery, clock, audited, replays, deaths>>

MCInit == part \in {"checkout", "ledger"} /\ Init /\ L!Init

\* A behaviour of the ledger has a delivery repeated or one lost half way, not both.
OneMishap == replays + deaths <= 1

MCNext ==
    /\ UNCHANGED part
    /\ \/ part = "checkout" /\ Next /\ UNCHANGED rowVars
       \/ part = "ledger" /\ L!Next /\ UNCHANGED vars

MCSpec == MCInit /\ [][MCNext]_<<part, vars, rowVars>>

\* The steps of the run.
RunSpec == MCInit /\ [][MCNext /\ OneMishap']_<<part, vars, rowVars>>

\* Of the ledger alone.
LedgerSpec == MCInit /\ part = "ledger" /\ [][MCNext]_<<part, vars, rowVars>>

\* A change of a mark is seen by the webhook's before-and-after comparison and
\* audited (recordWebhook; docs/CAS-008-REPORT.md, section 7, F6).
ChangesAudited == L!ChangesAudited

\* However often, late or side by side an event is delivered, it is recorded
\* once, and tied to the account that started its subscription or to none
\* (insertSupporterEvent, recordWebhook).
LedgerSound == L!TypeOK /\ L!OneRowPerEvent /\ L!TiedToOwner

\* Whatever the order of arrival, the marks are what the set of the recorded
\* events implies (supporterStatus, markFor).
ImplementsMark == L!ImplementsMark

\* Requests and keys are interchangeable.
Symmetry == Permutations(Requests) \cup Permutations(Keys)
=============================================================================
