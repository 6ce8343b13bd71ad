---------------------------- MODULE SupporterMark ----------------------------
(***************************************************************************)
(* What the supporter record promises (docs/CAS-008-REPORT.md, sections    *)
(* 1.2 and 7): the mark of an account is a function of the set of provider *)
(* events that are known, whatever the order they were delivered in, how   *)
(* often, and what ran beside them.                                        *)
(***************************************************************************)
EXTENDS Integers, FiniteSets

CONSTANTS
    Accounts,
    Events,     \* the provider's events: [id, type, sub, customer, at, status]
    Owner,      \* the account that started a subscription's checkout, or NoOne
    NoOne

VARIABLES known, mark

\* A status and its rank: the best rank is the account's standing.
Rank(status) == CASE status \in {"active", "trialing"} -> 0
                  [] status = "past_due" -> 1
                  [] OTHER -> 2

\* The account is tied to the subscriptions whose checkout it completed and to
\* the customers they were completed with.
Completed(K, a) == {e \in K : e.type = "completed" /\ Owner[e.sub] = a}

Tied(K, a) ==
    {e.sub : e \in {e \in K : \E c \in Completed(K, a) :
                                 e.sub = c.sub \/ e.customer = c.customer}}

\* The latest status of a subscription, by the event's own instant.
Latest(K, s) == {e \in K : /\ e.sub = s /\ e.status # NoOne
                           /\ \A f \in K : f.sub = s /\ f.status # NoOne => f.at <= e.at}

MarkOf(K, a) ==
    LET ranks == {Rank(e.status) : e \in UNION {Latest(K, s) : s \in Tied(K, a)}} IN
    IF 0 \in ranks THEN "supporter" ELSE IF 1 \in ranks THEN "past_due" ELSE "none"

Init == known = {} /\ mark = [a \in Accounts |-> "none"]

Learn(e) ==
    /\ e \in Events \ known
    /\ known' = known \cup {e}
    /\ mark' = [a \in Accounts |-> MarkOf(known', a)]

Next == \E e \in Events : Learn(e)

Spec == Init /\ [][Next]_<<known, mark>>
=============================================================================
