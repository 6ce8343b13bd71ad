---------------------------- MODULE OutputHistory ----------------------------
(***************************************************************************)
(* What the revisions of an output promise (migration 0015 and             *)
(* docs/CAS-004-REPORT.md, section 1.5): generated once, whole, and from   *)
(* then on only lengthened, each edit made from the revision it follows.   *)
(***************************************************************************)
EXTENDS Integers, Sequences

CONSTANT Outputs     \* a week run's output for one category

VARIABLE history     \* the revisions of each output, revision n at index n + 1

\* An edit names the revision its author read; the others read none.
Deterministic == [kind |-> "deterministic", base |-> 0]
Generated == [kind |-> "generated", base |-> 0]
Edited(n) == [kind |-> "edited", base |-> n]

Init == history = [o \in Outputs |-> <<>>]

Generate(o) ==
    /\ history[o] = <<>>
    /\ history' = [history EXCEPT ![o] = <<Deterministic, Generated>>]

Edit(o) ==
    /\ history[o] # <<>>
    /\ history' = [history EXCEPT ![o] = Append(@, Edited(Len(@) - 1))]

Next == \E o \in Outputs : Generate(o) \/ Edit(o)

Spec == Init /\ [][Next]_history
=============================================================================
