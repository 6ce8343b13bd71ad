------------------------------ MODULE Grouping ------------------------------
(***************************************************************************)
(* What the review of a clustering run promises: the memberships of the    *)
(* run stay divided into incidents, none of them empty, and one action     *)
(* joins incidents whole or takes a part out of one.                       *)
(***************************************************************************)
EXTENDS Integers, FiniteSets

CONSTANT Start    \* the incidents the run produced: a partition of its memberships

VARIABLE parts

Init == parts = Start

Merge(named) ==
    /\ Cardinality(named) >= 2
    /\ parts' = (parts \ named) \cup {UNION named}

Split(part, out) ==
    /\ out # {} /\ out # part
    /\ parts' = (parts \ {part}) \cup {out, part \ out}

Next ==
    \/ \E named \in SUBSET parts : Merge(named)
    \/ \E part \in parts : \E out \in SUBSET part : Split(part, out)

Spec == Init /\ [][Next]_parts
=============================================================================
