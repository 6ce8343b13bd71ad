----------------------------- MODULE RequestLife -----------------------------
(***************************************************************************)
(* What the life of a sign-up request promises (packages/database/src/     *)
(* readers.ts, "requested, verified, decided"): one way, decided at most   *)
(* once and only when verified, and put away only before that.             *)
(***************************************************************************)
CONSTANT Requests

VARIABLE life      \* the stage of each request

Stages == {"absent", "requested", "verified", "approved", "denied", "superseded"}

Onward == [absent |-> {"requested"},
           requested |-> {"verified", "superseded"},
           verified |-> {"approved", "denied"},
           approved |-> {},
           denied |-> {},
           superseded |-> {}]

Init == life = [r \in Requests |-> "absent"]

\* One statement moves one request, and the insertion of another may put it away.
Next ==
    /\ life' \in [Requests -> Stages]
    /\ \A r \in Requests : life'[r] = life[r] \/ life'[r] \in Onward[life[r]]
    /\ \A q, r \in Requests :
          q # r /\ life'[q] # life[q] /\ life'[r] # life[r] =>
             {life'[q], life'[r]} = {"superseded", "requested"}

Spec == Init /\ [][Next]_life
=============================================================================
