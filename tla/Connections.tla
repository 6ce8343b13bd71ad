---------------------------- MODULE Connections -----------------------------
(***************************************************************************)
(* The dashboard's pool of database connections: Database (packages/       *)
(* database/src/database.ts) over pg.Pool, one handle per process with     *)
(* four connections and no limit on waiting (server/runtime.ts), and the   *)
(* shapes in which requests take connections from it.                      *)
(*                                                                         *)
(* A read or a transaction takes one and gives it back.  A hand-off or a   *)
(* generation keeps one, with an advisory lock of its session, across a    *)
(* provider's answer (withCheckoutLock, withGenerationLock).  A delivery   *)
(* of the webhook asks for a second one inside its transaction when only   *)
(* the reference names the account (recordWebhook).  The readiness probe   *)
(* has a pool of its own with one connection, and a clock against it.      *)
(***************************************************************************)
EXTENDS Integers, Sequences, FiniteSets

CONSTANTS
    Requests,     \* requests under way at once
    Locks,        \* advisory locks: one per account, one per generation
    NoOne,
    Size,         \* connections of the pool
    MaxDeliveries \* how many deliveries of an unknown session come at once

ASSUME ConnectionsAssumption ==
    /\ IsFiniteSet(Requests) /\ NoOne \notin Requests
    /\ Size \in Nat

VARIABLES
    held,     \* what each request has: 0, 1 or 2 connections
    waiting,  \* the pool's queue, first come first served
    lock,     \* who holds each advisory lock
    request,  \* the kind of each request and where it is
    probe     \* the readiness probe: its place, its own connection, its clock

connectionVars == <<held, waiting, lock, request, probe>>

-----------------------------------------------------------------------------
Kinds == {"read", "handoff", "delivery"}

Places == {"none",
           "asked", "working",            \* one connection: withClient, withTransaction
           "calling",                     \* with the lock, waiting for the provider
           "asked again", "looked up",    \* a second connection in a transaction
           "ended", "audited"}            \* audit, after the first is back

TypeOK ==
    /\ held \in [Requests -> 0..2]
    /\ waiting \in Seq(Requests) /\ Len(waiting) <= Cardinality(Requests)
    /\ lock \in [Locks -> Requests \cup {NoOne}]
    /\ request \in [Requests -> [kind : Kinds, of : Locks, at : Places]]
    /\ probe \in [at : {"none", "acquiring", "querying", "failed", "answered"},
                  late : BOOLEAN, client : {"none", "pending", "out", "back", "destroyed"}]

NoProbe == [at |-> "none", late |-> FALSE, client |-> "none"]

Init ==
    /\ held = [r \in Requests |-> 0]
    /\ waiting = <<>>
    /\ lock = [l \in Locks |-> NoOne]
    /\ \E l \in Locks : request = [r \in Requests |-> [kind |-> "read", of |-> l, at |-> "none"]]
    /\ probe = NoProbe

At(r, place) == request[r].at = place
Go(r, place) == request' = [request EXCEPT ![r].at = place]

\* The connections that are out: each one a request has, counted once.
Out == {c \in Requests \X (1..2) : c[2] <= held[c[1]]}

InUse == Cardinality(Out)

\* pool.connect: a free connection if nobody waits, else the end of the queue.
Take(r) ==
    IF InUse < Size /\ waiting = <<>>
      THEN held' = [held EXCEPT ![r] = @ + 1] /\ UNCHANGED waiting
      ELSE waiting' = Append(waiting, r) /\ UNCHANGED held

\* client.release: a connection, or the one made in place of a destroyed one,
\* goes to who has waited longest.
Give(r) ==
    IF waiting = <<>>
      THEN held' = [held EXCEPT ![r] = @ - 1] /\ UNCHANGED waiting
      ELSE /\ held' = [q \in Requests |-> held[q] - (IF q = r THEN 1 ELSE 0)
                                                  + (IF q = Head(waiting) THEN 1 ELSE 0)]
           /\ waiting' = Tail(waiting)

Waits(r) == \E n \in DOMAIN waiting : waiting[n] = r

-----------------------------------------------------------------------------
Deliveries == {r \in Requests : ~At(r, "none") /\ request[r].kind = "delivery"}

\* A request's first acquisition.
Arrive(r, kind, l) ==
    /\ At(r, "none")
    /\ kind # "handoff" => l = request[r].of
    /\ kind = "delivery" => Cardinality(Deliveries) < MaxDeliveries
    /\ request' = [request EXCEPT ![r] = [kind |-> kind, of |-> l, at |-> "asked"]]
    /\ Take(r)
    /\ UNCHANGED <<lock, probe>>

\* acquire answers.
Begin(r) ==
    /\ At(r, "asked") /\ ~Waits(r)
    /\ Go(r, "working")
    /\ UNCHANGED <<held, waiting, lock, probe>>

\* The connection is not released.
ReadKept(r) ==
    /\ At(r, "working") /\ request[r].kind = "read"
    /\ Go(r, "none")
    /\ UNCHANGED <<held, waiting, lock, probe>>

\* withClient and withTransaction: released on every exit.
Read(r) ==
    /\ At(r, "working") /\ request[r].kind = "read"
    /\ Give(r)
    /\ Go(r, "none")
    /\ UNCHANGED <<lock, probe>>

\* pg_try_advisory_lock: refused at once when another session has it.
TryLock(r) ==
    /\ At(r, "working") /\ request[r].kind = "handoff"
    /\ IF lock[request[r].of] = NoOne
         THEN /\ lock' = [lock EXCEPT ![request[r].of] = r]
              /\ Go(r, "calling")
              /\ UNCHANGED <<held, waiting>>
         ELSE /\ Give(r)
              /\ Go(r, "ended")
              /\ UNCHANGED lock
    /\ UNCHANGED probe

\* The connection goes back with the lock still on its session.
AnsweredLocked(r) ==
    /\ At(r, "calling")
    /\ Give(r)
    /\ Go(r, "ended")
    /\ UNCHANGED <<lock, probe>>

\* The provider answers, or its ten seconds run out; the lock is given back
\* on either exit, then the connection.
Answered(r) ==
    /\ At(r, "calling")
    /\ lock' = [lock EXCEPT ![request[r].of] = NoOne]
    /\ Give(r)
    /\ Go(r, "ended")
    /\ UNCHANGED probe

\* recordWebhook: the session, the subscription and the customer are looked up
\* on its transaction, the reference through the account store.
LookUp(r) ==
    /\ At(r, "working") /\ request[r].kind = "delivery"
    /\ Take(r)
    /\ Go(r, "asked again")
    /\ UNCHANGED <<lock, probe>>

LookedUp(r) ==
    /\ At(r, "asked again") /\ ~Waits(r)
    /\ Give(r)
    /\ Go(r, "looked up")
    /\ UNCHANGED <<lock, probe>>

\* The event is inserted and the transaction commits or rolls back.
Record(r) ==
    /\ At(r, "looked up")
    /\ Give(r)
    /\ Go(r, "ended")
    /\ UNCHANGED <<lock, probe>>

\* audit.append takes a connection of its own once the first is back.
Audit(r) ==
    /\ At(r, "ended")
    /\ Take(r)
    /\ Go(r, "audited")
    /\ UNCHANGED <<lock, probe>>

Done(r) ==
    /\ At(r, "audited") /\ ~Waits(r)
    /\ Give(r)
    /\ Go(r, "none")
    /\ UNCHANGED <<lock, probe>>

-----------------------------------------------------------------------------
(* readinessProbe, on a pool of one connection that nobody else takes from. *)

Asleep == probe.at \in {"none", "failed", "answered"} /\ probe.client # "pending"

Probe ==
    /\ Asleep
    /\ probe' = [at |-> "acquiring", late |-> FALSE, client |-> "pending"]
    /\ UNCHANGED <<held, waiting, lock, request>>

\* The connection is made; one that comes after the clock is destroyed.
Connected ==
    /\ probe.client = "pending"
    /\ probe' = IF probe.late THEN [probe EXCEPT !.client = "destroyed"]
                              ELSE [probe EXCEPT !.client = "out", !.at = "querying"]
    /\ UNCHANGED <<held, waiting, lock, request>>

\* Or it cannot be made.
Unconnected ==
    /\ probe.client = "pending"
    /\ probe' = [probe EXCEPT !.client = "none", !.at = "failed"]
    /\ UNCHANGED <<held, waiting, lock, request>>

\* SELECT 1 answers in time.
Ready ==
    /\ probe.at = "querying"
    /\ probe' = [probe EXCEPT !.at = "answered", !.client = "back"]
    /\ UNCHANGED <<held, waiting, lock, request>>

\* The clock: what is out is destroyed, what is still to come is marked.
Timeout ==
    /\ probe.at \in {"acquiring", "querying"}
    /\ probe' = IF probe.at = "acquiring"
                  THEN [probe EXCEPT !.at = "failed", !.late = TRUE]
                  ELSE [probe EXCEPT !.at = "failed", !.client = "destroyed"]
    /\ UNCHANGED <<held, waiting, lock, request>>

Probing == Probe \/ Connected \/ Unconnected \/ Ready \/ Timeout

Step(r) ==
    \/ Begin(r) \/ Read(r) \/ TryLock(r) \/ Answered(r) \/ LookUp(r)
    \/ LookedUp(r) \/ Record(r) \/ Audit(r) \/ Done(r)

Next ==
    \/ \E r \in Requests : (\E kind \in Kinds, l \in Locks : Arrive(r, kind, l)) \/ Step(r)
    \/ Probing

Spec == Init /\ [][Next]_connectionVars

\* Every query is answered or fails, every provider's answer comes or its
\* time runs out, and what the pool hands over is taken.
Fairness ==
    /\ \A r \in Requests : WF_connectionVars(Step(r))
    /\ WF_connectionVars(Connected \/ Unconnected)
    /\ WF_connectionVars(Timeout)

FairSpec == Spec /\ Fairness

-----------------------------------------------------------------------------
\* What a request is entitled to where it is: one connection while it works,
\* none while it waits for its first, none when it is over.  A generation that
\* is refused holds no connection and no lock (withGenerationLock).
Entitled(r) ==
    CASE At(r, "none") \/ At(r, "ended") -> 0
      [] At(r, "asked") \/ At(r, "audited") -> IF Waits(r) THEN 0 ELSE 1
      [] At(r, "asked again") -> IF Waits(r) THEN 1 ELSE 2
      [] OTHER -> 1

\* No connection is lost and none is handed out twice.
PoolAccounted ==
    /\ InUse <= Size
    /\ waiting # <<>> => InUse = Size
    /\ \A r \in Requests : held[r] = Entitled(r)

\* A lock is held by one request, at work, with the connection it was taken
\* on: none outlives the session it belongs to.
LockOnItsConnection ==
    \A l \in Locks : lock[l] # NoOne =>
        /\ At(lock[l], "calling") /\ request[lock[l]].of = l
        /\ held[lock[l]] = 1

\* A probe that answered gave its connection back, and one that failed leaves
\* none out, not even one that came late.
ProbeLeavesNothing ==
    /\ probe.at = "answered" => probe.client = "back"
    /\ probe.at = "failed" => probe.client # "out"

\* A request that came is served: nobody waits for ever for a connection.
EveryRequestEnds == \A r \in Requests : ~At(r, "none") ~> At(r, "none")

\* "One delivery: bounded, verified, parsed, recorded once by its identifier"
\* (recordWebhook): a delivery taken up is recorded.
DeliveriesRecorded ==
    \A r \in Requests : (At(r, "working") /\ request[r].kind = "delivery") ~> At(r, "ended")
=============================================================================
