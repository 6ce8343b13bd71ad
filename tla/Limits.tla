------------------------------- MODULE Limits -------------------------------
(***************************************************************************)
(* WindowLimiter (apps/dashboard/src/server/http/limits.ts), the counter   *)
(* behind the limits on sign-up, reading, checkout and cards: one fixed    *)
(* window per key, a bounded number of keys, and one first trip per window *)
(* for the audit (dal/reader-limit.ts).  A check is one synchronous step   *)
(* of one process.                                                         *)
(***************************************************************************)
EXTENDS Integers, Sequences, FiniteSets, SequencesExt

CONSTANTS
    Keys,
    Limit,      \* requests let through in a window
    Window,     \* windowSeconds
    MaxKeys,    \* keys tracked at once
    MaxTime,    \* bound: the clock stops here
    MaxBurst    \* bound: requests of a key at one instant

VARIABLES
    now,
    order,      \* the tracked keys, in the order the map keeps them
    bucket,     \* windowStart and count of the tracked keys
    allowed,    \* history: since a key is tracked, when its requests were let through
    refused,    \* history: and when they were refused
    trips       \* history: and when a first trip was reported

vars == <<now, order, bucket, allowed, refused, trips>>

Tracked == ToSet(order)

Bucket == [start : Nat, count : Nat]

NoBucket == [start |-> 0, count |-> 0]

Instants == Seq(0..MaxTime)

\* Every state is well formed: each key is listed once, and the memory is
\* bounded by MaxKeys whatever keys come.
TypeOK ==
    /\ now \in 0..MaxTime
    /\ order \in Seq(Keys)
    /\ IsInjective(order)
    /\ Len(order) <= MaxKeys
    /\ bucket \in [Keys -> Bucket]
    /\ allowed \in [Keys -> Instants]
    /\ refused \in [Keys -> Instants]
    /\ trips \in [Keys -> Instants]

Init ==
    /\ now = 0
    /\ order = <<>>
    /\ bucket = [k \in Keys |-> NoBucket]
    /\ allowed = [k \in Keys |-> <<>>]
    /\ refused = [k \in Keys |-> <<>>]
    /\ trips = [k \in Keys |-> <<>>]

\* Mutant: the request that opens a window is not counted.
FirstUncounted(start) == [start |-> start, count |-> 0]

\* A window begins with the request that opens it.
First(start) == [start |-> start, count |-> 1]

\* The bucket after one more request of k.
NextBucket(k) ==
    IF k \notin Tracked \/ now - bucket[k].start >= Window
      THEN First(now)
      ELSE [bucket[k] EXCEPT !.count = @ + 1]

Full == Len(order) >= MaxKeys

\* The keys tracked once k is: the oldest entry makes room for a new key.
OrderWith(k) ==
    IF k \in Tracked THEN order
    ELSE Append(IF Full THEN Tail(order) ELSE order, k)

\* The refusal that first crosses the limit in this window.
FirstTrip(b) == b.count = Limit + 1

\* What k did now is noted; a key that is dropped leaves nothing behind.
Note(history, k, happened) ==
    [j \in Keys |-> IF j = k THEN IF happened THEN Append(history[k], now) ELSE history[k]
                    ELSE IF j \in ToSet(OrderWith(k)) THEN history[j]
                    ELSE <<>>]

\* The instants of a history from one moment to another.
During(times, from, to) == {n \in DOMAIN times : times[n] \in from..to}

Check(k) ==
    LET next == NextBucket(k)
        pass == next.count <= Limit
    IN
    /\ Cardinality(During(allowed[k], now, now)) + Cardinality(During(refused[k], now, now)) < MaxBurst
    /\ order' = OrderWith(k)
    /\ bucket' = [j \in Keys |-> IF j = k THEN next
                                ELSE IF j \in ToSet(OrderWith(k)) THEN bucket[j]
                                ELSE NoBucket]
    /\ allowed' = Note(allowed, k, pass)
    /\ refused' = Note(refused, k, ~pass)
    /\ trips' = Note(trips, k, FirstTrip(next))
    /\ UNCHANGED now

Tick ==
    /\ now < MaxTime
    /\ now' = now + 1
    /\ UNCHANGED <<order, bucket, allowed, refused, trips>>

Next == Tick \/ \E k \in Keys : Check(k)

Spec == Init /\ [][Next]_vars

-----------------------------------------------------------------------------
\* However its requests fall, a key that stays tracked passes at most twice
\* its limit in any stretch as long as a window, the end of one window and
\* the beginning of the next, and is refused only in a stretch that reached it.
BoundedRate ==
    \A k \in Tracked :
        /\ \A s, t \in 0..MaxTime :
              t < s + Window => Cardinality(During(allowed[k], s, t)) <= 2 * Limit
        /\ \A n \in DOMAIN refused[k] :
              Cardinality(During(allowed[k], refused[k][n] - Window + 1, refused[k][n])) >= Limit

\* One audit event per trip: what is refused in a stretch is reported in it,
\* and two reports are of two windows, each with its limit of requests.
OneTripPerWindow ==
    \A k \in Tracked :
        /\ \A n \in DOMAIN refused[k] :
              During(trips[k], refused[k][n] - Window + 1, refused[k][n]) # {}
        /\ \A m, n \in DOMAIN trips[k] :
              m < n => Cardinality(During(allowed[k], trips[k][m] + 1, trips[k][n])) >= Limit
=============================================================================
