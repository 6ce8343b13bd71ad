--------------------------- MODULE PlatformProofs ---------------------------
(***************************************************************************)
(* Proofs about the pool of connections, the tool server's calls, the      *)
(* migration runner and the imports, for any number of requests, calls,    *)
(* runners and importers.                                                  *)
(***************************************************************************)
EXTENDS MCPlatform, FiniteSetTheorems, SequenceTheorems, TLAPS

-----------------------------------------------------------------------------
(* The pool: withClient, withTransaction, withCheckoutLock, recordWebhook. *)

InLine(w, r) == \E n \in DOMAIN w : w[n] = r
Distinct(w) == \A m, n \in DOMAIN w : w[m] = w[n] => m = n

\* A request waits once at most, and only where it has asked.
LineSound ==
    /\ Distinct(waiting)
    /\ \A r \in Requests : Waits(r) => request[r].at \in {"asked", "asked again", "audited"}

\* TypeOK but for the length of the line, which follows from LineSound.
PoolTyped ==
    /\ held \in [Requests -> 0..2]
    /\ waiting \in Seq(Requests)
    /\ lock \in [Locks -> Requests \cup {NoOne}]
    /\ request \in [Requests -> [kind : Kinds, of : Locks, at : Places]]

PoolInv == PoolTyped /\ LineSound /\ PoolAccounted /\ LockOnItsConnection

\* The probe's connection is with it only while it works or is still to come.
ProbeInv ==
    /\ probe \in [at : {"none", "acquiring", "querying", "failed", "answered"},
                  late : BOOLEAN, client : {"none", "pending", "out", "back", "destroyed"}]
    /\ probe.at = "acquiring" => probe.client = "pending" /\ ~probe.late
    /\ probe.client = "pending" => IF probe.late THEN probe.at = "failed" ELSE probe.at = "acquiring"
    /\ probe.client = "out" <=> probe.at = "querying"
    /\ probe.at = "answered" => probe.client = "back"

-----------------------------------------------------------------------------
\* The connections that are out are finitely many.
OutOf(h) == {c \in Requests \X (1..2) : c[2] <= h[c[1]]}

LEMMA OutFinite ==
    ASSUME NEW h PROVE IsFiniteSet(OutOf(h)) /\ Cardinality(OutOf(h)) \in Nat
<1>1. IsFiniteSet(1..2)
  <2>1. IsFiniteSet({1})
    BY FS_Singleton
  <2>2. IsFiniteSet({1} \cup {2})
    BY <2>1, FS_AddElement
  <2>3. 1..2 = {1} \cup {2}
    OBVIOUS
  <2>4. QED BY <2>2, <2>3
<1>2. IsFiniteSet(Requests \X (1..2))
  <2> DEFINE pair == 1..2
  <2>1. IsFiniteSet(Requests) /\ IsFiniteSet(pair)
    BY <1>1, ConnectionsAssumption
  <2> HIDE DEF pair
  <2>2. IsFiniteSet(Requests \X pair)
    BY <2>1, FS_Product, Zenon
  <2>3. QED BY <2>2 DEF pair
<1>3. OutOf(h) \subseteq Requests \X (1..2)
  BY DEF OutOf
<1>4. QED BY <1>2, <1>3, FS_Subset, FS_CardinalityType

\* One more with a request is one more out.
LEMMA OneMore ==
    ASSUME NEW h \in [Requests -> 0..2], NEW g \in [Requests -> 0..2], NEW r \in Requests,
           g[r] = h[r] + 1, \A q \in Requests \ {r} : g[q] = h[q]
    PROVE  Cardinality(OutOf(g)) = Cardinality(OutOf(h)) + 1
<1> DEFINE c == <<r, h[r] + 1>>
<1>1. c \notin OutOf(h)
  BY DEF OutOf
<1>2. OutOf(g) = OutOf(h) \cup {c}
  <2>1. ASSUME NEW q \in Requests, NEW n \in 1..2
        PROVE  n <= g[q] <=> n <= h[q] \/ <<q, n>> = c
    BY Z3
  <2>2. c \in Requests \X (1..2)
    OBVIOUS
  <2>3. ASSUME NEW d \in Requests \X (1..2) PROVE d \in OutOf(g) <=> d \in OutOf(h) \/ d = c
    BY <2>1 DEF OutOf
  <2>4. QED BY <2>2, <2>3 DEF OutOf
<1>3. QED BY <1>1, <1>2, OutFinite, FS_AddElement

\* One that passes from a request to another leaves as many out.
LEMMA Passed ==
    ASSUME NEW h \in [Requests -> 0..2], NEW g \in [Requests -> 0..2],
           NEW r \in Requests, NEW q \in Requests, q # r,
           h[r] = g[r] + 1, g[q] = h[q] + 1, \A p \in Requests \ {r, q} : g[p] = h[p]
    PROVE  Cardinality(OutOf(g)) = Cardinality(OutOf(h))
<1> DEFINE k == [h EXCEPT ![r] = g[r]]
<1>1. k \in [Requests -> 0..2] /\ k[r] = g[r] /\ \A p \in Requests \ {r} : k[p] = h[p]
  OBVIOUS
<1> HIDE DEF k
<1>2. Cardinality(OutOf(h)) = Cardinality(OutOf(k)) + 1
  BY <1>1, OneMore
<1>3. g[q] = k[q] + 1 /\ \A p \in Requests \ {q} : g[p] = k[p]
  BY <1>1
<1>4. Cardinality(OutOf(g)) = Cardinality(OutOf(k)) + 1
  BY <1>1, <1>3, OneMore
<1>5. QED BY <1>2, <1>4

LEMMA InUseIs == InUse = Cardinality(OutOf(held)) /\ InUse' = Cardinality(OutOf(held'))
BY DEF InUse, Out, OutOf

-----------------------------------------------------------------------------
LEMMA AtTheEnd ==
    ASSUME NEW S, NEW w \in Seq(S), NEW x \in S, Distinct(w), ~InLine(w, x)
    PROVE  /\ Distinct(Append(w, x))
           /\ \A y : InLine(Append(w, x), y) <=> InLine(w, y) \/ y = x
<1> DEFINE z == Append(w, x)
           k == Len(w)
<1>1. k \in Nat /\ DOMAIN w = 1..k /\ DOMAIN z = 1..(k + 1) /\ z[k + 1] = x
      /\ \A n \in 1..k : z[n] = w[n]
  OBVIOUS
<1> HIDE DEF z, k
<1>2. \A n \in 1..k : w[n] # x
  BY <1>1 DEF InLine
<1>3. \A m, n \in 1..k : w[m] = w[n] => m = n
  BY <1>1 DEF Distinct
<1>4. ASSUME NEW m \in 1..(k + 1), NEW n \in 1..(k + 1), z[m] = z[n] PROVE m = n
  <2>1. m \in 1..k \/ m = k + 1
    BY <1>1
  <2>2. n \in 1..k \/ n = k + 1
    BY <1>1
  <2>3. QED BY <1>1, <1>2, <1>3, <1>4, <2>1, <2>2
<1>5. Distinct(z)
  BY <1>1, <1>4 DEF Distinct
<1>6. ASSUME NEW y PROVE InLine(z, y) <=> InLine(w, y) \/ y = x
  <2>1. \A n : n \in 1..(k + 1) <=> n \in 1..k \/ n = k + 1
    BY <1>1
  <2>2. QED BY <1>1, <2>1 DEF InLine
<1>7. QED BY <1>5, <1>6 DEF z

LEMMA OffTheFront ==
    ASSUME NEW S, NEW w \in Seq(S), w # <<>>, Distinct(w)
    PROVE  /\ Tail(w) \in Seq(S) /\ Distinct(Tail(w))
           /\ Head(w) \in S /\ InLine(w, Head(w))
           /\ \A y : InLine(Tail(w), y) <=> InLine(w, y) /\ y # Head(w)
<1> DEFINE z == Tail(w)
           k == Len(w)
<1>1. k \in Nat /\ k >= 1 /\ DOMAIN w = 1..k /\ DOMAIN z = 1..(k - 1) /\ Head(w) = w[1]
      /\ z \in Seq(S) /\ \A n \in 1..(k - 1) : z[n] = w[n + 1]
  OBVIOUS
<1>2. w[1] \in S
  BY <1>1
<1> HIDE DEF z, k
<1>3. \A m, n \in 1..k : w[m] = w[n] => m = n
  BY <1>1 DEF Distinct
<1>4. ASSUME NEW m \in 1..(k - 1), NEW n \in 1..(k - 1), z[m] = z[n] PROVE m = n
  <2>1. m + 1 \in 1..k /\ n + 1 \in 1..k /\ w[m + 1] = w[n + 1]
    BY <1>1, <1>4
  <2>2. m + 1 = n + 1
    BY <1>3, <2>1
  <2>3. QED BY <2>2
<1>5. Distinct(z)
  BY <1>1, <1>4 DEF Distinct
<1>6. ASSUME NEW y, NEW n \in 1..(k - 1), z[n] = y PROVE InLine(w, y) /\ y # w[1]
  <2>1. n + 1 \in 1..k /\ w[n + 1] = y /\ 1 \in 1..k /\ n + 1 # 1
    BY <1>1, <1>6
  <2>2. QED BY <1>1, <1>3, <2>1 DEF InLine
<1>7. ASSUME NEW y, NEW n \in 1..k, w[n] = y, y # w[1] PROVE InLine(z, y)
  <2>1. n - 1 \in 1..(k - 1) /\ n = (n - 1) + 1
    BY <1>1, <1>7
  <2>2. z[n - 1] = w[n]
    BY <1>1, <2>1
  <2>3. QED BY <1>1, <1>7, <2>1, <2>2 DEF InLine
<1>8. ASSUME NEW y PROVE InLine(z, y) <=> InLine(w, y) /\ y # w[1]
  <2>1. InLine(z, y) => \E n \in 1..(k - 1) : z[n] = y
    BY <1>1 DEF InLine
  <2>2. InLine(w, y) => \E n \in 1..k : w[n] = y
    BY <1>1 DEF InLine
  <2>3. QED BY <1>6, <1>7, <2>1, <2>2
<1>9. InLine(w, w[1])
  BY <1>1 DEF InLine
<1>10. QED BY <1>1, <1>2, <1>5, <1>8, <1>9 DEF z

LEMMA WaitsIs == \A r : (Waits(r) <=> InLine(waiting, r)) /\ (Waits(r)' <=> InLine(waiting', r))
BY DEF Waits, InLine

\* What pool.connect does to a request that has asked for nothing yet.
Joined(r) ==
    /\ held' \in [Requests -> 0..2] /\ waiting' \in Seq(Requests)
    /\ Distinct(waiting')
    /\ InUse' <= Size /\ (waiting' # <<>> => InUse' = Size)
    /\ \A q \in Requests \ {r} : held'[q] = held[q] /\ (Waits(q)' <=> Waits(q))
    /\ held'[r] = IF Waits(r)' THEN held[r] ELSE held[r] + 1

LEMMA TakeJoins ==
    ASSUME PoolTyped, LineSound, InUse <= Size, waiting # <<>> => InUse = Size,
           NEW r \in Requests, ~Waits(r), held[r] \in {0, 1}, Take(r)
    PROVE  Joined(r)
<1>1. CASE InUse < Size /\ waiting = <<>>
  <2>1. held' = [held EXCEPT ![r] = @ + 1] /\ waiting' = waiting
    BY <1>1 DEF Take
  <2>2. held' \in [Requests -> 0..2] /\ held'[r] = held[r] + 1
        /\ \A q \in Requests \ {r} : held'[q] = held[q]
    BY <2>1 DEF PoolTyped
  <2>3. InUse' = InUse + 1
    BY <2>2, OneMore, InUseIs DEF PoolTyped
  <2>4. InUse \in Nat
    BY OutFinite, InUseIs
  <2>5. waiting' = <<>> /\ waiting' \in Seq(Requests)
    BY <1>1, <2>1
  <2>6. \A q : ~Waits(q)' /\ ~Waits(q)
    BY <1>1, <2>1 DEF Waits
  <2>7. Distinct(waiting')
    BY <2>5 DEF Distinct
  <2>8. InUse' <= Size
    BY <1>1, <2>3, <2>4, ConnectionsAssumption
  <2>9. QED BY <2>2, <2>5, <2>6, <2>7, <2>8 DEF Joined
<1>2. CASE ~(InUse < Size /\ waiting = <<>>)
  <2>1. waiting' = Append(waiting, r) /\ held' = held
    BY <1>2 DEF Take
  <2>2. InUse' = InUse /\ InUse = Size
    <3>1. InUse \in Nat
      BY OutFinite, InUseIs
    <3>2. InUse = Size
      BY <1>2, <3>1, ConnectionsAssumption
    <3>3. QED BY <3>2, <2>1, InUseIs
  <2>3. waiting' \in Seq(Requests)
    BY <2>1 DEF PoolTyped
  <2>4. Distinct(waiting') /\ \A q : Waits(q)' <=> Waits(q) \/ q = r
    BY <2>1, AtTheEnd, WaitsIs DEF PoolTyped, LineSound
  <2>5. QED BY <2>1, <2>2, <2>3, <2>4, ConnectionsAssumption DEF Joined, PoolTyped
<1>3. QED BY <1>1, <1>2

\* What client.release does: the first of the line, if there is one, has it.
Left(r) ==
    /\ held' \in [Requests -> 0..2] /\ waiting' \in Seq(Requests)
    /\ Distinct(waiting')
    /\ InUse' <= Size /\ (waiting' # <<>> => InUse' = Size)
    /\ held'[r] = held[r] - 1 /\ ~Waits(r)'
    /\ \A q \in Requests \ {r} :
        \/ held'[q] = held[q] /\ (Waits(q)' <=> Waits(q))
        \/ Waits(q) /\ ~Waits(q)' /\ held'[q] = held[q] + 1

LEMMA GiveLeaves ==
    ASSUME PoolTyped, LineSound, InUse <= Size, waiting # <<>> => InUse = Size,
           \A q \in Requests : Waits(q) => held[q] <= 1,
           NEW r \in Requests, ~Waits(r), held[r] \in {1, 2}, Give(r)
    PROVE  Left(r)
<1>0. InUse \in Nat
  BY OutFinite, InUseIs
<1>1. CASE waiting = <<>>
  <2>1. held' = [held EXCEPT ![r] = @ - 1] /\ waiting' = waiting
    BY <1>1 DEF Give
  <2>2. held' \in [Requests -> 0..2] /\ held'[r] = held[r] - 1
        /\ \A q \in Requests \ {r} : held'[q] = held[q]
    BY <2>1 DEF PoolTyped
  <2>3. held[r] = held'[r] + 1
    BY <2>2
  <2>4. InUse = InUse' + 1 /\ InUse' \in Nat
    BY <2>2, <2>3, OneMore, OutFinite, InUseIs DEF PoolTyped
  <2>5. waiting' = <<>> /\ waiting' \in Seq(Requests)
    BY <1>1, <2>1
  <2>6. \A q : ~Waits(q)' /\ ~Waits(q)
    BY <1>1, <2>1 DEF Waits
  <2>7. Distinct(waiting')
    BY <2>5 DEF Distinct
  <2>8. InUse' <= Size
    <3>1. \A a, b, c \in Nat : a = b + 1 /\ a <= c => b <= c
      OBVIOUS
    <3>2. InUse \in Nat /\ InUse' \in Nat /\ Size \in Nat /\ InUse = InUse' + 1 /\ InUse <= Size
      BY <1>0, <2>4, ConnectionsAssumption
    <3>3. QED BY <3>1, <3>2
  <2>9. QED BY <2>2, <2>5, <2>6, <2>7, <2>8 DEF Left
<1>2. CASE waiting # <<>>
  <2> DEFINE q == Head(waiting)
  <2>1. /\ Tail(waiting) \in Seq(Requests) /\ Distinct(Tail(waiting))
        /\ q \in Requests /\ InLine(waiting, q)
        /\ \A y : InLine(Tail(waiting), y) <=> InLine(waiting, y) /\ y # q
    BY <1>2, OffTheFront DEF PoolTyped, LineSound
  <2>2. q # r /\ Waits(q)
    BY <2>1, WaitsIs
  <2>3. held[q] \in {0, 1}
    BY <2>1, <2>2 DEF PoolTyped
  <2>4. waiting' = Tail(waiting)
        /\ held' = [p \in Requests |-> held[p] - (IF p = r THEN 1 ELSE 0)
                                               + (IF p = q THEN 1 ELSE 0)]
    BY <1>2 DEF Give
  <2>5. waiting' \in Seq(Requests) /\ Distinct(waiting')
    BY <2>1, <2>4
  <2>6. \A p : Waits(p)' <=> Waits(p) /\ p # q
    BY <2>1, <2>4, WaitsIs
  <2> HIDE DEF q
  <2>8. held' \in [Requests -> 0..2] /\ held'[r] = held[r] - 1 /\ held'[q] = held[q] + 1
        /\ \A p \in Requests \ {r, q} : held'[p] = held[p]
    <3>1. held[r] \in {1, 2} /\ \A p \in Requests : held[p] \in 0..2 /\ held'[p] =
              held[p] - (IF p = r THEN 1 ELSE 0) + (IF p = q THEN 1 ELSE 0)
      BY <2>4 DEF PoolTyped
    <3>2. \A p \in Requests : held'[p] \in 0..2
      BY <2>2, <2>3, <3>1
    <3>3. held' = [p \in Requests |-> held'[p]]
      BY <2>4
    <3>4. held' \in [Requests -> 0..2]
      BY <3>2, <3>3
    <3>5. QED BY <2>1, <2>2, <2>3, <3>1, <3>4
  <2>9. InUse' = InUse
    <3>1. held[r] = held'[r] + 1
      BY <2>8
    <3>2. Cardinality(OutOf(held')) = Cardinality(OutOf(held))
      <4>1. held \in [Requests -> 0..2]
        BY DEF PoolTyped
      <4>2. held'[q] = held[q] + 1 /\ \A p \in Requests \ {r, q} : held'[p] = held[p]
        BY <2>8
      <4>3. held' \in [Requests -> 0..2]
        BY <2>8
      <4>4. \A h, g \in [Requests -> 0..2] :
                /\ h[r] = g[r] + 1 /\ g[q] = h[q] + 1
                /\ \A p \in Requests \ {r, q} : g[p] = h[p]
                => Cardinality(OutOf(g)) = Cardinality(OutOf(h))
        BY <2>1, <2>2, Passed
      <4>5. QED BY <3>1, <4>1, <4>2, <4>3, <4>4
    <3>3. QED BY <3>2, InUseIs
  <2>10. InUse' <= Size /\ (waiting' # <<>> => InUse' = Size)
    BY <1>2, <2>9
  <2>11. \A p \in Requests \ {r} :
           \/ held'[p] = held[p] /\ (Waits(p)' <=> Waits(p))
           \/ Waits(p) /\ ~Waits(p)' /\ held'[p] = held[p] + 1
    BY <2>2, <2>6, <2>8
  <2>12. ~Waits(r)'
    BY <2>6
  <2>13. QED BY <2>5, <2>8, <2>10, <2>11, <2>12 DEF Left
<1>3. QED BY <1>1, <1>2

\* What a step of r does to the others: one of them may be handed a connection.
Shifted(r) ==
    /\ held' \in [Requests -> 0..2] /\ waiting' \in Seq(Requests)
    /\ Distinct(waiting')
    /\ InUse' <= Size /\ (waiting' # <<>> => InUse' = Size)
    /\ \A q \in Requests \ {r} :
        \/ held'[q] = held[q] /\ (Waits(q)' <=> Waits(q))
        \/ Waits(q) /\ ~Waits(q)' /\ held'[q] = held[q] + 1

LEMMA ShiftedBy ==
    ASSUME NEW r \in Requests,
           Joined(r) \/ Left(r) \/ (PoolInv /\ UNCHANGED <<held, waiting>>)
    PROVE  Shifted(r)
<1>1. CASE Joined(r)
  BY <1>1 DEF Joined, Shifted
<1>2. CASE Left(r)
  BY <1>2 DEF Left, Shifted
<1>3. CASE PoolInv /\ UNCHANGED <<held, waiting>>
  <2>1. InUse' = InUse
    BY <1>3, InUseIs
  <2>2. \A q : Waits(q)' <=> Waits(q)
    BY <1>3 DEF Waits
  <2>3. QED BY <1>3, <2>1, <2>2 DEF Shifted, PoolInv, PoolTyped, LineSound, PoolAccounted
<1>4. QED BY <1>1, <1>2, <1>3

\* Entitled, by the place and by whether the request waits.
Waiting(place) == IF place = "asked again" THEN 1 ELSE IF place \in {"none", "ended", "asked", "audited"} THEN 0 ELSE 1
Served(place) == IF place = "asked again" THEN 2 ELSE IF place \in {"none", "ended"} THEN 0 ELSE 1

LEMMA EntitledIs ==
    ASSUME NEW r \in Requests
    PROVE  /\ Entitled(r) = IF Waits(r) THEN Waiting(request[r].at) ELSE Served(request[r].at)
           /\ Entitled(r)' = IF Waits(r)' THEN Waiting(request'[r].at) ELSE Served(request'[r].at)
<1>1. Entitled(r) = IF Waits(r) THEN Waiting(request[r].at) ELSE Served(request[r].at)
  BY DEF Entitled, Waiting, Served, At
<1>2. Entitled(r)' = IF Waits(r)' THEN Waiting(request'[r].at) ELSE Served(request'[r].at)
  BY DEF Entitled, Waiting, Served, At
<1>3. QED BY <1>1, <1>2

LEMMA ServedOneMore ==
    ASSUME NEW place \in {"asked", "asked again", "audited"}
    PROVE  (Waiting(place) = 0 /\ Served(place) = 1) \/ (Waiting(place) = 1 /\ Served(place) = 2)
BY DEF Served, Waiting

\* Who is handed a connection is entitled to it.
LEMMA HandedOn ==
    ASSUME NEW q \in Requests, request[q].at \in {"asked", "asked again", "audited"},
           request'[q] = request[q], held[q] = Entitled(q), held'[q] = held[q] + 1,
           Waits(q), ~Waits(q)'
    PROVE  held'[q] = Entitled(q)'
<1>1. Entitled(q) = Waiting(request[q].at) /\ Entitled(q)' = Served(request[q].at)
  BY EntitledIs
<1>2. (held[q] = 0 /\ Entitled(q)' = 1) \/ (held[q] = 1 /\ Entitled(q)' = 2)
  BY <1>1, ServedOneMore
<1>3. held'[q] = held[q] + 1
  OBVIOUS
<1>4. QED BY ONLY <1>2, <1>3

\* A step that leaves r entitled to what it has keeps the invariant.
LEMMA PoolKept ==
    ASSUME PoolInv, NEW r \in Requests, Shifted(r),
           NEW row \in [kind : Kinds, of : Locks, at : Places],
           request' = [request EXCEPT ![r] = row],
           held'[r] = Entitled(r)',
           Waits(r)' => row.at \in {"asked", "asked again", "audited"},
           lock' \in [Locks -> Requests \cup {NoOne}],
           \A l \in Locks : lock'[l] # r => lock'[l] = lock[l] \/ lock'[l] = NoOne,
           \A l \in Locks : lock'[l] = r => row.at = "calling" /\ row.of = l
    PROVE  PoolInv'
<1>1. request' \in [Requests -> [kind : Kinds, of : Locks, at : Places]]
      /\ request'[r] = row /\ \A q \in Requests \ {r} : request'[q] = request[q]
  BY DEF PoolInv, PoolTyped
<1>2. PoolTyped'
  BY <1>1 DEF PoolTyped, Shifted
<1>3. ASSUME NEW q \in Requests, q # r
      PROVE  /\ held'[q] = Entitled(q)'
             /\ Waits(q)' => request'[q].at \in {"asked", "asked again", "audited"}
             /\ request[q].at = "calling" => held'[q] = held[q]
  <2>1. request'[q] = request[q] /\ held[q] = Entitled(q) /\ held[q] \in 0..2
        /\ (Waits(q) => request[q].at \in {"asked", "asked again", "audited"})
    BY <1>1, <1>3 DEF PoolInv, PoolAccounted, LineSound, PoolTyped
  <2>2. CASE held'[q] = held[q] /\ (Waits(q)' <=> Waits(q))
    <3>1. Entitled(q)' = Entitled(q)
      BY <2>1, <2>2, EntitledIs
    <3>2. QED BY <2>1, <2>2, <3>1
  <2>3. CASE Waits(q) /\ ~Waits(q)' /\ held'[q] = held[q] + 1
    <3>1. held'[q] = Entitled(q)'
      BY <2>1, <2>3, HandedOn
    <3>2. request[q].at # "calling"
      BY <2>1, <2>3
    <3>3. QED BY <2>1, <2>3, <3>1, <3>2
  <2>4. QED BY <1>3, <2>2, <2>3 DEF Shifted
<1>4. LineSound'
  BY <1>1, <1>3 DEF LineSound, Shifted
<1>5. PoolAccounted'
  BY <1>3 DEF PoolAccounted, Shifted
<1>6. ASSUME NEW l \in Locks, lock'[l] # NoOne
      PROVE  request'[lock'[l]].at = "calling" /\ request'[lock'[l]].of = l /\ held'[lock'[l]] = 1
  <2>1. CASE lock'[l] = r
    <3>1. row.at = "calling" /\ row.of = l
      BY <2>1
    <3>2. Entitled(r)' = 1
      BY <1>1, <3>1 DEF Entitled, At
    <3>3. QED BY <1>1, <2>1, <3>1, <3>2 DEF At
  <2>2. CASE lock'[l] # r
    <3>1. lock'[l] = lock[l] /\ lock[l] \in Requests \ {r}
      BY <1>6, <2>2 DEF PoolInv, PoolTyped
    <3>2. request[lock[l]].at = "calling" /\ request[lock[l]].of = l /\ held[lock[l]] = 1
      BY <1>6, <3>1 DEF PoolInv, LockOnItsConnection, At
    <3>3. QED BY <1>1, <1>3, <3>1, <3>2 DEF At
  <2>3. QED BY <2>1, <2>2
<1>7. LockOnItsConnection'
  BY <1>6 DEF LockOnItsConnection, At
<1>8. QED BY <1>2, <1>4, <1>5, <1>7 DEF PoolInv

PlaceRow(r, place) == [request[r] EXCEPT !.at = place]

LEMMA GoIs ==
    ASSUME PoolInv, NEW r \in Requests, NEW place \in Places, Go(r, place)
    PROVE  /\ PlaceRow(r, place) \in [kind : Kinds, of : Locks, at : Places]
           /\ PlaceRow(r, place).at = place /\ PlaceRow(r, place).of = request[r].of
           /\ request' = [request EXCEPT ![r] = PlaceRow(r, place)]
<1>1. request \in [Requests -> [kind : Kinds, of : Locks, at : Places]]
  BY DEF PoolInv, PoolTyped
<1>2. request[r] \in [kind : Kinds, of : Locks, at : Places]
  BY <1>1
<1>3. request' = [request EXCEPT ![r] = PlaceRow(r, place)]
  BY <1>1 DEF Go, PlaceRow
<1>4. QED BY <1>2, <1>3 DEF PlaceRow

\* What a request has where it is.
LEMMA HasServed ==
    ASSUME PoolInv, NEW r \in Requests
    PROVE  /\ ~Waits(r) => held[r] = Served(request[r].at)
           /\ Waits(r) => held[r] \in {0, 1}
           /\ request[r].at \notin {"asked", "asked again", "audited"} => ~Waits(r)
           /\ request[r].at # "calling" => \A l \in Locks : lock[l] # r
<1>1. held[r] = Entitled(r) /\ (Waits(r) => request[r].at \in {"asked", "asked again", "audited"})
  BY DEF PoolInv, PoolAccounted, LineSound
<1>2. ~Waits(r) => held[r] = Served(request[r].at)
  BY <1>1, EntitledIs
<1>3. Waits(r) => held[r] \in {0, 1}
  BY <1>1, EntitledIs, ServedOneMore
<1>4. request[r].at # "calling" => \A l \in Locks : lock[l] # r
  <2>1. NoOne # r
    BY ConnectionsAssumption
  <2>2. QED BY <2>1 DEF PoolInv, LockOnItsConnection, At
<1>5. QED BY <1>1, <1>2, <1>3, <1>4

LEMMA AfterTake ==
    ASSUME PoolInv, NEW r \in Requests, ~Waits(r), request[r].at # "calling",
           Take(r), UNCHANGED lock,
           NEW row \in [kind : Kinds, of : Locks, at : Places],
           request' = [request EXCEPT ![r] = row],
           row.at \in {"asked", "asked again", "audited"},
           Served(request[r].at) = Waiting(row.at)
    PROVE  PoolInv'
<1>1. held[r] = Waiting(row.at) /\ \A l \in Locks : lock[l] # r
  BY HasServed
<1>2. held[r] \in {0, 1}
  BY <1>1, ServedOneMore
<1>3. Joined(r)
  BY <1>2, TakeJoins DEF PoolInv, PoolAccounted
<1>4. Shifted(r)
  BY <1>3, ShiftedBy
<1>5. request'[r] = row
  BY DEF PoolInv, PoolTyped
<1>6. held'[r] = Entitled(r)'
  <2>1. CASE Waits(r)'
    <3>1. held'[r] = held[r]
      BY <1>3, <2>1 DEF Joined
    <3>2. QED BY <1>1, <1>5, <2>1, <3>1, EntitledIs
  <2>2. CASE ~Waits(r)'
    <3>1. held'[r] = held[r] + 1
      BY <1>3, <2>2 DEF Joined
    <3>2. Entitled(r)' = Served(row.at)
      BY <1>5, <2>2, EntitledIs
    <3>3. (held[r] = 0 /\ Served(row.at) = 1) \/ (held[r] = 1 /\ Served(row.at) = 2)
      BY <1>1, ServedOneMore
    <3>4. QED BY ONLY <3>1, <3>2, <3>3
  <2>3. QED BY <2>1, <2>2
<1>7. lock' \in [Locks -> Requests \cup {NoOne}]
  BY DEF PoolInv, PoolTyped
<1>8. \A l \in Locks : lock'[l] = lock[l]
  OBVIOUS
<1>9. QED BY <1>1, <1>4, <1>6, <1>7, <1>8, PoolKept

LEMMA AfterGive ==
    ASSUME PoolInv, NEW r \in Requests, ~Waits(r), Give(r),
           NEW row \in [kind : Kinds, of : Locks, at : Places],
           request' = [request EXCEPT ![r] = row],
           row.at \in {"none", "looked up", "ended"},
           IF row.at = "looked up" THEN Served(request[r].at) = 2 ELSE Served(request[r].at) = 1,
           lock' \in [Locks -> Requests \cup {NoOne}],
           \A l \in Locks : lock'[l] # r /\ (lock'[l] = lock[l] \/ lock'[l] = NoOne)
    PROVE  PoolInv'
<1>1. held[r] = Served(request[r].at)
  BY HasServed
<1>2. held[r] \in {1, 2}
  BY <1>1
<1>3. \A q \in Requests : Waits(q) => held[q] <= 1
  <2>1. ASSUME NEW q \in Requests, Waits(q) PROVE held[q] <= 1
    <3>1. held[q] = 0 \/ held[q] = 1
      BY <2>1, HasServed
    <3>2. QED BY ONLY <3>1
  <2>2. QED BY <2>1
<1>4. Left(r)
  BY <1>2, <1>3, GiveLeaves DEF PoolInv, PoolAccounted
<1>5. Shifted(r)
  BY <1>4, ShiftedBy
<1>6. request'[r] = row
  BY DEF PoolInv, PoolTyped
<1>7. held'[r] = Entitled(r)' /\ ~Waits(r)'
  <2>1. held'[r] = held[r] - 1 /\ ~Waits(r)'
    BY <1>4 DEF Left
  <2>2. Entitled(r)' = Served(row.at)
    BY <1>6, <2>1, EntitledIs
  <2>3. Served(row.at) = IF row.at = "looked up" THEN 1 ELSE 0
    BY DEF Served
  <2>4. (held[r] = 2 /\ Served(row.at) = 1) \/ (held[r] = 1 /\ Served(row.at) = 0)
    BY <1>1, <2>3
  <2>5. held'[r] = Entitled(r)'
    BY ONLY <2>1, <2>2, <2>4
  <2>6. QED BY <2>1, <2>5
<1>8. QED BY <1>5, <1>7, PoolKept

LEMMA AfterNeither ==
    ASSUME PoolInv, NEW r \in Requests, ~Waits(r), UNCHANGED <<held, waiting>>,
           NEW row \in [kind : Kinds, of : Locks, at : Places],
           request' = [request EXCEPT ![r] = row],
           Served(request[r].at) = 1, Served(row.at) = 1,
           lock' \in [Locks -> Requests \cup {NoOne}],
           \A l \in Locks : lock'[l] # r => lock'[l] = lock[l],
           \A l \in Locks : lock'[l] = r => row.at = "calling" /\ row.of = l
    PROVE  PoolInv'
<1>1. held[r] = 1
  BY HasServed
<1>2. Shifted(r)
  BY ShiftedBy
<1>3. request'[r] = row
  BY DEF PoolInv, PoolTyped
<1>4. ~Waits(r)'
  BY DEF Waits
<1>5. held'[r] = Entitled(r)'
  BY <1>1, <1>3, <1>4, EntitledIs
<1>6. \A l \in Locks : lock'[l] # r => lock'[l] = lock[l] \/ lock'[l] = NoOne
  OBVIOUS
<1>7. QED BY <1>2, <1>4, <1>5, <1>6, PoolKept

LEMMA PoolStep ==
    ASSUME PoolInv, NEW r \in Requests,
           (\E kind \in Kinds, l \in Locks : Arrive(r, kind, l)) \/ Step(r)
    PROVE  PoolInv'
<1>0. request \in [Requests -> [kind : Kinds, of : Locks, at : Places]]
      /\ lock \in [Locks -> Requests \cup {NoOne}] /\ NoOne # r
  BY ConnectionsAssumption DEF PoolInv, PoolTyped
<1>1. ASSUME NEW kind \in Kinds, NEW l \in Locks, Arrive(r, kind, l) PROVE PoolInv'
  <2> DEFINE row == [kind |-> kind, of |-> l, at |-> "asked"]
  <2>1. request[r].at = "none" /\ Take(r) /\ UNCHANGED lock
        /\ request' = [request EXCEPT ![r] = row]
    BY <1>1 DEF Arrive, At
  <2>2. row \in [kind : Kinds, of : Locks, at : Places] /\ row.at = "asked"
    BY DEF Places
  <2>3. ~Waits(r)
    BY <2>1, HasServed
  <2>4. Served("none") = Waiting("asked")
    BY DEF Served, Waiting
  <2> HIDE DEF row
  <2>5. QED BY <2>1, <2>2, <2>3, <2>4, AfterTake
<1>2. CASE Begin(r)
  <2> DEFINE row == PlaceRow(r, "working")
  <2>1. request[r].at = "asked" /\ ~Waits(r) /\ Go(r, "working") /\ UNCHANGED <<held, waiting>>
        /\ UNCHANGED lock
    BY <1>2 DEF Begin, At
  <2>2. row \in [kind : Kinds, of : Locks, at : Places] /\ row.at = "working"
        /\ request' = [request EXCEPT ![r] = row]
    BY <2>1, GoIs DEF Places
  <2>3. Served("asked") = 1 /\ Served("working") = 1
    BY DEF Served
  <2>4. \A l \in Locks : lock'[l] # r
    BY <2>1, HasServed
  <2> HIDE DEF row
  <2>5. QED BY <1>0, <2>1, <2>2, <2>3, <2>4, AfterNeither
<1>3. CASE TryLock(r)
  <2>1. request[r].at = "working" /\ ~Waits(r) /\ \A l \in Locks : lock[l] # r
    BY <1>3, HasServed DEF TryLock, At
  <2>2. Served("working") = 1 /\ Served("calling") = 1
    BY DEF Served
  <2>3. CASE lock[request[r].of] = NoOne
    <3> DEFINE row == PlaceRow(r, "calling")
    <3>1. lock' = [lock EXCEPT ![request[r].of] = r] /\ Go(r, "calling")
          /\ UNCHANGED <<held, waiting>>
      BY <1>3, <2>3 DEF TryLock
    <3>2. row \in [kind : Kinds, of : Locks, at : Places] /\ row.at = "calling"
          /\ row.of = request[r].of /\ request' = [request EXCEPT ![r] = row]
      BY <3>1, GoIs DEF Places
    <3> HIDE DEF row
    <3>3. lock' \in [Locks -> Requests \cup {NoOne}]
      BY <1>0, <3>1
    <3>4. \A l \in Locks : lock'[l] = IF l = row.of THEN r ELSE lock[l]
      BY <1>0, <3>1, <3>2
    <3>5. \A l \in Locks : lock'[l] # r => lock'[l] = lock[l]
      BY <3>4
    <3>6. \A l \in Locks : lock'[l] = r => row.at = "calling" /\ row.of = l
      BY <2>1, <3>2, <3>4
    <3>7. Served(request[r].at) = 1 /\ Served(row.at) = 1
      BY <2>1, <2>2, <3>2
    <3>8. QED BY <2>1, <3>1, <3>2, <3>3, <3>5, <3>6, <3>7, AfterNeither
  <2>4. CASE lock[request[r].of] # NoOne
    <3> DEFINE row == PlaceRow(r, "ended")
    <3>1. Give(r) /\ Go(r, "ended") /\ UNCHANGED lock
      BY <1>3, <2>4 DEF TryLock
    <3>2. row \in [kind : Kinds, of : Locks, at : Places] /\ row.at = "ended"
          /\ request' = [request EXCEPT ![r] = row]
      BY <3>1, GoIs DEF Places
    <3> HIDE DEF row
    <3>3. QED BY <1>0, <2>1, <2>2, <3>1, <3>2, AfterGive
  <2>5. QED BY <2>3, <2>4
<1>4. CASE Answered(r)
  <2> DEFINE row == PlaceRow(r, "ended")
  <2>1. request[r].at = "calling" /\ Give(r) /\ Go(r, "ended")
        /\ lock' = [lock EXCEPT ![request[r].of] = NoOne]
    BY <1>4 DEF Answered, At
  <2>2. row \in [kind : Kinds, of : Locks, at : Places] /\ row.at = "ended"
        /\ request' = [request EXCEPT ![r] = row]
    BY <2>1, GoIs DEF Places
  <2> HIDE DEF row
  <2>3. ~Waits(r) /\ Served("calling") = 1
    BY <2>1, HasServed DEF Served
  <2>4. lock' \in [Locks -> Requests \cup {NoOne}]
    BY <1>0, <2>1
  <2>5. ASSUME NEW l \in Locks PROVE lock'[l] # r /\ (lock'[l] = lock[l] \/ lock'[l] = NoOne)
    <3>1. lock'[l] = IF l = request[r].of THEN NoOne ELSE lock[l]
      BY <1>0, <2>1
    <3>2. lock[l] = r => request[r].of = l
      BY <1>0 DEF PoolInv, LockOnItsConnection
    <3>3. QED BY <1>0, <3>1, <3>2
  <2>6. QED BY <2>1, <2>2, <2>3, <2>4, <2>5, AfterGive
<1>5. ASSUME NEW from \in {"working", "ended"}, NEW place \in {"asked again", "audited"},
             request[r].at = from, Take(r), Go(r, place), UNCHANGED lock,
             from = "working" <=> place = "asked again"
      PROVE  PoolInv'
  <2> DEFINE row == PlaceRow(r, place)
  <2>1. row \in [kind : Kinds, of : Locks, at : Places] /\ row.at = place
        /\ request' = [request EXCEPT ![r] = row]
    <3>1. place \in Places
      BY DEF Places
    <3>2. QED BY <1>5, <3>1, GoIs
  <2>2. ~Waits(r)
    BY <1>5, HasServed
  <2>3. Served(from) = Waiting(place)
    BY <1>5 DEF Served, Waiting
  <2> HIDE DEF row
  <2>4. QED BY <1>5, <2>1, <2>2, <2>3, AfterTake
<1>6. ASSUME NEW from \in {"working", "asked again", "looked up", "audited"},
             NEW place \in {"none", "looked up", "ended"},
             request[r].at = from, ~Waits(r), Give(r), Go(r, place), UNCHANGED lock,
             from = "asked again" <=> place = "looked up"
      PROVE  PoolInv'
  <2> DEFINE row == PlaceRow(r, place)
  <2>1. row \in [kind : Kinds, of : Locks, at : Places] /\ row.at = place
        /\ request' = [request EXCEPT ![r] = row]
    <3>1. place \in Places
      BY DEF Places
    <3>2. QED BY <1>6, <3>1, GoIs
  <2>2. \A l \in Locks : lock'[l] # r /\ lock'[l] = lock[l]
    BY <1>6, HasServed
  <2>3. IF place = "looked up" THEN Served(from) = 2 ELSE Served(from) = 1
    BY <1>6 DEF Served
  <2> HIDE DEF row
  <2>4. QED BY <1>0, <1>6, <2>1, <2>2, <2>3, AfterGive
<1>7. CASE Read(r) \/ Record(r)
  <2>1. request[r].at \in {"working", "looked up"} => ~Waits(r)
    BY HasServed
  <2>2. QED BY <1>6, <1>7, <2>1 DEF Read, Record, At
<1>8. CASE LookedUp(r) \/ Done(r)
  BY <1>6, <1>8 DEF LookedUp, Done, At
<1>9. CASE LookUp(r) \/ Audit(r)
  BY <1>5, <1>9 DEF LookUp, Audit, At
<1>10. QED BY <1>1, <1>2, <1>3, <1>4, <1>7, <1>8, <1>9 DEF Step

LEMMA PoolStays ==
    ASSUME PoolInv, UNCHANGED <<held, waiting, lock, request>>
    PROVE  PoolInv'
<1>1. InUse' = InUse
  BY InUseIs
<1>2. \A r \in Requests : (Waits(r)' <=> Waits(r)) /\ Entitled(r)' = Entitled(r)
  BY DEF Waits, Entitled, At
<1>3. PoolTyped' /\ LineSound'
  BY <1>2 DEF PoolInv, PoolTyped, LineSound
<1>4. PoolAccounted'
  BY <1>1, <1>2 DEF PoolInv, PoolAccounted
<1>5. LockOnItsConnection'
  BY DEF PoolInv, LockOnItsConnection, At
<1>6. QED BY <1>3, <1>4, <1>5 DEF PoolInv

LEMMA ProbeStep == ProbeInv /\ Probing => ProbeInv'
<1> SUFFICES ASSUME ProbeInv, Probing PROVE ProbeInv'
  OBVIOUS
<1>1. CASE Probe
  BY <1>1 DEF ProbeInv, Probe
<1>2. CASE Connected
  <2>1. CASE probe.late
    BY <1>2, <2>1 DEF ProbeInv, Connected
  <2>2. CASE ~probe.late
    BY <1>2, <2>2 DEF ProbeInv, Connected
  <2>3. QED BY <2>1, <2>2
<1>3. CASE Unconnected
  BY <1>3 DEF ProbeInv, Unconnected
<1>4. CASE Ready
  BY <1>4 DEF ProbeInv, Ready
<1>5. CASE Timeout
  <2>1. CASE probe.at = "acquiring"
    BY <1>5, <2>1 DEF ProbeInv, Timeout
  <2>2. CASE probe.at = "querying"
    BY <1>5, <2>2 DEF ProbeInv, Timeout
  <2>3. QED BY <1>5, <2>1, <2>2 DEF Timeout
<1>6. QED BY <1>1, <1>2, <1>3, <1>4, <1>5 DEF Probing

\* Who waits is one of the requests, once: the line is no longer than they are.
LEMMA LineLength ==
    ASSUME PoolInv
    PROVE  Len(waiting) <= Cardinality(Requests)
<1> DEFINE k == Len(waiting)
<1>1. k \in Nat /\ DOMAIN waiting = 1..k /\ waiting \in [1..k -> Requests]
  BY DEF PoolInv, PoolTyped
<1>2. \A m, n \in 1..k : waiting[m] = waiting[n] => m = n
  BY <1>1 DEF PoolInv, LineSound, Distinct
<1> HIDE DEF k
<1>3. waiting \in Injection(1..k, Requests)
  BY <1>1, <1>2 DEF Injection, IsInjective
<1>4. IsFiniteSet(1..k) /\ Cardinality(1..k) = k
  BY <1>1, FS_Interval
<1>5. Cardinality(1..k) <= Cardinality(Requests)
  BY <1>3, FS_Injection, ConnectionsAssumption
<1>6. QED BY <1>4, <1>5 DEF k

LEMMA PoolInvSound == PoolInv /\ ProbeInv => ConnectionsSound
<1> SUFFICES ASSUME PoolInv, ProbeInv PROVE ConnectionsSound
  OBVIOUS
<1>1. TypeOK
  BY LineLength DEF PoolInv, PoolTyped, ProbeInv, TypeOK
<1>2. ProbeLeavesNothing
  BY DEF ProbeInv, ProbeLeavesNothing
<1>3. QED BY <1>1, <1>2 DEF PoolInv, ConnectionsSound

LEMMA PoolInit == Init => PoolInv /\ ProbeInv
<1> SUFFICES ASSUME Init PROVE PoolInv /\ ProbeInv
  OBVIOUS
<1>1. PoolTyped
  BY DEF Init, PoolTyped, Kinds, Places
<1>2. \A r : ~Waits(r)
  BY DEF Init, Waits
<1>3. LineSound
  <2>1. waiting = <<>>
    BY DEF Init
  <2>2. Distinct(waiting)
    BY <2>1 DEF Distinct
  <2>3. QED BY <1>2, <2>2 DEF LineSound
<1>4. \A r \in Requests : held[r] = Entitled(r)
  <2>1. \A r \in Requests : held[r] = 0 /\ request[r].at = "none"
    BY DEF Init
  <2>2. QED BY <1>2, <2>1, EntitledIs DEF Served
<1>5. InUse = 0
  <2>1. OutOf(held) = {}
    BY DEF Init, OutOf
  <2>2. QED BY <2>1, InUseIs, FS_EmptySet
<1>6. PoolAccounted
  BY <1>4, <1>5, ConnectionsAssumption DEF Init, PoolAccounted
<1>7. LockOnItsConnection
  BY DEF Init, LockOnItsConnection
<1>8. ProbeInv
  BY DEF Init, ProbeInv, NoProbe
<1>9. QED BY <1>1, <1>3, <1>6, <1>7, <1>8 DEF PoolInv

\* No connection is lost and none is handed out twice, a lock is on the
\* connection of the one request that took it, and the probe leaves nothing
\* out: for any number of requests, locks and connections (withClient,
\* withTransaction, withCheckoutLock, withGenerationLock, readinessProbe).
THEOREM PoolSoundness == MCSpec => []ConnectionsSound
<1>1. MCInit => PoolInv /\ ProbeInv
  BY PoolInit DEF MCInit
<1>2. PoolInv /\ ProbeInv /\ [MCNext]_allVars => PoolInv' /\ ProbeInv'
  <2> SUFFICES ASSUME PoolInv, ProbeInv, [MCNext]_allVars PROVE PoolInv' /\ ProbeInv'
    OBVIOUS
  <2>1. CASE UNCHANGED connectionVars
    <3>1. ProbeInv'
      BY <2>1 DEF ProbeInv, connectionVars
    <3>2. QED BY <2>1, <3>1, PoolStays DEF connectionVars
  <2>2. CASE Next
    <3>1. CASE Probing
      <4>1. UNCHANGED <<held, waiting, lock, request>>
        BY <3>1 DEF Probing, Probe, Connected, Unconnected, Ready, Timeout
      <4>2. QED BY <3>1, <4>1, PoolStays, ProbeStep
    <3>2. ASSUME NEW r \in Requests,
                 (\E kind \in Kinds, l \in Locks : Arrive(r, kind, l)) \/ Step(r)
          PROVE  PoolInv' /\ ProbeInv'
      <4>1. UNCHANGED probe
        BY <3>2 DEF Arrive, Step, Begin, Read, TryLock, Answered, LookUp, LookedUp, Record,
                    Audit, Done
      <4>2. ProbeInv'
        BY <4>1 DEF ProbeInv
      <4>3. QED BY <3>2, <4>2, PoolStep
    <3>3. QED BY <2>2, <3>1, <3>2 DEF Next
  <2>3. QED BY <2>1, <2>2 DEF MCNext, Goes, Others, allVars
<1>3. QED BY <1>1, <1>2, PoolInvSound, PTL DEF MCSpec

-----------------------------------------------------------------------------
(* The migration runner: runMigrations over withMigrationLock. *)

\* Every set of natural numbers has a least: of the intervals from 0 to its
\* numbers, which are finite, one has no other below it.
LEMMA Least ==
    ASSUME NEW N, N \subseteq Nat, N # {}
    PROVE  \E x \in N : \A y \in N : x <= y
<1> DEFINE upTo == {0..n : n \in N}
           less == StrictSubsetOrdering(Nat)
<1>1. upTo \subseteq FiniteSubsetsOf(Nat) /\ upTo # {}
  <2>1. ASSUME NEW n \in N PROVE IsFiniteSet(0..n) /\ 0..n \in SUBSET Nat
    BY FS_Interval
  <2>2. QED BY <2>1 DEF FiniteSubsetsOf
<1>2. IsWellFoundedOn(less, FiniteSubsetsOf(Nat))
  BY FS_StrictSubsetOrderingWellFounded
<1>3. \E A \in upTo : \A B \in upTo : ~(<<B, A>> \in less)
  <2> HIDE DEF upTo, less
  <2>1. QED BY <1>1, <1>2, WFMin
<1>4. PICK x \in N : \A y \in N : ~(<<0..y, 0..x>> \in less)
  BY <1>3
<1>5. ASSUME NEW y \in N, y < x PROVE FALSE
  <2>1. 0..y \subseteq 0..x /\ x \in 0..x /\ x \notin 0..y
    BY <1>5
  <2>2. 0..y \in SUBSET Nat /\ 0..x \in SUBSET Nat
    OBVIOUS
  <2>3. 0..y # 0..x
    BY <2>1
  <2>4. <<0..y, 0..x>> \in less
    BY <2>1, <2>2, <2>3 DEF StrictSubsetOrdering
  <2>5. QED BY <1>4, <2>4
<1>6. \A y \in N : x <= y
  BY <1>5
<1>7. QED BY <1>6

\* The least pending version is one: the files are applied in order.
LEMMA NextIsPending ==
    ASSUME NEW r \in Runners, runner[r].files \in Releases, M!Pending(r) # {}
    PROVE  M!NextVersion(r) \in M!Pending(r)
<1>1. M!Pending(r) \subseteq Nat
  BY PlatformAssumption DEF M!Pending
<1>2. \E v \in M!Pending(r) : \A w \in M!Pending(r) : v <= w
  BY <1>1, Least
<1>3. QED BY <1>2 DEF M!NextVersion

RunnerRow == [at : {"start", "loaded", "locked", "applying", "over"}, files : Releases,
              applied : SUBSET M!Versions, outcome : M!Outcomes]

SchemaTyped ==
    /\ owner \in Runners \cup {NoOne}
    /\ recorded = [v \in DOMAIN recorded |-> recorded[v]]
    /\ DOMAIN recorded \subseteq M!Versions
    /\ \A v \in DOMAIN recorded : recorded[v] \in M!Contents
    /\ history \in Seq([version : M!Versions, content : M!Contents, by : Runners])
    /\ runner \in [Runners -> RunnerRow]

\* Who has the lock is at work under it, and nobody else is; what a runner at
\* work took for applied is what is recorded.
OneAtWork ==
    \A r \in Runners :
        /\ runner[r].at \in {"locked", "applying"} => owner = r
        /\ owner = r => runner[r].at \in {"locked", "applying"}
        /\ runner[r].at = "applying" => runner[r].applied = DOMAIN recorded
        /\ runner[r].at # "over" => runner[r].outcome = "none"

SchemaInv ==
    /\ SchemaTyped /\ OneAtWork
    /\ M!RecordedIsDone /\ M!OntoItsOwnHistory /\ M!OutcomeIsTheSchemas

\* A step that does not touch the schema: what a runner says of it, and what
\* it may do to it, is to be shown of that runner alone.
LEMMA SchemaUntouched ==
    ASSUME SchemaInv, NEW r \in Runners, NEW row \in RunnerRow,
           UNCHANGED <<recorded, history>>, owner' \in Runners \cup {NoOne},
           runner' = [runner EXCEPT ![r] = row],
           row.at \in {"locked", "applying"} <=> owner' = r,
           owner' = r \/ owner = owner' \/ (owner = r /\ owner' = NoOne),
           owner' = r => owner = r \/ owner = NoOne,
           row.at = "applying" => row.applied = DOMAIN recorded /\ ~M!Drifted(r)
                                  /\ row.files = runner[r].files,
           row.at # "over" => row.outcome = "none",
           row.outcome = "done" => \A v \in DOMAIN row.files :
               v \in DOMAIN recorded /\ recorded[v] = row.files[v],
           row.outcome = "failed" => \E v \in DOMAIN row.files : row.files[v] \in Broken
    PROVE  SchemaInv'
<1>1. runner' \in [Runners -> RunnerRow] /\ runner'[r] = row
      /\ \A q \in Runners \ {r} : runner'[q] = runner[q]
  BY DEF SchemaInv, SchemaTyped
<1>2. SchemaTyped'
  BY <1>1 DEF SchemaInv, SchemaTyped
<1>3. NoOne \notin Runners
  BY PlatformAssumption
<1>4. ASSUME NEW q \in Runners
      PROVE  /\ runner'[q].at \in {"locked", "applying"} => owner' = q
             /\ owner' = q => runner'[q].at \in {"locked", "applying"}
             /\ runner'[q].at = "applying" => runner'[q].applied = DOMAIN recorded'
             /\ runner'[q].at # "over" => runner'[q].outcome = "none"
  <2>1. CASE q = r
    BY <1>1, <2>1
  <2>2. CASE q # r
    <3>1. runner'[q] = runner[q]
      BY <1>1, <2>2
    <3>2. owner' = q <=> owner = q
      BY <1>3, <2>2
    <3>3. QED BY <3>1, <3>2 DEF SchemaInv, OneAtWork
  <2>3. QED BY <2>1, <2>2
<1>5. OneAtWork'
  BY <1>4 DEF OneAtWork
<1>6. M!RecordedIsDone'
  BY DEF SchemaInv, M!RecordedIsDone
<1>7. M!OntoItsOwnHistory'
  BY <1>1 DEF SchemaInv, M!OntoItsOwnHistory, M!Drifted
<1>8. M!OutcomeIsTheSchemas'
  BY <1>1 DEF SchemaInv, M!OutcomeIsTheSchemas
<1>9. QED BY <1>2, <1>5, <1>6, <1>7, <1>8 DEF SchemaInv

LEMMA RowKept ==
    ASSUME SchemaInv, NEW r \in Runners,
           NEW at \in {"start", "loaded", "locked", "applying", "over"}, NEW o \in M!Outcomes
    PROVE  /\ runner[r] \in RunnerRow
           /\ [runner[r] EXCEPT !.at = at] \in RunnerRow
           /\ [runner[r] EXCEPT !.at = at, !.outcome = o] \in RunnerRow
<1>1. runner[r] \in RunnerRow
  BY DEF SchemaInv, SchemaTyped
<1>2. [runner[r] EXCEPT !.at = at] \in RunnerRow
  BY <1>1 DEF RunnerRow
<1>3. [runner[r] EXCEPT !.at = at, !.outcome = o] \in RunnerRow
  BY <1>1 DEF RunnerRow
<1>4. QED BY <1>1, <1>2, <1>3

\* A run that ends with the lock given back.
LEMMA SchemaEnds ==
    ASSUME SchemaInv, NEW r \in Runners, NEW o \in M!Outcomes, M!End(r, o),
           UNCHANGED <<recorded, history>>,
           owner' = (IF owner = r THEN NoOne ELSE owner),
           o = "done" => \A v \in DOMAIN runner[r].files :
               v \in DOMAIN recorded /\ recorded[v] = runner[r].files[v],
           o = "failed" => \E v \in DOMAIN runner[r].files : runner[r].files[v] \in Broken
    PROVE  SchemaInv'
<1> DEFINE row == [runner[r] EXCEPT !.at = "over", !.outcome = o]
<1>1. row \in RunnerRow /\ row.at = "over" /\ row.outcome = o /\ row.files = runner[r].files
  <2>1. runner[r] \in RunnerRow /\ row \in RunnerRow
    BY Zenon, RowKept
  <2>2. row.at = "over" /\ row.outcome = o /\ row.files = runner[r].files
    BY <2>1 DEF RunnerRow
  <2> HIDE DEF row
  <2>3. QED BY <2>1, <2>2
<1>2. runner' = [runner EXCEPT ![r] = row]
  BY DEF M!End, SchemaInv, SchemaTyped
<1>3. NoOne \notin Runners /\ owner \in Runners \cup {NoOne}
  BY PlatformAssumption DEF SchemaInv, SchemaTyped
<1> HIDE DEF row
<1>4. QED BY <1>1, <1>2, <1>3, SchemaUntouched

LEMMA SchemaApply ==
    ASSUME SchemaInv, NEW r \in Runners, M!Apply(r)
    PROVE  SchemaInv'
<1> DEFINE files == runner[r].files
           v == M!NextVersion(r)
<1>1. runner[r].at = "applying" /\ M!Pending(r) # {} /\ runner[r] \in RunnerRow
  BY RowKept DEF M!Apply, M!Outcomes, SchemaInv, SchemaTyped
<1>2. files \in Releases /\ runner[r].outcome = "none" /\ owner = r
      /\ runner[r].applied = DOMAIN recorded
  BY <1>1 DEF RunnerRow, SchemaInv, OneAtWork
<1>3. v \in DOMAIN files /\ v \notin DOMAIN recorded
  BY <1>1, <1>2, NextIsPending DEF M!Pending
<1> HIDE DEF v
<1>4. CASE files[v] \in Broken
  <2>1. M!End(r, "failed") /\ owner' = NoOne /\ UNCHANGED <<recorded, history>>
    BY <1>4 DEF M!Apply, v
  <2>2. "failed" \in M!Outcomes
    BY DEF M!Outcomes
  <2>3. QED BY <1>2, <1>3, <1>4, <2>1, <2>2, SchemaEnds
<1>5. CASE files[v] \notin Broken
  <2> DEFINE step == [version |-> v, content |-> files[v], by |-> r]
             row == [runner[r] EXCEPT !.applied = @ \cup {v}]
  <2>1. /\ recorded' = [w \in DOMAIN recorded \cup {v} |->
                           IF w = v THEN files[v] ELSE recorded[w]]
        /\ history' = Append(history, step)
        /\ runner' = [runner EXCEPT ![r].applied = @ \cup {v}]
        /\ owner' = owner
    BY <1>3, <1>5 DEF M!Apply, M!Recordable, v
  <2>2. v \in M!Versions /\ files[v] \in M!Contents
    BY <1>2, <1>3 DEF M!Versions, M!Contents
  <2>3. row \in RunnerRow /\ row.at = "applying" /\ row.outcome = "none" /\ row.files = files
        /\ row.applied = DOMAIN recorded \cup {v}
    BY <1>1, <1>2, <2>2 DEF RunnerRow
  <2>4. runner' = [runner EXCEPT ![r] = row] /\ runner \in [Runners -> RunnerRow]
    BY <2>1 DEF SchemaInv, SchemaTyped
  <2>5. runner'[r] = row /\ runner' \in [Runners -> RunnerRow]
        /\ \A q \in Runners \ {r} : runner'[q] = runner[q]
    BY <2>3, <2>4
  <2> HIDE DEF row
  <2>6. DOMAIN recorded' = DOMAIN recorded \cup {v} /\ recorded'[v] = files[v]
        /\ \A w \in DOMAIN recorded : recorded'[w] = recorded[w]
    BY <1>3, <2>1
  <2>7. step \in [version : M!Versions, content : M!Contents, by : Runners]
        /\ step.version = v /\ step.content = files[v]
    BY <2>2
  <2> DEFINE k == Len(history)
  <2>8. history \in Seq([version : M!Versions, content : M!Contents, by : Runners])
    BY DEF SchemaInv, SchemaTyped
  <2> HIDE DEF step
  <2>9. /\ history' \in Seq([version : M!Versions, content : M!Contents, by : Runners])
        /\ k \in Nat /\ DOMAIN history = 1..k /\ DOMAIN history' = 1..(k + 1)
        /\ history'[k + 1] = step /\ \A n \in 1..k : history'[n] = history[n]
    BY <2>1, <2>7, <2>8
  <2> HIDE DEF k
  <2>10. SchemaTyped'
    <3>1. recorded' = [w \in DOMAIN recorded' |-> recorded'[w]]
      BY <2>1
    <3>2. DOMAIN recorded' \subseteq M!Versions
      BY <2>2, <2>6 DEF SchemaInv, SchemaTyped
    <3>3. \A w \in DOMAIN recorded' : recorded'[w] \in M!Contents
      BY <2>2, <2>6 DEF SchemaInv, SchemaTyped
    <3>4. owner' \in Runners \cup {NoOne}
      BY <2>1 DEF SchemaInv, SchemaTyped
    <3>5. QED BY <2>5, <2>9, <3>1, <3>2, <3>3, <3>4 DEF SchemaTyped
  <2>11. ASSUME NEW q \in Runners, q # r
         PROVE  /\ runner'[q] = runner[q] /\ runner[q].at \notin {"locked", "applying"}
                /\ runner[q].at # "over" => runner[q].outcome = "none"
                /\ owner' # q
    BY <1>2, <2>1, <2>5, <2>11 DEF SchemaInv, OneAtWork
  <2>12. OneAtWork'
    BY <1>2, <2>1, <2>3, <2>5, <2>6, <2>11 DEF OneAtWork
  <2>13. M!RecordedIsDone'
    <3>1. /\ DOMAIN recorded = {history[n].version : n \in 1..k}
          /\ \A n \in 1..k : recorded[history[n].version] = history[n].content
          /\ \A m, n \in 1..k : history[m].version = history[n].version => m = n
      BY <2>9 DEF SchemaInv, M!RecordedIsDone
    <3>2. \A n \in 1..(k + 1) : n \in 1..k \/ n = k + 1
      BY <2>9
    <3>3. \A n \in 1..k : n \in 1..(k + 1) /\ history[n].version \in DOMAIN recorded
      BY <2>9, <3>1
    <3>4. k + 1 \in 1..(k + 1)
      BY <2>9
    <3>5. DOMAIN recorded' = {history'[n].version : n \in 1..(k + 1)}
      <4>1. ASSUME NEW w \in DOMAIN recorded' PROVE \E n \in 1..(k + 1) : w = history'[n].version
        BY <2>6, <2>7, <2>9, <3>1, <3>3, <3>4
      <4>2. ASSUME NEW n \in 1..(k + 1) PROVE history'[n].version \in DOMAIN recorded'
        BY <2>6, <2>7, <2>9, <3>2, <3>3
      <4>3. QED BY <4>1, <4>2
    <3>6. \A n \in 1..(k + 1) : recorded'[history'[n].version] = history'[n].content
      <4>1. ASSUME NEW n \in 1..k PROVE recorded'[history'[n].version] = history'[n].content
        BY <2>6, <2>9, <3>1, <3>3
      <4>2. recorded'[history'[k + 1].version] = history'[k + 1].content
        BY <2>6, <2>7, <2>9
      <4>3. QED BY <3>2, <4>1, <4>2
    <3>7. ASSUME NEW m \in 1..(k + 1), NEW n \in 1..(k + 1),
                 history'[m].version = history'[n].version
          PROVE  m = n
      <4>1. CASE m \in 1..k /\ n \in 1..k
        BY <2>9, <3>1, <3>7, <4>1
      <4>2. CASE m = k + 1 /\ n = k + 1
        BY <4>2
      <4>3. CASE m \in 1..k /\ n = k + 1
        BY <1>3, <2>7, <2>9, <3>3, <3>7, <4>3
      <4>4. CASE m = k + 1 /\ n \in 1..k
        BY <1>3, <2>7, <2>9, <3>3, <3>7, <4>4
      <4>5. QED BY <3>2, <4>1, <4>2, <4>3, <4>4
    <3>8. DOMAIN history' = 1..(k + 1)
      BY <2>9
    <3>9. QED BY <3>5, <3>6, <3>7, <3>8 DEF M!RecordedIsDone
  <2>14. M!OntoItsOwnHistory'
    <3>1. \A w \in DOMAIN recorded : w \in DOMAIN files /\ files[w] = recorded[w]
      BY <1>1 DEF SchemaInv, M!OntoItsOwnHistory
    <3>2. ASSUME NEW q \in Runners, runner'[q].at = "applying", NEW w \in DOMAIN recorded'
          PROVE  w \in DOMAIN runner'[q].files /\ runner'[q].files[w] = recorded'[w]
      <4>1. q = r
        BY <2>11, <3>2
      <4>2. QED BY <1>3, <2>3, <2>5, <2>6, <3>1, <4>1
    <3>3. QED BY <3>2 DEF M!OntoItsOwnHistory
  <2>15. M!OutcomeIsTheSchemas'
    <3>1. ASSUME NEW q \in Runners
          PROVE  /\ runner'[q].files = runner[q].files /\ runner'[q].outcome = runner[q].outcome
      BY <1>2, <2>3, <2>5
    <3>2. QED BY <2>6, <3>1 DEF SchemaInv, M!OutcomeIsTheSchemas
  <2>16. QED BY <2>10, <2>12, <2>13, <2>14, <2>15 DEF SchemaInv
<1>6. QED BY <1>4, <1>5

LEMMA SchemaStep ==
    ASSUME SchemaInv, NEW r \in Runners,
           M!Load(r) \/ M!Lock(r) \/ M!Check(r) \/ M!Finish(r) \/ M!Crash(r) \/ M!Restart(r)
    PROVE  SchemaInv'
<1>0. /\ NoOne \notin Runners /\ owner \in Runners \cup {NoOne}
      /\ runner[r] \in RunnerRow
      /\ runner[r].at \in {"locked", "applying"} <=> owner = r
      /\ runner[r].at = "applying" => runner[r].applied = DOMAIN recorded
      /\ runner[r].at # "over" => runner[r].outcome = "none"
      /\ {"none", "no files", "drift", "done", "crashed"} \subseteq M!Outcomes
  BY PlatformAssumption DEF M!Outcomes, SchemaInv, SchemaTyped, OneAtWork
<1>1. ASSUME M!Load(r) PROVE SchemaInv'
  <2>1. runner[r].at = "start" /\ UNCHANGED <<owner, recorded, history>> /\ owner # r
    BY <1>0, <1>1 DEF M!Load
  <2>2. CASE M!End(r, "no files")
    BY <1>0, <2>1, <2>2, SchemaEnds
  <2>3. CASE M!Go(r, "loaded")
    <3> DEFINE row == [runner[r] EXCEPT !.at = "loaded"]
    <3>1. row \in RunnerRow /\ row.at = "loaded" /\ row.outcome = "none"
      BY <1>0, <2>1 DEF RunnerRow
    <3>2. runner' = [runner EXCEPT ![r] = row]
      BY <2>3 DEF M!Go, SchemaInv, SchemaTyped
    <3> HIDE DEF row
    <3>3. QED BY <1>0, <2>1, <3>1, <3>2, SchemaUntouched
  <2>4. QED BY <1>1, <2>2, <2>3 DEF M!Load
<1>2. ASSUME M!Lock(r) PROVE SchemaInv'
  <2> DEFINE row == [runner[r] EXCEPT !.at = "locked"]
  <2>1. runner[r].at = "loaded" /\ owner = NoOne /\ owner' = r /\ M!Go(r, "locked")
        /\ UNCHANGED <<recorded, history>>
    BY <1>2 DEF M!Lock, M!LockFree
  <2>2. row \in RunnerRow /\ row.at = "locked" /\ row.outcome = "none"
    BY <1>0, <2>1 DEF RunnerRow
  <2>3. runner' = [runner EXCEPT ![r] = row]
    BY <2>1 DEF M!Go, SchemaInv, SchemaTyped
  <2> HIDE DEF row
  <2>4. QED BY <1>0, <2>1, <2>2, <2>3, SchemaUntouched
<1>3. ASSUME M!Check(r) PROVE SchemaInv'
  <2>1. runner[r].at = "locked" /\ owner = r /\ UNCHANGED <<recorded, history>>
    BY <1>0, <1>3 DEF M!Check
  <2>2. CASE M!Drifted(r)
    <3>1. M!End(r, "drift") /\ owner' = NoOne
      BY <1>3, <2>2 DEF M!Check
    <3>2. QED BY <1>0, <2>1, <3>1, SchemaEnds
  <2>3. CASE ~M!Drifted(r)
    <3> DEFINE row == [runner[r] EXCEPT !.at = "applying", !.applied = DOMAIN recorded]
    <3>1. runner' = [runner EXCEPT ![r] = row] /\ owner' = owner
      BY <1>3, <2>3 DEF M!Check, SchemaInv, SchemaTyped
    <3>2. row \in RunnerRow /\ row.at = "applying" /\ row.outcome = "none"
          /\ row.applied = DOMAIN recorded /\ row.files = runner[r].files
      BY <1>0, <2>1 DEF RunnerRow, SchemaInv, SchemaTyped
    <3> HIDE DEF row
    <3>3. QED BY <1>0, <2>1, <2>3, <3>1, <3>2, SchemaUntouched
  <2>4. QED BY <2>2, <2>3
<1>4. ASSUME M!Finish(r) PROVE SchemaInv'
  <2>1. runner[r].at = "applying" /\ M!Pending(r) = {} /\ M!End(r, "done") /\ owner' = NoOne
        /\ owner = r /\ UNCHANGED <<recorded, history>>
    BY <1>0, <1>4 DEF M!Finish
  <2>2. \A v \in DOMAIN runner[r].files : v \in DOMAIN recorded
    BY <1>0, <2>1 DEF M!Pending
  <2>3. \A v \in DOMAIN recorded : recorded[v] = runner[r].files[v]
    BY <2>1 DEF SchemaInv, M!OntoItsOwnHistory
  <2>4. QED BY <1>0, <2>1, <2>2, <2>3, SchemaEnds
<1>5. ASSUME M!Crash(r) PROVE SchemaInv'
  <2>1. M!End(r, "crashed") /\ owner' = (IF owner = r THEN NoOne ELSE owner)
        /\ UNCHANGED <<recorded, history>>
    BY <1>5 DEF M!Crash
  <2>2. QED BY <1>0, <2>1, SchemaEnds
<1>6. ASSUME M!Restart(r) PROVE SchemaInv'
  <2>1. runner[r].at = "over" /\ owner # r /\ UNCHANGED <<owner, recorded, history>>
    BY <1>0, <1>6 DEF M!Restart
  <2>2. PICK files \in Releases : runner' = [runner EXCEPT ![r] =
            [at |-> "start", files |-> files, applied |-> {}, outcome |-> "none"]]
    BY <1>6 DEF M!Restart
  <2> DEFINE row == [at |-> "start", files |-> files, applied |-> {}, outcome |-> "none"]
  <2>3. row \in RunnerRow /\ row.at = "start" /\ row.outcome = "none"
    BY <1>0 DEF RunnerRow
  <2>4. runner' = [runner EXCEPT ![r] = row]
    BY <2>2
  <2> HIDE DEF row
  <2>5. QED BY <1>0, <2>1, <2>3, <2>4, SchemaUntouched
<1>7. QED BY <1>1, <1>2, <1>3, <1>4, <1>5, <1>6

LEMMA SchemaStays ==
    ASSUME SchemaInv, UNCHANGED schemaVars
    PROVE  SchemaInv'
<1>1. owner' = owner /\ recorded' = recorded /\ history' = history /\ runner' = runner
  BY DEF schemaVars
<1>2. SchemaTyped'
  BY <1>1 DEF SchemaInv, SchemaTyped
<1>3. OneAtWork'
  BY <1>1 DEF SchemaInv, OneAtWork
<1>4. M!RecordedIsDone'
  BY <1>1 DEF SchemaInv, M!RecordedIsDone
<1>5. M!OntoItsOwnHistory' /\ M!OutcomeIsTheSchemas'
  BY <1>1 DEF SchemaInv, M!OntoItsOwnHistory, M!OutcomeIsTheSchemas
<1>6. QED BY <1>2, <1>3, <1>4, <1>5 DEF SchemaInv

LEMMA SchemaInit == MCInit => SchemaInv
<1> SUFFICES ASSUME MCInit PROVE SchemaInv
  OBVIOUS
<1>1. owner = NoOne /\ recorded = M!NoRow /\ history = <<>>
  BY DEF MCInit, M!Init
<1>2. PICK first \in {"start", "over"}, packed \in [Runners -> Releases] :
         runner = [r \in Runners |->
             [at |-> first, files |-> packed[r], applied |-> {}, outcome |-> "none"]]
  <2>1. CASE part = "schema"
    <3>1. M!Init
      BY <2>1 DEF MCInit
    <3>2. QED BY <3>1 DEF M!Init
  <2>2. CASE part # "schema"
    <3> DEFINE packed == [r \in Runners |-> CHOOSE files \in Releases : TRUE]
    <3>1. packed \in [Runners -> Releases]
      BY PlatformAssumption
    <3>2. runner = [r \in Runners |->
             [at |-> "over", files |-> packed[r], applied |-> {}, outcome |-> "none"]]
      BY <2>2 DEF MCInit
    <3>3. QED BY <3>1, <3>2
  <2>3. QED BY <2>1, <2>2
<1>3. \A r \in Runners : /\ runner[r] \in RunnerRow /\ runner[r].at = first
                         /\ runner[r].outcome = "none"
  BY <1>2 DEF RunnerRow, M!Outcomes
<1>4. runner = [r \in Runners |-> runner[r]]
  BY <1>2
<1>5. DOMAIN recorded = {} /\ recorded = [v \in DOMAIN recorded |-> recorded[v]]
  BY <1>1 DEF M!NoRow
<1>6. SchemaTyped
  <2>1. runner \in [Runners -> RunnerRow]
    BY <1>3, <1>4
  <2>2. history \in Seq([version : M!Versions, content : M!Contents, by : Runners])
    BY <1>1
  <2>3. QED BY <1>1, <1>5, <2>1, <2>2 DEF SchemaTyped
<1>7. OneAtWork
  BY <1>1, <1>3, PlatformAssumption DEF OneAtWork
<1>8. DOMAIN history = {}
  BY <1>1
<1>9. M!RecordedIsDone
  BY <1>5, <1>8 DEF M!RecordedIsDone
<1>10. M!OntoItsOwnHistory /\ M!OutcomeIsTheSchemas
  BY <1>3, <1>5 DEF M!OntoItsOwnHistory, M!OutcomeIsTheSchemas
<1>11. QED BY <1>6, <1>7, <1>9, <1>10 DEF SchemaInv

LEMMA SchemaInvSound == SchemaInv => MigrationsSound
<1> SUFFICES ASSUME SchemaInv PROVE MigrationsSound
  OBVIOUS
<1>1. M!TypeOK
  <2>1. \A n \in DOMAIN history :
            history[n] \in [version : M!Versions, content : M!Contents, by : Runners]
    <3> DEFINE Entry == [version : M!Versions, content : M!Contents, by : Runners]
    <3>1. history \in Seq(Entry)
      BY DEF SchemaInv, SchemaTyped
    <3> HIDE DEF Entry
    <3>2. \A n \in DOMAIN history : history[n] \in Entry
      BY <3>1
    <3>3. QED BY <3>2 DEF Entry
  <2>2. \A r \in Runners :
            /\ runner[r].files \in Releases /\ runner[r].applied \subseteq M!Versions
            /\ runner[r].at \in {"start", "loaded", "locked", "applying", "over"}
            /\ runner[r].outcome \in M!Outcomes
    BY DEF SchemaInv, SchemaTyped, RunnerRow
  <2>3. QED BY <2>1, <2>2 DEF SchemaInv, SchemaTyped, M!TypeOK
<1>2. QED BY <1>1 DEF SchemaInv, MigrationsSound

\* However many runners of however many releases run, crash and run again, the
\* table says what was done to the schema, once each; nothing is done to a
\* schema of another history; and a run reports what the schema is
\* (runMigrations, withMigrationLock, detectDrift).
THEOREM SchemaSoundness == MCSpec => []MigrationsSound
<1>1. SchemaInv /\ [MCNext]_allVars => SchemaInv'
  <2> SUFFICES ASSUME SchemaInv, [MCNext]_allVars PROVE SchemaInv'
    OBVIOUS
  <2>1. CASE UNCHANGED schemaVars
    BY <2>1, SchemaStays
  <2>2. CASE M!Next
    <3>1. PICK r \in Runners :
             M!Load(r) \/ M!Lock(r) \/ M!Check(r) \/ M!Apply(r) \/ M!Finish(r) \/ M!Crash(r)
             \/ M!Restart(r)
      BY <2>2 DEF M!Next
    <3>2. QED BY <3>1, SchemaStep, SchemaApply
  <2>3. QED BY <2>1, <2>2 DEF MCNext, Goes, Others, allVars
<1>2. QED BY <1>1, SchemaInit, SchemaInvSound, PTL DEF MCSpec

-----------------------------------------------------------------------------
(* The tool server's calls: invokeTool, CallLimiter, awaitWithinScope, close. *)

\* The window of the limiter never grows by being looked at.
LEMMA RecentIs ==
    ASSUME starts \in Seq(0..MaxTime)
    PROVE  T!Recent \in Seq(0..MaxTime) /\ Len(T!Recent) <= Len(starts)
<1> DEFINE within == {n \in DOMAIN starts : starts[n] > now - Window}
           oldest == CHOOSE n \in within : \A m \in within : n <= m
<1>1. DOMAIN starts = 1..Len(starts) /\ Len(starts) \in Nat
  OBVIOUS
<1>2. CASE within = {}
  <2>1. T!Recent = <<>>
    BY <1>2 DEF T!Recent
  <2>2. QED BY <1>1, <2>1
<1>3. CASE within # {}
  <2>1. within \subseteq Nat
    BY <1>1
  <2>2. oldest \in within
    <3>1. \E n \in within : \A m \in within : n <= m
      BY <1>3, <2>1, Least
    <3>2. QED BY <3>1
  <2>3. T!Recent = SubSeq(starts, oldest, Len(starts))
    BY <1>3 DEF T!Recent
  <2>4. oldest \in 1..Len(starts)
    BY <1>1, <2>2
  <2> HIDE DEF oldest
  <2>5. \A i \in oldest..Len(starts) : starts[i] \in 0..MaxTime
    <3> DEFINE times == 0..MaxTime
    <3>1. starts \in Seq(times)
      OBVIOUS
    <3> HIDE DEF times
    <3>2. \A i \in 1..Len(starts) : starts[i] \in times
      BY <1>1, <3>1
    <3>3. \A i \in oldest..Len(starts) : i \in 1..Len(starts)
      BY <1>1, <2>4
    <3>4. QED BY <3>2, <3>3 DEF times
  <2>6. oldest \in Int /\ Len(starts) \in Int /\ 1 <= oldest /\ oldest <= Len(starts)
    BY <1>1, <2>4
  <2>7. /\ SubSeq(starts, oldest, Len(starts)) \in Seq(0..MaxTime)
        /\ Len(SubSeq(starts, oldest, Len(starts))) = Len(starts) - oldest + 1
    BY <2>5, <2>6, SubSeqProperties
  <2>8. QED BY <2>3, <2>6, <2>7
<1>4. QED BY <1>2, <1>3

\* A call has its permit as long as its work has not settled, answered or not.
CallSound(row) ==
    /\ row.permit <=> row.work \notin {"none", "settled"}
    /\ row.at = "running" => row.permit /\ row.result = "none"
    /\ row.at = "none" => row.work = "none" /\ ~row.cancelling
    /\ row.result = "ok" => row.work = "settled" /\ row.committed /\ row.cause = "none"
    /\ row.result = "timeout" => row.cause = "deadline"

Quiet(row) == row.work \in {"none", "settled"} /\ ~row.cancelling

CallsInv ==
    /\ now \in 0..MaxTime
    /\ starts \in Seq(0..MaxTime) /\ Len(starts) <= Rate
    /\ call \in [Calls -> T!CallRow]
    /\ closing \in {"no", "draining", "store", "closed", "gave up"}
    /\ \A c \in Calls : CallSound(call[c])
    /\ IsFiniteSet(T!Held) /\ Cardinality(T!Held) <= Permits
    /\ closing = "closed" => \A c \in Calls : Quiet(call[c])

HeldIn(rows) == {c \in Calls : rows[c].permit}

\* A step of one call: it takes a permit only while there is one.
LEMMA CallKept ==
    ASSUME CallsInv, NEW c \in Calls, NEW row \in T!CallRow, T!Become(c, row),
           now' = now, starts' \in Seq(0..MaxTime), Len(starts') <= Rate, closing' = closing,
           CallSound(row),
           row.permit => call[c].permit \/ Cardinality(T!Held) < Permits,
           closing = "closed" => Quiet(row)
    PROVE  CallsInv'
<1>1. call' \in [Calls -> T!CallRow] /\ call'[c] = row
      /\ \A d \in Calls \ {c} : call'[d] = call[d]
  BY DEF CallsInv, T!Become
<1>2. \A d \in Calls : CallSound(call'[d])
  BY <1>1 DEF CallsInv
<1>3. T!Held' = IF row.permit THEN T!Held \cup {c} ELSE T!Held \ {c}
  BY <1>1 DEF T!Held
<1>4. IsFiniteSet(T!Held') /\ Cardinality(T!Held') <= Permits
  <2>1. IsFiniteSet(T!Held) /\ Cardinality(T!Held) \in Nat /\ Cardinality(T!Held) <= Permits
    BY FS_CardinalityType DEF CallsInv
  <2>2. CASE row.permit /\ c \in T!Held
    <3>1. T!Held' = T!Held
      BY <1>3, <2>2
    <3>2. QED BY <2>1, <3>1
  <2>3. CASE row.permit /\ c \notin T!Held
    <3>1. Cardinality(T!Held) < Permits
      BY <2>3 DEF T!Held
    <3>2. IsFiniteSet(T!Held \cup {c})
          /\ Cardinality(T!Held \cup {c}) = Cardinality(T!Held) + 1
      BY <2>1, <2>3, FS_AddElement
    <3>3. QED BY <1>3, <2>1, <2>3, <3>1, <3>2, PlatformAssumption
  <2>4. CASE ~row.permit
    <3>1. IsFiniteSet(T!Held \ {c})
          /\ (Cardinality(T!Held \ {c}) = Cardinality(T!Held)
              \/ Cardinality(T!Held \ {c}) = Cardinality(T!Held) - 1)
      BY <2>1, FS_RemoveElement
    <3>2. QED BY <1>3, <2>1, <2>4, <3>1, PlatformAssumption
  <2>5. QED BY <2>2, <2>3, <2>4
<1>5. closing' = "closed" => \A d \in Calls : Quiet(call'[d])
  BY <1>1 DEF CallsInv
<1>6. QED BY <1>1, <1>2, <1>4, <1>5 DEF CallsInv

LEMMA AbortedRow ==
    ASSUME NEW row \in T!CallRow, CallSound(row), NEW cause \in {"deadline", "client", "shutdown"}
    PROVE  /\ T!AbortedBy(row, cause) \in T!CallRow /\ CallSound(T!AbortedBy(row, cause))
           /\ T!AbortedBy(row, cause).permit = row.permit
           /\ Quiet(row) => Quiet(T!AbortedBy(row, cause))
<1>1. CASE row.at = "running" /\ row.cause = "none"
  <2> DEFINE sent == row.work \in {"open", "statement"}
             new == [row EXCEPT !.cause = cause, !.cancelling = sent]
  <2>1. T!AbortedBy(row, cause) = new
    BY <1>1 DEF T!AbortedBy
  <2>2. sent \in BOOLEAN
    OBVIOUS
  <2> HIDE DEF sent
  <2>3. new \in T!CallRow /\ new.permit = row.permit /\ new.at = row.at /\ new.work = row.work
        /\ new.result = row.result /\ new.cause = cause
    BY <2>2 DEF T!CallRow, T!Causes
  <2> HIDE DEF new
  <2>4. CallSound(new)
    BY <1>1, <2>3 DEF CallSound
  <2>5. ~Quiet(row)
    BY <1>1 DEF CallSound, Quiet
  <2>6. QED BY <2>1, <2>3, <2>4, <2>5
<1>2. CASE ~(row.at = "running" /\ row.cause = "none")
  BY <1>2 DEF T!AbortedBy
<1>3. QED BY <1>1, <1>2

LEMMA CallIs ==
    ASSUME CallsInv, NEW c \in Calls
    PROVE  /\ call[c] \in T!CallRow /\ CallSound(call[c])
           /\ closing = "closed" => Quiet(call[c])
           /\ starts \in Seq(0..MaxTime) /\ Len(starts) <= Rate
           /\ now \in 0..MaxTime
BY DEF CallsInv

LEMMA CallStep ==
    ASSUME CallsInv, NEW c \in Calls,
           \/ T!Connect(c) \/ T!Send(c) \/ T!Answer(c) \/ T!Fail(c)
           \/ T!CancelArrives(c) \/ T!CancelFails(c)
    PROVE  CallsInv'
<1>1. /\ call[c] \in T!CallRow /\ CallSound(call[c]) /\ (closing = "closed" => Quiet(call[c]))
      /\ starts \in Seq(0..MaxTime) /\ Len(starts) <= Rate
  BY CallIs
<1>2. ASSUME NEW work \in {"open", "statement", "ending"}, NEW committed \in BOOLEAN,
             NEW cancelling \in BOOLEAN,
             call[c].work \notin {"none", "settled"},
             T!Become(c, [call[c] EXCEPT !.work = work, !.committed = committed,
                                         !.cancelling = cancelling]),
             UNCHANGED <<now, starts, closing>>
      PROVE  CallsInv'
  <2> DEFINE row == [call[c] EXCEPT !.work = work, !.committed = committed,
                                    !.cancelling = cancelling]
  <2>1. /\ row \in T!CallRow /\ row.permit = call[c].permit /\ row.at = call[c].at
        /\ row.cause = call[c].cause /\ row.result = call[c].result /\ row.work = work
    BY <1>1 DEF T!CallRow
  <2> HIDE DEF row
  <2>2. CallSound(row) /\ closing # "closed"
    BY <1>1, <1>2, <2>1 DEF CallSound, Quiet
  <2>3. T!Become(c, row)
    BY <1>2 DEF row
  <2>4. QED BY <1>1, <1>2, <2>1, <2>2, <2>3, CallKept
<1>3. call[c] = [call[c] EXCEPT !.committed = call[c].committed,
                                !.cancelling = call[c].cancelling]
      /\ call[c].committed \in BOOLEAN /\ call[c].cancelling \in BOOLEAN
  BY <1>1 DEF T!CallRow
<1>4. CASE T!Connect(c)
  <2>1. call[c].work = "connecting" /\ UNCHANGED <<now, starts, closing>>
    BY <1>4 DEF T!Connect
  <2>2. \/ T!Become(c, [call[c] EXCEPT !.work = "open"])
        \/ \E asked \in BOOLEAN :
               T!Become(c, [call[c] EXCEPT !.work = "ending", !.cancelling = asked])
    BY <1>4 DEF T!Connect
  <2>3. [call[c] EXCEPT !.work = "open"] =
            [call[c] EXCEPT !.work = "open", !.committed = call[c].committed,
                            !.cancelling = call[c].cancelling]
    BY <1>1 DEF T!CallRow
  <2>4. \A asked \in BOOLEAN : [call[c] EXCEPT !.work = "ending", !.cancelling = asked] =
            [call[c] EXCEPT !.work = "ending", !.committed = call[c].committed,
                            !.cancelling = asked]
    BY <1>1 DEF T!CallRow
  <2>5. CASE T!Become(c, [call[c] EXCEPT !.work = "open"])
    BY <1>2, <1>3, <2>1, <2>3, <2>5
  <2>6. ASSUME NEW asked \in BOOLEAN,
               T!Become(c, [call[c] EXCEPT !.work = "ending", !.cancelling = asked])
        PROVE  CallsInv'
    BY <1>2, <1>3, <2>1, <2>4, <2>6
  <2>7. QED BY <2>2, <2>5, <2>6
<1>5. CASE T!Send(c) \/ T!Answer(c) \/ T!Fail(c)
  <2>1. call[c].work \in {"open", "statement", "connecting"} /\ UNCHANGED <<now, starts, closing>>
    BY <1>5 DEF T!Send, T!Answer, T!Fail
  <2>2. \E work \in {"open", "statement", "ending"}, committed \in {call[c].committed, TRUE} :
            T!Become(c, [call[c] EXCEPT !.work = work, !.committed = committed,
                                        !.cancelling = call[c].cancelling])
    <3>1. \A work \in {"open", "statement", "ending"} : [call[c] EXCEPT !.work = work] =
              [call[c] EXCEPT !.work = work, !.committed = call[c].committed,
                              !.cancelling = call[c].cancelling]
      BY <1>1 DEF T!CallRow
    <3>2. [call[c] EXCEPT !.work = "ending", !.committed = TRUE] =
              [call[c] EXCEPT !.work = "ending", !.committed = TRUE,
                              !.cancelling = call[c].cancelling]
      BY <1>1 DEF T!CallRow
    <3>3. \/ \E work \in {"open", "statement", "ending"} :
                 T!Become(c, [call[c] EXCEPT !.work = work])
          \/ T!Become(c, [call[c] EXCEPT !.work = "ending", !.committed = TRUE])
      <4>1. CASE T!Send(c)
        <5>1. CASE T!MaySend(c)
          BY <4>1, <5>1 DEF T!Send
        <5>2. CASE ~T!MaySend(c)
          BY <4>1, <5>2 DEF T!Send
        <5>3. QED BY <5>1, <5>2
      <4>2. CASE T!Answer(c)
        BY <4>2 DEF T!Answer
      <4>3. CASE T!Fail(c)
        BY <4>3 DEF T!Fail
      <4>4. QED BY <1>5, <4>1, <4>2, <4>3
    <3>4. QED BY <3>1, <3>2, <3>3
  <2>3. QED BY <1>2, <1>3, <2>1, <2>2
<1>6. CASE T!CancelArrives(c) \/ T!CancelFails(c)
  <2> DEFINE row(work) == [call[c] EXCEPT !.work = work, !.cancelling = FALSE]
  <2>1. PICK work \in {call[c].work, "ending"} :
            /\ T!Become(c, row(work))
            /\ work # call[c].work => call[c].work = "statement"
    <3>1. row(call[c].work) = [call[c] EXCEPT !.cancelling = FALSE]
      BY <1>1 DEF T!CallRow
    <3>2. CASE T!CancelFails(c)
      BY <3>1, <3>2 DEF T!CancelFails
    <3>3. CASE T!CancelArrives(c) /\ call[c].work = "statement"
      <4>1. T!Become(c, row("ending"))
        BY <3>3 DEF T!CancelArrives
      <4>2. QED BY <3>3, <4>1
    <3>4. CASE T!CancelArrives(c) /\ call[c].work # "statement"
      <4>1. T!Become(c, row(call[c].work))
        BY <3>4 DEF T!CancelArrives
      <4>2. QED BY <4>1
    <3>5. QED BY <1>6, <3>2, <3>3, <3>4
  <2>2. /\ row(work) \in T!CallRow /\ row(work).permit = call[c].permit
        /\ row(work).at = call[c].at /\ row(work).cause = call[c].cause
        /\ row(work).result = call[c].result /\ row(work).work = work
        /\ row(work).committed = call[c].committed /\ row(work).cancelling = FALSE
    BY <1>1 DEF T!CallRow
  <2> HIDE DEF row
  <2>3. CallSound(row(work)) /\ (closing = "closed" => Quiet(row(work)))
    BY <1>1, <2>1, <2>2 DEF CallSound, Quiet
  <2>4. UNCHANGED <<now, starts, closing>>
    BY <1>6 DEF T!CancelArrives, T!CancelFails
  <2>5. QED BY <1>1, <2>1, <2>2, <2>3, <2>4, CallKept
<1>7. QED BY <1>4, <1>5, <1>6

\* The instance's cardinality is the library's.
LEMMA CardinalityIs == ASSUME NEW S PROVE T!Cardinality(S) = Cardinality(S)
BY Zenon DEF T!Cardinality, Cardinality

LEMMA CallStarts ==
    ASSUME CallsInv, NEW c \in Calls, T!Unadmitted(c) \/ T!Admitted(c)
    PROVE  CallsInv'
<1>1. /\ call[c] \in T!CallRow /\ CallSound(call[c]) /\ (closing = "closed" => Quiet(call[c]))
      /\ starts \in Seq(0..MaxTime) /\ Len(starts) <= Rate /\ now \in 0..MaxTime
  BY CallIs
<1>2. T!Recent \in Seq(0..MaxTime) /\ Len(T!Recent) <= Len(starts)
  BY <1>1, RecentIs
<1>3. ASSUME NEW result \in {"refused", "cancelled"}, T!Turned(c, result),
             now' = now, starts' \in Seq(0..MaxTime), Len(starts') <= Rate, closing' = closing
      PROVE  CallsInv'
  <2> DEFINE row == [T!Fresh EXCEPT !.at = "answered", !.result = result]
  <2>1. /\ row \in T!CallRow /\ ~row.permit /\ row.at = "answered" /\ row.work = "none"
        /\ ~row.cancelling /\ row.result = result
    BY DEF T!CallRow, T!Fresh, T!Causes
  <2>2. T!Become(c, row)
    BY <1>3 DEF T!Turned
  <2> HIDE DEF row
  <2>3. CallSound(row) /\ Quiet(row)
    BY <2>1 DEF CallSound, Quiet
  <2>4. QED BY <1>3, <2>1, <2>2, <2>3, CallKept
<1>4. CASE T!Unadmitted(c)
  <2>1. T!Turned(c, "refused") /\ now' = now /\ closing' = closing /\ starts' = T!Recent
    BY <1>4 DEF T!Unadmitted
  <2>2. Len(T!Recent) \in Nat /\ Len(starts) \in Nat
    BY <1>1, <1>2
  <2>3. Len(T!Recent) <= Rate
    BY <1>1, <1>2, <2>2, PlatformAssumption
  <2>4. QED BY <1>2, <1>3, <2>1, <2>3
<1>5. CASE T!Admitted(c)
  <2> DEFINE recent == T!Recent
  <2>a. now' = now /\ closing' = closing
    BY <1>5 DEF T!Admitted
  <2>b. starts' = Append(recent, now)
    BY <1>5 DEF T!Admitted
  <2>c. Len(recent) < Rate /\ Cardinality(T!Held) < Permits
    BY <1>5, CardinalityIs DEF T!Admitted
  <2>1. now' = now /\ closing' = closing /\ starts' = Append(T!Recent, now)
        /\ Len(T!Recent) < Rate /\ Cardinality(T!Held) < Permits
    BY <2>a, <2>b, <2>c
  <2>2. starts' \in Seq(0..MaxTime) /\ Len(starts') <= Rate
    <3> DEFINE times == 0..MaxTime
    <3>1. T!Recent \in Seq(times) /\ now \in times
      BY <1>1, <1>2
    <3> HIDE DEF times
    <3>2. starts' \in Seq(times) /\ Len(starts') = Len(T!Recent) + 1 /\ Len(T!Recent) \in Nat
      BY <2>1, <3>1
    <3>3. QED BY <2>1, <3>2, PlatformAssumption DEF times
  <2>3. CASE T!Turned(c, "refused") \/ T!Turned(c, "cancelled")
    BY <1>3, <2>1, <2>2, <2>3
  <2>4. ASSUME closing = "no",
               T!Become(c, [T!Fresh EXCEPT !.at = "running", !.permit = TRUE,
                                           !.work = "connecting"])
        PROVE  CallsInv'
    <3> DEFINE row == [T!Fresh EXCEPT !.at = "running", !.permit = TRUE, !.work = "connecting"]
    <3>1. /\ row \in T!CallRow /\ row.permit /\ row.at = "running" /\ row.work = "connecting"
          /\ row.result = "none"
      BY DEF T!CallRow, T!Fresh, T!Causes
    <3> HIDE DEF row
    <3>2. CallSound(row)
      BY <3>1 DEF CallSound
    <3>3. T!Become(c, row)
      BY <2>4 DEF row
    <3>4. QED BY <2>1, <2>2, <2>4, <3>1, <3>2, <3>3, CallKept
  <2>5. QED BY <1>5, <2>3, <2>4 DEF T!Admitted
<1>6. QED BY <1>4, <1>5

LEMMA CallEnds ==
    ASSUME CallsInv, NEW c \in Calls,
           \/ T!Settle(c) \/ T!Grace(c)
           \/ \E cause \in {"deadline", "client"} : T!Abort(c, cause)
    PROVE  CallsInv'
<1>1. /\ call[c] \in T!CallRow /\ CallSound(call[c]) /\ (closing = "closed" => Quiet(call[c]))
      /\ starts \in Seq(0..MaxTime) /\ Len(starts) <= Rate
  BY CallIs
<1>2. CASE T!Settle(c)
  <2>1. call[c].work = "ending" /\ UNCHANGED <<now, starts, closing>>
    BY <1>2 DEF T!Settle
  <2>2. PICK result \in (IF call[c].at = "running" THEN T!Result(c) ELSE {call[c].result}) :
            T!Become(c, [call[c] EXCEPT !.work = "settled", !.permit = FALSE,
                                        !.at = "answered", !.result = result])
    BY <1>2 DEF T!Settle
  <2> DEFINE row == [call[c] EXCEPT !.work = "settled", !.permit = FALSE,
                                    !.at = "answered", !.result = result]
  <2>3. /\ result \in {"none", "ok", "refused", "failed", "timeout", "cancelled"}
        /\ result = "ok" => call[c].committed /\ call[c].cause = "none"
        /\ result = "timeout" => call[c].cause = "deadline"
    <3>1. CASE call[c].at = "running"
      BY <2>2, <3>1 DEF T!Result, T!Aborted, T!ErrorFor
    <3>2. CASE call[c].at # "running"
      BY <1>1, <2>2, <3>2 DEF CallSound, T!CallRow
    <3>3. QED BY <3>1, <3>2
  <2>4. /\ row \in T!CallRow /\ ~row.permit /\ row.at = "answered" /\ row.work = "settled"
        /\ row.result = result /\ row.committed = call[c].committed /\ row.cause = call[c].cause
    BY <1>1, <2>3 DEF T!CallRow
  <2> HIDE DEF row
  <2>5. CallSound(row) /\ closing # "closed"
    BY <1>1, <2>1, <2>3, <2>4 DEF CallSound, Quiet
  <2>6. T!Become(c, row)
    BY <2>2 DEF row
  <2>7. QED BY <1>1, <2>1, <2>4, <2>5, <2>6, CallKept
<1>3. CASE T!Grace(c)
  <2> DEFINE row == [call[c] EXCEPT !.at = "answered", !.result = T!ErrorFor(call[c].cause)]
  <2>1. /\ call[c].at = "running" /\ call[c].cause # "none" /\ T!Become(c, row)
        /\ UNCHANGED <<now, starts, closing>>
    BY <1>3 DEF T!Grace, T!Aborted
  <2>2. /\ T!ErrorFor(call[c].cause) \in {"timeout", "cancelled"}
        /\ T!ErrorFor(call[c].cause) = "timeout" => call[c].cause = "deadline"
    BY DEF T!ErrorFor
  <2>3. /\ row \in T!CallRow /\ row.permit = call[c].permit /\ row.at = "answered"
        /\ row.work = call[c].work /\ row.result = T!ErrorFor(call[c].cause)
        /\ row.cause = call[c].cause
    BY <1>1, <2>2 DEF T!CallRow
  <2> HIDE DEF row
  <2>4. CallSound(row) /\ closing # "closed"
    BY <1>1, <2>1, <2>2, <2>3 DEF CallSound, Quiet
  <2>5. QED BY <1>1, <2>1, <2>3, <2>4, CallKept
<1>4. ASSUME NEW cause \in {"deadline", "client"}, T!Abort(c, cause) PROVE CallsInv'
  <2>1. T!Become(c, T!AbortedBy(call[c], cause)) /\ UNCHANGED <<now, starts, closing>>
    BY <1>4 DEF T!Abort
  <2>2. /\ T!AbortedBy(call[c], cause) \in T!CallRow /\ CallSound(T!AbortedBy(call[c], cause))
        /\ T!AbortedBy(call[c], cause).permit = call[c].permit
        /\ Quiet(call[c]) => Quiet(T!AbortedBy(call[c], cause))
    BY <1>1, AbortedRow
  <2>3. QED BY <1>1, <2>1, <2>2, CallKept
<1>5. QED BY <1>2, <1>3, <1>4

LEMMA CallsClose ==
    ASSUME CallsInv, T!Close \/ T!Drained \/ T!StoreClosed \/ T!Tick
    PROVE  CallsInv'
<1>1. CASE T!Close
  <2>1. closing' = "draining" /\ call' = [c \in Calls |-> T!AbortedBy(call[c], "shutdown")]
        /\ UNCHANGED <<now, starts>>
    BY <1>1 DEF T!Close
  <2>2. ASSUME NEW c \in Calls
        PROVE  call'[c] \in T!CallRow /\ CallSound(call'[c]) /\ call'[c].permit = call[c].permit
    BY <2>1, CallIs, AbortedRow
  <2>3. T!Held' = T!Held
    BY <2>2 DEF T!Held
  <2>4. call' \in [Calls -> T!CallRow]
    BY <2>1, <2>2
  <2>5. QED BY <2>1, <2>2, <2>3, <2>4 DEF CallsInv
<1>2. CASE T!Drained \/ T!StoreClosed
  <2>1. /\ closing' \in {"store", "closed", "gave up"}
        /\ closing' = "closed" => T!Working = {} /\ T!Cancelling = {}
        /\ UNCHANGED <<now, starts, call>>
    BY <1>2 DEF T!Drained, T!StoreClosed
  <2>2. closing' = "closed" => \A c \in Calls : Quiet(call[c])
    BY <2>1 DEF T!Working, T!Cancelling, Quiet
  <2>3. T!Held' = T!Held
    BY <2>1 DEF T!Held
  <2>4. QED BY <2>1, <2>2, <2>3 DEF CallsInv
<1>3. CASE T!Tick
  <2>1. now' = now + 1 /\ now < MaxTime /\ UNCHANGED <<starts, call, closing>>
    BY <1>3 DEF T!Tick
  <2>2. now' \in 0..MaxTime
    <3>1. now \in 0..MaxTime
      BY DEF CallsInv
    <3>2. MaxTime \in Nat
      BY PlatformAssumption
    <3>3. now' = now + 1 /\ now < MaxTime
      BY <2>1
    <3>4. QED BY ONLY <3>1, <3>2, <3>3
  <2>3. T!Held' = T!Held
    BY <2>1 DEF T!Held
  <2>4. QED BY <2>1, <2>2, <2>3 DEF CallsInv
<1>4. QED BY <1>1, <1>2, <1>3

LEMMA CallsInit == T!Init => CallsInv
<1> SUFFICES ASSUME T!Init PROVE CallsInv
  OBVIOUS
<1>1. now = 0 /\ starts = <<>> /\ call = [c \in Calls |-> T!Fresh] /\ closing = "no"
  BY DEF T!Init
<1>2. T!Fresh \in T!CallRow /\ CallSound(T!Fresh) /\ T!Fresh.permit = FALSE
  BY DEF T!CallRow, T!Fresh, T!Causes, CallSound
<1>3. T!Held = {}
  BY <1>1, <1>2 DEF T!Held
<1>4. IsFiniteSet(T!Held) /\ Cardinality(T!Held) <= Permits
  BY <1>3, FS_EmptySet, PlatformAssumption
<1>5. QED BY <1>1, <1>2, <1>4, PlatformAssumption DEF CallsInv

LEMMA CallsInvSound == CallsInv => CallsSound
<1> SUFFICES ASSUME CallsInv PROVE CallsSound
  OBVIOUS
<1>1. T!TypeOK
  BY DEF CallsInv, T!TypeOK
<1>2. \A c \in Calls : CallSound(call[c])
  BY DEF CallsInv
<1>3. T!ConnectionsWithinPermits
  <2>1. T!Working \subseteq T!Held
    BY <1>2 DEF T!Working, T!Held, CallSound
  <2>2. IsFiniteSet(T!Held) /\ Cardinality(T!Held) <= Permits
    BY DEF CallsInv
  <2>3. Cardinality(T!Working) <= Cardinality(T!Held) /\ IsFiniteSet(T!Working)
    BY <2>1, <2>2, FS_Subset
  <2>4. Cardinality(T!Working) \in Nat /\ Cardinality(T!Held) \in Nat
    BY <2>2, <2>3, FS_CardinalityType
  <2>5. Cardinality(T!Working) <= Permits
    BY <2>2, <2>3, <2>4, PlatformAssumption
  <2>6. \A c \in T!Working : call[c].permit
    BY <2>1 DEF T!Held
  <2>7. QED BY <2>5, <2>6, CardinalityIs DEF T!ConnectionsWithinPermits
<1>4. T!AnswersTruly
  BY <1>2 DEF T!AnswersTruly, T!Aborted, CallSound
<1>5. T!ClosedLeavesNothing
  <2>1. closing = "closed" => \A c \in Calls : Quiet(call[c]) /\ CallSound(call[c])
    BY <1>2 DEF CallsInv
  <2>2. QED
    BY <2>1 DEF T!ClosedLeavesNothing, T!Working, T!Cancelling, T!Held, Quiet, CallSound
<1>6. QED BY <1>1, <1>3, <1>4, <1>5 DEF CallsSound

\* Of a database nothing is assumed of, no more connections are open at once
\* than there are permits; an answer says what happened; and a server that
\* closed has left nothing open: for any number of calls, permits and rate
\* (invokeTool, CallLimiter.admit, awaitWithinScope, close).
THEOREM CallSoundness == MCSpec => []CallsSound
<1>1. MCInit => CallsInv
  BY CallsInit DEF MCInit
<1>2. CallsInv /\ [MCNext]_allVars => CallsInv'
  <2> SUFFICES ASSUME CallsInv, [MCNext]_allVars PROVE CallsInv'
    OBVIOUS
  <2>1. CASE UNCHANGED callVars
    <3>1. now' = now /\ starts' = starts /\ call' = call /\ closing' = closing
      BY <2>1 DEF callVars
    <3>2. T!Held' = T!Held
      BY <3>1 DEF T!Held
    <3>3. QED BY <3>1, <3>2 DEF CallsInv
  <2>2. CASE T!Next
    <3>1. CASE T!Close \/ T!Drained \/ T!StoreClosed \/ T!Tick
      BY <3>1, CallsClose
    <3>2. ASSUME NEW c \in Calls,
                 \/ T!Unadmitted(c) \/ T!Admitted(c)
                 \/ T!Connect(c) \/ T!Send(c) \/ T!Answer(c) \/ T!Fail(c) \/ T!Settle(c)
                 \/ T!CancelArrives(c) \/ T!CancelFails(c)
                 \/ (\E cause \in {"deadline", "client"} : T!Abort(c, cause)) \/ T!Grace(c)
          PROVE  CallsInv'
      BY <3>2, CallStarts, CallStep, CallEnds
    <3>3. QED BY <2>2, <3>1, <3>2 DEF T!Next
  <2>3. QED BY <2>1, <2>2 DEF MCNext, Goes, Others, allVars
<1>3. QED BY <1>1, <1>2, CallsInvSound, PTL DEF MCSpec

-----------------------------------------------------------------------------
(* The imports: importCsvFile and importSheetsTab over ingestion.ts. *)

\* Of finitely many texts one is longest: of the sets of the texts longer than
\* one of them, which are finite, one has no other within it.
LEMMA LongestIs ==
    /\ I!Longest \in Nat
    /\ \A t \in Texts : t \in Seq(I!Lines) /\ Len(t) <= I!Longest
<1> DEFINE Longer(t) == {u \in Texts : Len(u) > Len(t)}
           longer == {Longer(t) : t \in Texts}
           less == StrictSubsetOrdering(Texts)
<1>1. \A t \in Texts : t \in Seq(I!Lines) /\ Len(t) \in Nat
  BY PlatformAssumption
<1>2. longer \subseteq FiniteSubsetsOf(Texts) /\ longer # {}
  <2>1. ASSUME NEW t \in Texts PROVE IsFiniteSet(Longer(t)) /\ Longer(t) \in SUBSET Texts
    <3>1. Longer(t) \in SUBSET Texts
      OBVIOUS
    <3>2. QED BY <3>1, FS_Subset, PlatformAssumption
  <2> HIDE DEF Longer
  <2>2. QED BY <2>1, PlatformAssumption DEF FiniteSubsetsOf
<1>3. IsWellFoundedOn(less, FiniteSubsetsOf(Texts))
  BY FS_StrictSubsetOrderingWellFounded
<1>4. \E A \in longer : \A B \in longer : ~(<<B, A>> \in less)
  <2> HIDE DEF longer, less
  <2>1. QED BY <1>2, <1>3, WFMin
<1>5. PICK x \in Texts : \A y \in Texts : ~(<<Longer(y), Longer(x)>> \in less)
  <2> HIDE DEF Longer, less
  <2>1. QED BY <1>4
<1>6. ASSUME NEW y \in Texts, Len(y) > Len(x) PROVE FALSE
  <2>1. \A u \in Texts : Len(u) > Len(y) => Len(u) > Len(x)
    BY <1>1, <1>6
  <2>2. ~(Len(y) > Len(y))
    BY <1>1
  <2>3. Longer(y) \subseteq Longer(x) /\ y \in Longer(x) /\ y \notin Longer(y)
    BY <1>6, <2>1, <2>2
  <2>4. Longer(y) \in SUBSET Texts /\ Longer(x) \in SUBSET Texts
    OBVIOUS
  <2> HIDE DEF Longer
  <2>5. <<Longer(y), Longer(x)>> \in less
    BY <2>3, <2>4 DEF StrictSubsetOrdering
  <2>6. QED BY <1>5, <2>5
<1>7. \A y \in Texts : Len(y) <= Len(x)
  BY <1>1, <1>6
<1>8. I!Longest \in {Len(t) : t \in Texts} /\ \A t \in Texts : Len(t) <= I!Longest
  BY <1>7 DEF I!Longest
<1>9. QED BY <1>1, <1>8

LEMMA SeqOfIs ==
    ASSUME NEW S, NEW n \in Nat, NEW s
    PROVE  s \in I!SeqOf(S, n) <=> s \in Seq(S) /\ Len(s) <= n
<1>1. ASSUME NEW m \in 0..n, s \in [1..m -> S] PROVE s \in Seq(S) /\ Len(s) = m
  BY <1>1
<1>2. ASSUME s \in Seq(S) PROVE s \in [1..Len(s) -> S] /\ Len(s) \in Nat
  BY <1>2
<1>3. s \in I!SeqOf(S, n) <=> \E m \in 0..n : s \in [1..m -> S]
  BY DEF I!SeqOf
<1>4. QED BY <1>1, <1>2, <1>3

Readable == I!Lines \ {Blank}

\* ImporterRow, its bounded sequences as sequences.
ImportRow ==
    [pc : {"idle", "inspect", "look", "begin", "write", "finish"},
     source : I!Sources, label : Labels, attempt : 0..MaxImports, seen : 0..I!Longest,
     read : {s \in Seq(Readable) : Len(s) <= I!Longest},
     again : {s \in Seq(Readable) : Len(s) <= I!Longest},
     rows : {s \in Seq(I!Row) : Len(s) <= I!Longest},
     made : SUBSET Urls, held : SUBSET Urls]

LEMMA ImportRowIs == I!ImporterRow = ImportRow
<1>1. I!SeqOf(I!Lines \ {Blank}, I!Longest) = {s \in Seq(Readable) : Len(s) <= I!Longest}
  BY SeqOfIs, LongestIs DEF Readable
<1>2. I!SeqOf(I!Row, I!Longest) = {s \in Seq(I!Row) : Len(s) <= I!Longest}
  BY SeqOfIs, LongestIs
<1>3. QED BY <1>1, <1>2 DEF I!ImporterRow, ImportRow

BatchRow ==
    [key : I!Sources \X Labels \X {s \in Seq(Readable) : Len(s) <= I!Longest},
     rows : {s \in Seq(I!Row) : Len(s) <= I!Longest},
     parsed : 0..I!Longest, quarantined : 0..I!Longest,
     status : {"completed", "completed_with_issues"}]

LEMMA BatchRowIs == I!Batch = BatchRow
<1>1. I!SeqOf(I!Lines \ {Blank}, I!Longest) = {s \in Seq(Readable) : Len(s) <= I!Longest}
  BY SeqOfIs, LongestIs DEF Readable
<1>2. I!SeqOf(I!Row, I!Longest) = {s \in Seq(I!Row) : Len(s) <= I!Longest}
  BY SeqOfIs, LongestIs
<1>3. QED BY <1>1, <1>2 DEF I!Batch, BatchRow

KeyOf(r) == <<r.source, r.label, r.read>>

Writing(r) == r.pc \in {"write", "finish"}

\* Row n of an import is the line it was made of, in the group of its address,
\* which the import made or holds as it found it.
WrittenRow(r, n, g) ==
    LET line == r.rows[n].line group == r.rows[n].group IN
    /\ line = r.again[n]
    /\ IF line = Bad THEN group = 0
       ELSE /\ line \in r.held /\ group # 0
            /\ group = IF line \in r.made THEN r.attempt ELSE g[line]

\* What an importer has under way, by the groups, the batches and the number
\* of the attempts there are.
ImportRowSound(r, g, b, n) ==
    /\ r.pc # "idle" => r.attempt \in 1..n
    /\ Len(r.read) <= r.seen
    /\ ~Writing(r) => r.again = <<>> /\ r.rows = <<>> /\ r.made = {} /\ r.held = {}
    /\ Len(r.rows) = Len(r.again)
    /\ \A m \in 1..Len(r.rows) : WrittenRow(r, m, g)
    /\ r.made \subseteq r.held
    /\ \A u \in r.made :
        g[u] = 0 /\ \E m \in 1..Len(r.rows) : r.rows[m] = [line |-> u, group |-> r.attempt]
    /\ Writing(r) => \A c \in b : c.key # KeyOf(r)
    /\ r.pc = "finish" => r.again = r.read

\* Two imports lock different addresses and write batches of different keys.
Apart(r, s) ==
    /\ r.held \cap s.held = {}
    /\ ~(Writing(r) /\ Writing(s) /\ KeyOf(r) = KeyOf(s))

ImportTyped ==
    /\ text \in [I!Sources -> {t \in Seq(I!Lines) : Len(t) <= I!Longest}]
    /\ edits \in 0..MaxEdits
    /\ groups \in [Urls -> 0..MaxImports]
    /\ batches \subseteq BatchRow
    /\ importer \in [Importers -> ImportRow]
    /\ attempts \in Seq(I!Ends) /\ Len(attempts) <= MaxImports

ImportInv ==
    /\ ImportTyped
    /\ \A x \in Importers : ImportRowSound(importer[x], groups, batches, Len(attempts))
    /\ \A x, y \in Importers : x # y => Apart(importer[x], importer[y])
    /\ I!BatchIsItsRead /\ I!OneBatchPerRead /\ I!RowsAreInTheirGroups /\ I!GroupsAreOfBatches

LEMMA ImportInvSound == ImportInv => IntakeSound
<1> SUFFICES ASSUME ImportInv PROVE IntakeSound
  OBVIOUS
<1>1. \A t : t \in I!SeqOf(I!Lines, I!Longest) <=> t \in Seq(I!Lines) /\ Len(t) <= I!Longest
  BY SeqOfIs, LongestIs
<1>2. I!SeqOf(I!Lines, I!Longest) = {t \in Seq(I!Lines) : Len(t) <= I!Longest}
  BY <1>1
<1>3. I!TypeOK
  BY <1>2, ImportRowIs, BatchRowIs DEF ImportInv, ImportTyped, I!TypeOK
<1>4. QED BY <1>3 DEF ImportInv, IntakeSound

\* An importer that holds nothing.
LEMMA IdleIs ==
    /\ I!Idle \in ImportRow /\ I!Idle.pc = "idle" /\ I!Idle.held = {}
    /\ \A g, b : \A n \in Nat : ImportRowSound(I!Idle, g, b, n)
<1>1. <<>> \in {s \in Seq(Readable) : Len(s) <= I!Longest}
  BY LongestIs
<1>2. <<>> \in {s \in Seq(I!Row) : Len(s) <= I!Longest}
  BY LongestIs
<1>3. I!Idle \in ImportRow
  BY <1>1, <1>2, LongestIs, PlatformAssumption DEF I!Idle, ImportRow, I!Sources
<1>4. QED BY <1>3 DEF I!Idle, ImportRowSound, Writing

\* One importer goes on, and neither the groups nor the batches change.
LEMMA ImporterStep ==
    ASSUME ImportInv, NEW x \in Importers, NEW row \in ImportRow,
           importer' = [importer EXCEPT ![x] = row],
           UNCHANGED <<text, edits, groups, batches>>,
           attempts' \in Seq(I!Ends), Len(attempts') <= MaxImports,
           Len(attempts) <= Len(attempts'),
           ImportRowSound(row, groups, batches, Len(attempts')),
           \A y \in Importers \ {x} : Apart(row, importer[y])
    PROVE  ImportInv'
<1>1. \A y \in Importers : importer'[y] = IF y = x THEN row ELSE importer[y]
  BY DEF ImportInv, ImportTyped
<1>2. ImportTyped'
  BY DEF ImportInv, ImportTyped
<1>3. ASSUME NEW y \in Importers
      PROVE  ImportRowSound(importer'[y], groups, batches, Len(attempts'))
  <2>1. CASE y = x
    BY <1>1, <2>1
  <2>2. CASE y # x
    <3>1. ImportRowSound(importer[y], groups, batches, Len(attempts))
      BY DEF ImportInv
    <3>2. Len(attempts) \in Nat /\ Len(attempts') \in Nat
      BY DEF ImportInv, ImportTyped
    <3>3. ImportRowSound(importer[y], groups, batches, Len(attempts'))
      BY <3>1, <3>2 DEF ImportRowSound
    <3>4. QED BY <1>1, <2>2, <3>3
  <2>3. QED BY <2>1, <2>2
<1>4. ASSUME NEW y \in Importers, NEW z \in Importers, y # z
      PROVE  Apart(importer'[y], importer'[z])
  <2>1. Apart(importer[y], importer[z])
    BY <1>4 DEF ImportInv
  <2>2. Apart(row, importer[y]) => Apart(importer[y], row)
    BY DEF Apart
  <2>3. QED BY <1>1, <1>4, <2>1, <2>2
<1>5. /\ I!BatchIsItsRead' /\ I!OneBatchPerRead'
      /\ I!RowsAreInTheirGroups' /\ I!GroupsAreOfBatches'
  BY DEF ImportInv, I!BatchIsItsRead, I!OneBatchPerRead, I!RowsAreInTheirGroups,
         I!GroupsAreOfBatches, I!Quarantined
<1>6. \A y \in Importers : ImportRowSound(importer'[y], groups', batches', Len(attempts'))
  BY <1>3
<1>7. QED BY <1>2, <1>4, <1>5, <1>6 DEF ImportInv

\* An attempt that ends without its COMMIT leaves nothing.
LEMMA ImportEnds ==
    ASSUME ImportInv, NEW x \in Importers, NEW how \in I!Ends, I!End(x, how),
           importer[x].pc # "idle", UNCHANGED <<text, edits, groups, batches>>
    PROVE  ImportInv'
<1>1. importer[x].attempt \in 1..Len(attempts) /\ Len(attempts) \in Nat
  BY DEF ImportInv, ImportTyped, ImportRowSound
<1>2. attempts' \in Seq(I!Ends) /\ Len(attempts') = Len(attempts)
  BY <1>1 DEF I!End, ImportInv, ImportTyped
<1>3. importer' = [importer EXCEPT ![x] = I!Idle]
  BY DEF I!End, I!Become
<1>4. \A y \in Importers : Apart(I!Idle, importer[y])
  BY IdleIs DEF Apart, Writing
<1>5. Len(attempts') <= MaxImports /\ Len(attempts) <= Len(attempts')
  BY <1>1, <1>2 DEF ImportInv, ImportTyped
<1> DEFINE row == I!Idle
<1>6. row \in ImportRow /\ ImportRowSound(row, groups, batches, Len(attempts'))
  BY <1>1, <1>2, IdleIs
<1>7. importer' = [importer EXCEPT ![x] = row] /\ \A y \in Importers \ {x} : Apart(row, importer[y])
  BY <1>3, <1>4
<1> HIDE DEF row
<1>8. QED BY <1>2, <1>5, <1>6, <1>7, ImporterStep

\* Before its transaction an importer holds nothing: it goes on apart from all.
LEMMA ReaderStep ==
    ASSUME ImportInv, NEW x \in Importers, NEW row \in ImportRow,
           importer' = [importer EXCEPT ![x] = row],
           UNCHANGED <<text, edits, groups, batches>>,
           attempts' \in Seq(I!Ends), Len(attempts') <= MaxImports,
           Len(attempts) <= Len(attempts'),
           row.pc \in {"inspect", "look", "begin"}, row.attempt \in 1..Len(attempts'),
           Len(row.read) <= row.seen,
           row.again = <<>>, row.rows = <<>>, row.made = {}, row.held = {}
    PROVE  ImportInv'
<1>1. ImportRowSound(row, groups, batches, Len(attempts'))
  BY DEF ImportRowSound, Writing
<1>2. \A y \in Importers : Apart(row, importer[y])
  BY DEF Apart, Writing
<1>3. QED BY <1>1, <1>2, ImporterStep

LEMMA ImportAsks ==
    ASSUME ImportInv, NEW x \in Importers, NEW s \in I!Sources, NEW l \in Labels, I!Ask(x, s, l)
    PROVE  ImportInv'
<1> DEFINE row == [I!Idle EXCEPT !.pc = "inspect", !.source = s, !.label = l,
                                 !.attempt = Len(attempts) + 1]
<1>1. attempts \in Seq(I!Ends) /\ Len(attempts) \in Nat /\ Len(attempts) < MaxImports
  BY DEF ImportInv, ImportTyped, I!Ask
<1>2. /\ attempts' \in Seq(I!Ends) /\ Len(attempts') = Len(attempts) + 1
      /\ Len(attempts') <= MaxImports
  BY <1>1, PlatformAssumption DEF I!Ask, I!Ends
<1>3. importer' = [importer EXCEPT ![x] = row]
  BY DEF I!Ask, I!Become
<1>4. row \in ImportRow
  <2> DEFINE idle == I!Idle
  <2>1. idle \in ImportRow /\ Len(attempts) + 1 \in 0..MaxImports
    BY <1>1, IdleIs, PlatformAssumption
  <2> HIDE DEF idle
  <2>2. [idle EXCEPT !.pc = "inspect", !.source = s, !.label = l, !.attempt = Len(attempts) + 1]
          \in ImportRow
    BY <2>1 DEF ImportRow
  <2>3. QED BY <2>2 DEF idle
<1>5. /\ row.pc = "inspect" /\ row.attempt = Len(attempts') /\ row.read = <<>> /\ row.seen = 0
      /\ row.again = <<>> /\ row.rows = <<>> /\ row.made = {} /\ row.held = {}
  BY <1>2 DEF I!Idle
<1>6. Len(row.read) <= row.seen
  BY <1>5
<1>7. UNCHANGED <<text, edits, groups, batches>>
  BY DEF I!Ask
<1> HIDE DEF row
<1>8. row.attempt \in 1..Len(attempts') /\ Len(attempts) <= Len(attempts')
  BY <1>1, <1>2, <1>5
<1>9. QED BY <1>1, <1>2, <1>3, <1>4, <1>5, <1>6, <1>7, <1>8, ReaderStep

\* The importer as the invariant has it.
LEMMA ImporterIs ==
    ASSUME ImportInv, NEW x \in Importers
    PROVE  /\ importer[x] \in ImportRow /\ importer \in [Importers -> ImportRow]
           /\ ImportRowSound(importer[x], groups, batches, Len(attempts))
           /\ text[importer[x].source] \in Seq(I!Lines)
           /\ Len(text[importer[x].source]) <= I!Longest
           /\ attempts \in Seq(I!Ends) /\ Len(attempts) \in Nat /\ Len(attempts) <= MaxImports
           /\ \A y \in Importers \ {x} : Apart(importer[x], importer[y])
<1>1. importer[x] \in ImportRow /\ importer[x].source \in I!Sources
  BY DEF ImportInv, ImportTyped, ImportRow
<1>2. QED BY <1>1 DEF ImportInv, ImportTyped

LEMMA ImportInspects ==
    ASSUME ImportInv, NEW x \in Importers, I!Inspect(x)
    PROVE  ImportInv'
<1> DEFINE r == importer[x]
           line == I!NextLine(x, r.seen)
           row == [r EXCEPT !.seen = @ + 1, !.read = IF line = Blank THEN @ ELSE Append(@, line)]
<1>1. /\ r \in ImportRow /\ r.pc = "inspect" /\ r.seen \in Nat /\ r.read \in Seq(Readable)
      /\ r.seen < Len(text[r.source]) /\ text[r.source] \in Seq(I!Lines)
      /\ Len(text[r.source]) <= I!Longest /\ Len(r.read) <= r.seen
      /\ r.attempt \in 1..Len(attempts)
      /\ r.again = <<>> /\ r.rows = <<>> /\ r.made = {} /\ r.held = {}
  BY ImporterIs DEF I!Inspect, I!More, ImportRow, ImportRowSound, Writing
<1>2. UNCHANGED <<text, edits, groups, batches>>
  BY DEF I!Inspect
<1>3. CASE line = Blank /\ r.source = "file"
  <2>1. I!End(x, "refused") /\ "refused" \in I!Ends
    BY <1>3 DEF I!Inspect, I!Ends
  <2>2. QED BY <1>1, <1>2, <2>1, ImportEnds
<1>4. CASE ~(line = Blank /\ r.source = "file")
  <2>1. importer' = [importer EXCEPT ![x] = row] /\ UNCHANGED attempts
    BY <1>4 DEF I!Inspect, I!Become
  <2>2. line \in I!Lines
    BY <1>1 DEF I!NextLine
  <2> HIDE DEF line
  <2>3. /\ row.read \in Seq(Readable) /\ row.seen = r.seen + 1
        /\ Len(row.read) <= r.seen + 1
    BY <1>1, <2>2 DEF Readable, ImportRow
  <2>4. r.seen + 1 \in 0..I!Longest
    BY <1>1, LongestIs
  <2>5. Len(row.read) <= row.seen /\ row.read \in {s \in Seq(Readable) : Len(s) <= I!Longest}
    BY <1>1, <2>3, <2>4, LongestIs
  <2>6. row \in ImportRow
    BY <1>1, <2>3, <2>4, <2>5 DEF ImportRow
  <2>7. /\ row.pc = "inspect" /\ row.attempt = r.attempt
        /\ row.again = <<>> /\ row.rows = <<>> /\ row.made = {} /\ row.held = {}
    BY <1>1 DEF ImportRow
  <2> HIDE DEF row, r
  <2>8. row.attempt \in 1..Len(attempts')
    BY <1>1, <2>1, <2>7
  <2>9. Len(attempts) <= Len(attempts') /\ attempts' \in Seq(I!Ends) /\ Len(attempts') <= MaxImports
    BY <2>1, ImporterIs
  <2>10. QED BY <1>2, <2>1, <2>5, <2>6, <2>7, <2>8, <2>9, ReaderStep
<1>5. QED BY <1>3, <1>4

\* A step that changes where an importer is before its transaction, and no more.
LEMMA ReaderGoes ==
    ASSUME ImportInv, NEW x \in Importers, NEW pc \in {"inspect", "look", "begin"},
           importer[x].pc \in {"inspect", "look", "begin"},
           importer' = [importer EXCEPT ![x] = [importer[x] EXCEPT !.pc = pc]],
           UNCHANGED <<text, edits, groups, batches, attempts>>
    PROVE  ImportInv'
<1> DEFINE r == importer[x]
           row == [r EXCEPT !.pc = pc]
<1>1. /\ r \in ImportRow /\ Len(r.read) <= r.seen /\ r.attempt \in 1..Len(attempts)
      /\ r.again = <<>> /\ r.rows = <<>> /\ r.made = {} /\ r.held = {}
  BY ImporterIs DEF ImportRowSound, Writing
<1>2. /\ row \in ImportRow /\ row.pc = pc /\ row.read = r.read /\ row.seen = r.seen
      /\ row.attempt = r.attempt
      /\ row.again = <<>> /\ row.rows = <<>> /\ row.made = {} /\ row.held = {}
  BY <1>1 DEF ImportRow
<1>3. Len(attempts) <= Len(attempts') /\ attempts' \in Seq(I!Ends) /\ Len(attempts') <= MaxImports
  BY ImporterIs
<1>4. importer' = [importer EXCEPT ![x] = row]
  OBVIOUS
<1> HIDE DEF row, r
<1>5. Len(row.read) <= row.seen /\ row.attempt \in 1..Len(attempts')
  BY <1>1, <1>2
<1>6. QED BY <1>2, <1>3, <1>4, <1>5, ReaderStep

LEMMA ImportLooks ==
    ASSUME ImportInv, NEW x \in Importers, I!Inspected(x) \/ I!Look(x)
    PROVE  ImportInv'
<1>1. UNCHANGED <<text, edits, groups, batches>> /\ importer[x].pc \in {"inspect", "look"}
  BY DEF I!Inspected, I!Look
<1>2. \/ \E how \in {"refused", "already"} : I!End(x, how)
      \/ /\ UNCHANGED attempts
         /\ \E pc \in {"look", "begin"} :
              importer' = [importer EXCEPT ![x] = [importer[x] EXCEPT !.pc = pc]]
  BY DEF I!Inspected, I!Look, I!Become
<1>3. ASSUME NEW how \in {"refused", "already"}, I!End(x, how) PROVE ImportInv'
  <2>1. how \in I!Ends
    BY DEF I!Ends
  <2>2. QED BY <1>1, <1>3, <2>1, ImportEnds
<1>4. ASSUME UNCHANGED attempts, NEW pc \in {"look", "begin"},
             importer' = [importer EXCEPT ![x] = [importer[x] EXCEPT !.pc = pc]]
      PROVE  ImportInv'
  BY <1>1, <1>4, ReaderGoes
<1>5. QED BY <1>2, <1>3, <1>4

\* Where an importer is and nothing else, in its transaction.
LEMMA WriterIs ==
    ASSUME NEW r \in ImportRow, NEW pc \in {"write", "finish"}
    PROVE  LET row == [r EXCEPT !.pc = pc] IN
           /\ row \in ImportRow /\ row.pc = pc /\ row.source = r.source /\ row.label = r.label
           /\ row.read = r.read /\ row.seen = r.seen /\ row.attempt = r.attempt
           /\ row.again = r.again /\ row.rows = r.rows /\ row.made = r.made /\ row.held = r.held
           /\ KeyOf(row) = KeyOf(r) /\ Writing(row)
BY DEF ImportRow, KeyOf, Writing

LEMMA ImportInserts ==
    ASSUME ImportInv, NEW x \in Importers, I!Insert(x)
    PROVE  ImportInv'
<1> DEFINE r == importer[x]
           row == [r EXCEPT !.pc = "write"]
<1>1. UNCHANGED <<text, edits, groups, batches>> /\ r.pc = "begin"
  BY DEF I!Insert
<1>2. CASE I!Imported(I!Key(x))
  <2>1. I!End(x, "duplicate") /\ "duplicate" \in I!Ends
    BY <1>2 DEF I!Insert, I!Ends
  <2>2. QED BY <1>1, <2>1, ImportEnds
<1>3. CASE ~I!Imported(I!Key(x))
  <2>1. importer' = [importer EXCEPT ![x] = row] /\ UNCHANGED attempts
    BY <1>3 DEF I!Insert, I!Become
  <2>2. /\ r \in ImportRow /\ Len(r.read) <= r.seen /\ r.attempt \in 1..Len(attempts)
        /\ r.again = <<>> /\ r.rows = <<>> /\ r.made = {} /\ r.held = {}
    BY <1>1, ImporterIs DEF ImportRowSound, Writing
  <2>3. /\ row \in ImportRow /\ row.pc = "write" /\ row.read = r.read /\ row.seen = r.seen
        /\ row.attempt = r.attempt /\ KeyOf(row) = KeyOf(r)
        /\ row.again = <<>> /\ row.rows = <<>> /\ row.made = {} /\ row.held = {}
    BY <2>2, WriterIs
  <2>4. \A c \in batches : c.key # KeyOf(r)
    BY <1>3 DEF I!Imported, I!Key, KeyOf
  <2>5. ASSUME NEW y \in Importers \ {x} PROVE Apart(row, importer[y])
    <3>1. ~(Writing(importer[y]) /\ KeyOf(importer[y]) = KeyOf(r))
      BY DEF I!Insert, I!HoldsKey, I!InTransaction, I!Key, KeyOf, Writing
    <3>2. QED BY <2>3, <3>1 DEF Apart
  <2>6. Len(attempts) <= Len(attempts') /\ attempts' \in Seq(I!Ends) /\ Len(attempts') <= MaxImports
    BY <2>1, ImporterIs
  <2> HIDE DEF row, r
  <2>7. ImportRowSound(row, groups, batches, Len(attempts'))
    BY <2>1, <2>2, <2>3, <2>4 DEF ImportRowSound
  <2>8. QED BY <1>1, <2>1, <2>3, <2>5, <2>6, <2>7, ImporterStep
<1>4. QED BY <1>2, <1>3

LEMMA ImportCompares ==
    ASSUME ImportInv, NEW x \in Importers, I!Compare(x)
    PROVE  ImportInv'
<1> DEFINE r == importer[x]
           row == [r EXCEPT !.pc = "finish"]
<1>1. UNCHANGED <<text, edits, groups, batches>> /\ r.pc = "write"
  BY DEF I!Compare
<1>2. CASE ~I!SameRead(x)
  <2>1. I!End(x, "changed") /\ "changed" \in I!Ends
    BY <1>2 DEF I!Compare, I!Ends
  <2>2. QED BY <1>1, <2>1, ImportEnds
<1>3. CASE I!SameRead(x)
  <2>1. importer' = [importer EXCEPT ![x] = row] /\ UNCHANGED attempts /\ r.again = r.read
    BY <1>3 DEF I!Compare, I!Become, I!SameRead
  <2>2. r \in ImportRow /\ Writing(r) /\ ImportRowSound(r, groups, batches, Len(attempts))
    BY <1>1, ImporterIs DEF Writing
  <2>3. /\ row \in ImportRow /\ row.pc = "finish" /\ row.source = r.source /\ row.label = r.label
        /\ row.read = r.read /\ row.seen = r.seen /\ row.attempt = r.attempt
        /\ row.again = r.again /\ row.rows = r.rows /\ row.made = r.made /\ row.held = r.held
        /\ KeyOf(row) = KeyOf(r) /\ Writing(row)
    BY <2>2, WriterIs
  <2>4. ASSUME NEW y \in Importers \ {x} PROVE Apart(row, importer[y])
    <3>1. Apart(r, importer[y])
      BY ImporterIs
    <3>2. QED BY <2>2, <2>3, <3>1 DEF Apart
  <2>5. Len(attempts) <= Len(attempts') /\ attempts' \in Seq(I!Ends) /\ Len(attempts') <= MaxImports
    BY <2>1, ImporterIs
  <2> HIDE DEF row, r
  <2>6. \A m : WrittenRow(r, m, groups) = WrittenRow(row, m, groups)
    BY <2>3 DEF WrittenRow
  <2>7. ImportRowSound(row, groups, batches, Len(attempts'))
    BY <1>1, <2>1, <2>2, <2>3, <2>6 DEF ImportRowSound
  <2>8. QED BY <1>1, <2>1, <2>3, <2>4, <2>5, <2>7, ImporterStep
<1>4. QED BY <1>2, <1>3

LEMMA OneLineMore ==
    ASSUME NEW S, NEW s \in Seq(S), NEW e \in S
    PROVE  /\ Append(s, e) \in Seq(S) /\ Len(Append(s, e)) = Len(s) + 1 /\ Len(s) \in Nat
           /\ \A m \in 1..Len(s) : Append(s, e)[m] = s[m]
           /\ Append(s, e)[Len(s) + 1] = e
OBVIOUS

LEMMA ImportWrites ==
    ASSUME ImportInv, NEW x \in Importers, I!WriteRow(x)
    PROVE  ImportInv'
<1> DEFINE r == importer[x]
           line == I!LineToWrite(x)
           new == line \in Urls /\ groups[line] = 0
           group == CASE line = Bad -> 0 [] new -> r.attempt [] OTHER -> groups[line]
           stored == [line |-> line, group |-> group]
           again == Append(r.again, line)
           rows == Append(r.rows, stored)
           made == IF new THEN r.made \cup {line} ELSE r.made
           locked == IF line = Bad THEN r.held ELSE r.held \cup {line}
           row == [r EXCEPT !.again = again, !.rows = rows, !.made = made, !.held = locked]
<1>1. UNCHANGED <<text, edits, groups, batches>> /\ r.pc = "write" /\ I!Unwritten(x)
  BY DEF I!WriteRow
<1>2. /\ r \in ImportRow /\ Writing(r) /\ ImportRowSound(r, groups, batches, Len(attempts))
      /\ r.attempt \in 1..Len(attempts) /\ Len(r.rows) = Len(r.again)
  BY <1>1, ImporterIs DEF Writing, ImportRowSound
<1>3. /\ r.read \in Seq(Readable) /\ Len(r.read) <= I!Longest
      /\ r.again \in Seq(Readable) /\ r.rows \in Seq(I!Row)
      /\ r.made \subseteq Urls /\ r.held \subseteq Urls
  BY <1>2 DEF ImportRow
<1>4. line \in I!Lines /\ Len(r.again) + 1 <= I!Longest
  <2>1. CASE r.source = "file"
    <3>1. Len(r.again) < Len(text[r.source]) /\ line = text[r.source][Len(r.again) + 1]
      BY <1>1, <2>1 DEF I!Unwritten, I!More, I!LineToWrite, I!NextLine
    <3>2. text[r.source] \in Seq(I!Lines) /\ Len(text[r.source]) <= I!Longest
      BY ImporterIs
    <3> HIDE DEF r, line
    <3>3. QED BY <3>1, <3>2, <1>3, LongestIs
  <2>2. CASE r.source # "file"
    <3>1. Len(r.again) < Len(r.read) /\ line = r.read[Len(r.again) + 1]
      BY <1>1, <2>2 DEF I!Unwritten, I!LineToWrite
    <3> HIDE DEF r, line
    <3>2. QED BY <3>1, <1>3, LongestIs DEF Readable
  <2>3. QED BY <2>1, <2>2
<1>5. CASE line = Blank
  <2>1. I!End(x, "refused") /\ "refused" \in I!Ends
    BY <1>5 DEF I!WriteRow, I!Ends
  <2>2. QED BY <1>1, <2>1, ImportEnds
<1>6. CASE line # Blank
  <2>1. importer' = [importer EXCEPT ![x] = row] /\ UNCHANGED attempts /\ I!GroupFree(x, line)
    BY <1>6 DEF I!WriteRow, I!Become
  <2>2. line \in Readable /\ (line = Bad \/ line \in Urls) /\ ~(line = Bad /\ line \in Urls)
    BY <1>4, <1>6, PlatformAssumption DEF Readable, I!Lines
  <2>3. groups \in [Urls -> 0..MaxImports]
    BY DEF ImportInv, ImportTyped
  <2>4. Len(attempts) <= Len(attempts') /\ attempts' \in Seq(I!Ends) /\ Len(attempts') <= MaxImports
    BY <2>1, ImporterIs
  <2>5. r.attempt \in 0..MaxImports /\ r.attempt # 0
    BY <1>2, ImporterIs, PlatformAssumption
  <2> HIDE DEF r, line
  <2>6. /\ group \in 0..MaxImports
        /\ line = Bad => group = 0
        /\ line # Bad => group # 0 /\ group = IF new THEN r.attempt ELSE groups[line]
    <3>1. CASE line = Bad
      BY <3>1, PlatformAssumption
    <3>2. CASE line # Bad /\ new
      BY <2>5, <3>2
    <3>3. CASE line # Bad /\ ~new
      <4>1. line \in Urls /\ groups[line] # 0
        BY <2>2, <3>3
      <4>2. group = groups[line]
        <5> HIDE DEF new
        <5>1. QED BY <3>3
      <4>3. QED BY <2>3, <3>3, <4>1, <4>2
    <3>4. QED BY <3>1, <3>2, <3>3
  <2>7. new => line # Bad
    BY <2>2
  <2>8. ~new /\ line # Bad => groups[line] # 0
    BY <2>2
  <2> HIDE DEF group
  <2>9. stored \in I!Row
    BY <2>2, <2>6 DEF I!Row, Readable
  <2>10. /\ again \in Seq(Readable) /\ Len(again) = Len(r.again) + 1 /\ Len(r.again) \in Nat
         /\ \A m \in 1..Len(r.again) : again[m] = r.again[m]
         /\ again[Len(r.again) + 1] = line
    BY <1>3, <2>2, OneLineMore
  <2>11. /\ rows \in Seq(I!Row) /\ Len(rows) = Len(r.again) + 1
         /\ \A m \in 1..Len(r.again) : rows[m] = r.rows[m]
         /\ rows[Len(r.again) + 1] = stored
    <3> HIDE DEF stored
    <3>1. QED BY <1>2, <1>3, <2>9, OneLineMore
  <2>12. made \subseteq Urls /\ locked \subseteq Urls
    BY <1>3, <2>2
  <2> HIDE DEF again, rows
  <2>13. /\ row \in ImportRow /\ row.pc = "write" /\ row.source = r.source /\ row.label = r.label
         /\ row.read = r.read /\ row.seen = r.seen /\ row.attempt = r.attempt
         /\ row.again = again /\ row.rows = rows /\ row.made = made /\ row.held = locked
    <3> HIDE DEF made, locked
    <3>1. again \in {s \in Seq(Readable) : Len(s) <= I!Longest}
      BY <1>4, <2>10
    <3>2. rows \in {s \in Seq(I!Row) : Len(s) <= I!Longest}
      BY <1>4, <2>11
    <3>3. r.pc = "write"
      BY <1>1
    <3>4. QED BY <1>2, <2>12, <3>1, <3>2, <3>3 DEF ImportRow
  <2>14. KeyOf(row) = KeyOf(r) /\ Writing(row)
    BY <2>13 DEF KeyOf, Writing
  <2> HIDE DEF row
  <2>15. \A m \in 1..Len(row.rows) : WrittenRow(row, m, groups)
    <3>1. ASSUME NEW m \in 1..Len(r.again) PROVE WrittenRow(row, m, groups)
      <4>1. WrittenRow(r, m, groups) /\ row.rows[m] = r.rows[m] /\ row.again[m] = r.again[m]
        BY <1>2, <2>10, <2>11, <2>13 DEF ImportRowSound
      <4>2. r.rows[m].line = line /\ new /\ line # Bad => line \in r.made
        BY <4>1 DEF WrittenRow
      <4> HIDE DEF new
      <4>3. QED BY <2>7, <2>13, <4>1, <4>2 DEF WrittenRow
    <3>2. WrittenRow(row, Len(r.again) + 1, groups)
      <4>1. row.rows[Len(r.again) + 1] = stored /\ row.again[Len(r.again) + 1] = line
        BY <2>10, <2>11, <2>13
      <4>2. ~new => line \notin r.made \/ line = Bad
        BY <1>2, <2>8 DEF ImportRowSound
      <4> HIDE DEF new
      <4>3. QED BY <2>6, <2>7, <2>13, <4>1, <4>2 DEF WrittenRow
    <3>3. QED BY <2>10, <2>11, <2>13, <3>1, <3>2
  <2>16. \A u \in row.made :
            /\ u \in row.held /\ groups[u] = 0
            /\ \E m \in 1..Len(row.rows) : row.rows[m] = [line |-> u, group |-> row.attempt]
    <3> SUFFICES ASSUME NEW u \in row.made
                 PROVE  /\ u \in row.held /\ groups[u] = 0
                        /\ \E m \in 1..Len(row.rows) : row.rows[m] = [line |-> u, group |-> row.attempt]
      OBVIOUS
    <3>1. CASE u \in r.made
      <4>1. /\ u \in r.held /\ groups[u] = 0
            /\ \E m \in 1..Len(r.again) : r.rows[m] = [line |-> u, group |-> r.attempt]
        BY <1>2, <3>1 DEF ImportRowSound
      <4>2. \A m \in 1..Len(r.again) : m \in 1..Len(row.rows) /\ row.rows[m] = r.rows[m]
        BY <2>10, <2>11, <2>13
      <4>3. QED BY <2>13, <4>1, <4>2
    <3>2. CASE u \notin r.made
      <4>1. u = line /\ new
        BY <2>13, <3>2
      <4>2. Len(r.again) + 1 \in 1..Len(row.rows) /\ row.rows[Len(r.again) + 1] = stored
        BY <2>10, <2>11, <2>13
      <4>3. group = r.attempt /\ line # Bad
        BY <2>6, <2>7, <4>1
      <4>4. QED BY <2>13, <4>1, <4>2, <4>3
    <3>3. QED BY <3>1, <3>2
  <2>17. ASSUME NEW y \in Importers \ {x} PROVE Apart(row, importer[y])
    <3>1. Apart(r, importer[y]) /\ line \notin importer[y].held
      BY <2>1, ImporterIs DEF r, I!GroupFree
    <3>2. row.held \subseteq r.held \cup {line}
      BY <2>13
    <3> HIDE DEF locked, made, new
    <3>3. QED BY <1>2, <2>14, <3>1, <3>2 DEF Apart
  <2>18. ImportRowSound(row, groups, batches, Len(attempts'))
    <3>1. row.made \subseteq row.held
      BY <2>16
    <3>2. row.attempt \in 1..Len(attempts') /\ Len(row.rows) = Len(row.again)
      BY <1>2, <2>1, <2>10, <2>11, <2>13
    <3>3. Len(row.read) <= row.seen
      BY <1>2, <2>13 DEF ImportRowSound
    <3>4. \A c \in batches : c.key # KeyOf(row)
      BY <1>2, <2>14 DEF ImportRowSound
    <3> HIDE DEF locked, made, new
    <3>5. QED BY <2>13, <2>14, <2>15, <2>16, <3>1, <3>2, <3>3, <3>4 DEF ImportRowSound
  <2>19. importer' = [importer EXCEPT ![x] = row] /\ UNCHANGED <<text, edits, groups, batches>>
    BY <1>1, <2>1
  <2>20. QED BY <2>4, <2>13, <2>17, <2>18, <2>19, ImporterStep
<1>7. QED BY <1>5, <1>6

LEMMA ImportFinishes ==
    ASSUME ImportInv, NEW x \in Importers, I!Finish(x)
    PROVE  ImportInv'
<1> DEFINE r == importer[x]
           quarantined == I!Quarantined(r.rows)
           batch == [key |-> KeyOf(r), rows |-> r.rows, parsed |-> Len(r.rows),
                     quarantined |-> quarantined,
                     status |-> IF quarantined > 0 THEN "completed_with_issues" ELSE "completed"]
<1>1. /\ r \in ImportRow /\ Writing(r) /\ r.again = r.read /\ Len(r.rows) = Len(r.again)
      /\ ImportRowSound(r, groups, batches, Len(attempts))
      /\ r.attempt \in 1..Len(attempts) /\ r.attempt \in 0..MaxImports
      /\ Len(attempts) \in Nat
  <2>1. r.pc = "finish"
    BY DEF I!Finish
  <2>2. QED BY <2>1, ImporterIs DEF ImportRowSound, Writing, ImportRow
<1>2. /\ r.read \in Seq(Readable) /\ r.rows \in Seq(I!Row) /\ Len(r.rows) <= I!Longest
      /\ r.made \subseteq Urls /\ Len(r.rows) = Len(r.read)
  BY <1>1 DEF ImportRow
<1>3. \A m \in 1..Len(r.rows) : r.rows[m] \in I!Row /\ WrittenRow(r, m, groups)
  BY <1>1, <1>2 DEF ImportRowSound
<1>4. /\ batches' = batches \cup {batch}
      /\ groups' = [u \in Urls |-> IF u \in r.made THEN r.attempt ELSE groups[u]]
      /\ importer' = [importer EXCEPT ![x] = I!Idle]
      /\ attempts' = [attempts EXCEPT ![r.attempt] = "imported"]
      /\ UNCHANGED <<text, edits>>
  BY DEF I!Finish, I!End, I!Become, I!Key, KeyOf
<1>5. quarantined \in 0..I!Longest
  <2> DEFINE all == 1..Len(r.rows)
             some == {n \in DOMAIN r.rows : r.rows[n].line = Bad}
  <2>1. IsFiniteSet(all) /\ Cardinality(all) = Len(r.rows)
    <3> DEFINE k == Len(r.rows)
    <3>1. k \in Nat
      BY <1>2
    <3> HIDE DEF k
    <3>2. IsFiniteSet(1..k) /\ Cardinality(1..k) = k
      BY <3>1, FS_Interval
    <3>3. QED BY <3>2 DEF k
  <2>2. some \in SUBSET all
    BY <1>2
  <2>3. quarantined = Cardinality(some)
    BY DEF I!Quarantined, I!Cardinality, Cardinality
  <2> HIDE DEF all, some
  <2>4. Cardinality(some) \in Nat /\ Cardinality(some) <= Cardinality(all)
    BY <2>1, <2>2, FS_Subset, FS_CardinalityType
  <2>5. QED BY <1>2, <2>1, <2>3, <2>4, LongestIs
<1> HIDE DEF quarantined
<1>6. batch \in BatchRow
  <2>1. KeyOf(r) \in I!Sources \X Labels \X {s \in Seq(Readable) : Len(s) <= I!Longest}
    BY <1>1 DEF ImportRow, KeyOf
  <2>2. Len(r.rows) \in 0..I!Longest /\ r.rows \in {s \in Seq(I!Row) : Len(s) <= I!Longest}
    BY <1>2, LongestIs
  <2>3. QED BY <1>5, <2>1, <2>2 DEF BatchRow
<1>7. /\ batch.key = KeyOf(r) /\ batch.rows = r.rows /\ batch.parsed = Len(r.rows)
      /\ batch.quarantined = quarantined
      /\ batch.status = "completed_with_issues" <=> quarantined > 0
  OBVIOUS
<1> HIDE DEF batch
<1>8. /\ groups \in [Urls -> 0..MaxImports] /\ attempts \in Seq(I!Ends)
      /\ Len(attempts) <= MaxImports /\ importer \in [Importers -> ImportRow]
  BY DEF ImportInv, ImportTyped
<1>9. /\ groups' \in [Urls -> 0..MaxImports]
      /\ \A u \in Urls : groups'[u] = IF u \in r.made THEN r.attempt ELSE groups[u]
  BY <1>1, <1>4, <1>8
<1>10. attempts' \in Seq(I!Ends) /\ Len(attempts') = Len(attempts)
  BY <1>1, <1>4, <1>8 DEF I!Ends
<1>11. ImportTyped'
  <2>1. importer' \in [Importers -> ImportRow]
    BY <1>4, <1>8, IdleIs
  <2>2. batches' \subseteq BatchRow
    BY <1>4, <1>6 DEF ImportInv, ImportTyped
  <2>3. QED BY <1>4, <1>8, <1>9, <1>10, <2>1, <2>2 DEF ImportInv, ImportTyped
<1>12. \A y \in Importers : importer'[y] = IF y = x THEN I!Idle ELSE importer[y]
  BY <1>4, <1>8
<1>13. ASSUME NEW y \in Importers
       PROVE  ImportRowSound(importer'[y], groups', batches', Len(attempts'))
  <2>1. CASE y = x
    <3>1. importer'[y] = I!Idle /\ Len(attempts') \in Nat
      BY <1>1, <1>10, <1>12, <2>1
    <3>2. ImportRowSound(I!Idle, groups', batches', Len(attempts'))
      BY <3>1, IdleIs
    <3>3. QED BY <3>1, <3>2
  <2>2. CASE y # x
    <3> DEFINE s == importer[y]
    <3>1. /\ ImportRowSound(s, groups, batches, Len(attempts)) /\ Apart(r, s)
          /\ s \in ImportRow /\ importer'[y] = s
      BY <1>12, <2>2, ImporterIs
    <3> HIDE DEF s, r
    <3>2. s.held \subseteq Urls /\ r.made \subseteq r.held /\ r.held \cap s.held = {}
      BY <1>1, <3>1 DEF ImportRow, ImportRowSound, Apart
    <3>3. \A u \in s.held : groups'[u] = groups[u]
      BY <1>9, <3>2
    <3>4. \A m \in 1..Len(s.rows) : WrittenRow(s, m, groups')
      BY <3>1, <3>3 DEF ImportRowSound, WrittenRow
    <3>5. Writing(s) => \A c \in batches' : c.key # KeyOf(s)
      BY <1>1, <1>4, <1>7, <3>1 DEF ImportRowSound, Apart
    <3>6. \A u \in s.made : u \in s.held
      BY <3>1 DEF ImportRowSound
    <3>7. QED BY <1>10, <3>1, <3>3, <3>4, <3>5, <3>6 DEF ImportRowSound
  <2>3. QED BY <2>1, <2>2
<1>14. ASSUME NEW y \in Importers, NEW z \in Importers, y # z
       PROVE  Apart(importer'[y], importer'[z])
  <2>1. Apart(importer[y], importer[z])
    BY <1>14 DEF ImportInv
  <2>2. \A s : Apart(I!Idle, s) /\ Apart(s, I!Idle)
    BY IdleIs DEF Apart, Writing
  <2>3. QED BY <1>12, <2>1, <2>2
<1>15. I!BatchIsItsRead'
  <2>1. [n \in DOMAIN r.rows |-> r.rows[n].line] = r.read
    <3>1. DOMAIN r.rows = 1..Len(r.read) /\ \A n \in 1..Len(r.read) : r.rows[n].line = r.read[n]
      BY <1>1, <1>2, <1>3 DEF WrittenRow
    <3>2. r.read = [n \in 1..Len(r.read) |-> r.read[n]]
      BY <1>2
    <3> HIDE DEF r
    <3>3. QED BY <3>1, <3>2
  <2>2. batch.key[3] = r.read
    BY <1>7 DEF KeyOf
  <2>3. batch.quarantined = I!Quarantined(batch.rows)
    BY <1>7 DEF quarantined
  <2> HIDE DEF r
  <2>4. /\ [n \in DOMAIN batch.rows |-> batch.rows[n].line] = batch.key[3]
        /\ batch.parsed = Len(batch.rows)
        /\ (batch.status = "completed_with_issues") <=> (batch.quarantined > 0)
    BY <1>7, <2>1, <2>2
  <2>5. QED BY <1>4, <2>3, <2>4 DEF ImportInv, I!BatchIsItsRead, I!Quarantined
<1>16. I!OneBatchPerRead'
  BY <1>1, <1>4, <1>7 DEF ImportInv, I!OneBatchPerRead, ImportRowSound
<1>17. I!RowsAreInTheirGroups'
  <2> SUFFICES ASSUME NEW b \in batches', NEW n \in DOMAIN b.rows
               PROVE  IF b.rows[n].line = Bad THEN b.rows[n].group = 0
                      ELSE b.rows[n].group # 0 /\ b.rows[n].group = groups'[b.rows[n].line]
    BY DEF I!RowsAreInTheirGroups
  <2>1. CASE b \in batches
    <3>1. IF b.rows[n].line = Bad THEN b.rows[n].group = 0
          ELSE b.rows[n].group # 0 /\ b.rows[n].group = groups[b.rows[n].line]
      BY <2>1 DEF ImportInv, I!RowsAreInTheirGroups
    <3>2. b.rows[n].line \in Readable
      <4>1. b.rows \in Seq(I!Row)
        BY <2>1 DEF ImportInv, ImportTyped, BatchRow
      <4>2. b.rows[n] \in I!Row
        BY <4>1
      <4>3. QED BY <4>2 DEF I!Row, Readable
    <3>3. \A u \in r.made : groups[u] = 0
      BY <1>1 DEF ImportRowSound
    <3> HIDE DEF r
    <3>4. b.rows[n].line # Bad => groups'[b.rows[n].line] = groups[b.rows[n].line]
      BY <1>9, <3>1, <3>2, <3>3 DEF Readable, I!Lines
    <3>5. QED BY <3>1, <3>4
  <2>2. CASE b = batch
    <3>1. n \in 1..Len(r.rows) /\ b.rows = r.rows
      BY <1>2, <1>7, <2>2
    <3>2. WrittenRow(r, n, groups) /\ r.rows[n].line \in Readable
      BY <1>3, <3>1 DEF I!Row, Readable
    <3> HIDE DEF r
    <3>3. QED BY <1>9, <3>1, <3>2 DEF WrittenRow, Readable, I!Lines
  <2>3. QED BY <1>4, <2>1, <2>2
<1>18. I!GroupsAreOfBatches'
  <2> SUFFICES ASSUME NEW u \in Urls, groups'[u] # 0
               PROVE  \E b \in batches' : \E n \in DOMAIN b.rows :
                        b.rows[n] = [line |-> u, group |-> groups'[u]]
    BY DEF I!GroupsAreOfBatches
  <2>1. CASE u \in r.made
    <3>1. PICK m \in 1..Len(r.rows) : r.rows[m] = [line |-> u, group |-> r.attempt]
      BY <1>1, <2>1 DEF ImportRowSound
    <3>2. m \in DOMAIN batch.rows /\ batch.rows[m] = [line |-> u, group |-> groups'[u]]
      BY <1>2, <1>7, <1>9, <2>1, <3>1
    <3>3. QED BY <1>4, <3>2
  <2>2. CASE u \notin r.made
    <3>1. groups'[u] = groups[u]
      BY <1>9, <2>2
    <3>2. QED BY <1>4, <3>1 DEF ImportInv, I!GroupsAreOfBatches
  <2>3. QED BY <2>1, <2>2
<1>19. \A y \in Importers : ImportRowSound(importer'[y], groups', batches', Len(attempts'))
  BY <1>13
<1>20. QED BY <1>11, <1>14, <1>15, <1>16, <1>17, <1>18, <1>19 DEF ImportInv

\* The source is edited; what is read of it later is of its lines all the same.
LEMMA SourceEdited ==
    ASSUME ImportInv, text' \in [I!Sources -> {t \in Seq(I!Lines) : Len(t) <= I!Longest}],
           edits' \in 0..MaxEdits, UNCHANGED <<groups, batches, importer, attempts>>
    PROVE  ImportInv'
<1>1. ImportTyped'
  BY DEF ImportInv, ImportTyped
<1>2. /\ I!BatchIsItsRead' /\ I!OneBatchPerRead'
      /\ I!RowsAreInTheirGroups' /\ I!GroupsAreOfBatches'
  BY DEF ImportInv, I!BatchIsItsRead, I!OneBatchPerRead, I!RowsAreInTheirGroups,
         I!GroupsAreOfBatches, I!Quarantined
<1>3. QED BY <1>1, <1>2 DEF ImportInv

LEMMA ImportStep ==
    ASSUME ImportInv, I!Next
    PROVE  ImportInv'
<1>1. ASSUME NEW s \in I!Sources, NEW new \in Texts, I!Edit(s, new) PROVE ImportInv'
  <2>1. edits' \in 0..MaxEdits
    BY <1>1, PlatformAssumption DEF I!Edit, ImportInv, ImportTyped
  <2>2. text' \in [I!Sources -> {t \in Seq(I!Lines) : Len(t) <= I!Longest}]
    BY <1>1, LongestIs DEF I!Edit, ImportInv, ImportTyped
  <2>3. QED BY <1>1, <2>1, <2>2, SourceEdited DEF I!Edit
<1>2. ASSUME NEW x \in Importers, I!Progress(x) PROVE ImportInv'
  BY <1>2, ImportInspects, ImportLooks, ImportInserts, ImportWrites, ImportCompares,
     ImportFinishes DEF I!Progress
<1>3. ASSUME NEW x \in Importers, I!Abort(x) \/ I!BreakDeadlock(x) PROVE ImportInv'
  <2>1. PICK how \in {"aborted", "deadlock"} : I!End(x, how)
    BY <1>3 DEF I!Abort, I!BreakDeadlock
  <2>2. importer[x].pc # "idle" /\ UNCHANGED <<text, edits, groups, batches>>
    BY <1>3 DEF I!Abort, I!BreakDeadlock, I!Deadlocked, I!WaitsFor
  <2>3. how \in I!Ends
    BY DEF I!Ends
  <2>4. QED BY <2>1, <2>2, <2>3, ImportEnds
<1>4. QED BY <1>1, <1>2, <1>3, ImportAsks DEF I!Next

LEMMA ImportInit == MCInit => ImportInv
<1> SUFFICES ASSUME MCInit PROVE ImportInv
  OBVIOUS
<1>1. /\ edits = 0 /\ groups = [u \in Urls |-> 0] /\ batches = {} /\ attempts = <<>>
      /\ importer = [i \in Importers |-> I!Idle]
      /\ text \in [I!Sources -> Texts] \/ text = [s \in I!Sources |-> <<>>]
  BY DEF MCInit, I!Init
<1>2. text \in [I!Sources -> {t \in Seq(I!Lines) : Len(t) <= I!Longest}]
  <2> DEFINE bounded == {t \in Seq(I!Lines) : Len(t) <= I!Longest}
  <2>1. Texts \subseteq bounded /\ <<>> \in bounded
    BY LongestIs
  <2> HIDE DEF bounded
  <2>2. text \in [I!Sources -> bounded]
    BY <1>1, <2>1
  <2>3. QED BY <2>2 DEF bounded
<1>3. ImportTyped
  BY <1>1, <1>2, IdleIs, PlatformAssumption DEF ImportTyped
<1>4. \A x \in Importers : importer[x] = I!Idle
  BY <1>1
<1>5. Len(attempts) \in Nat
  BY <1>1
<1>6. \A x \in Importers : ImportRowSound(importer[x], groups, batches, Len(attempts))
  BY <1>4, <1>5, IdleIs
<1>7. \A x, y \in Importers : x # y => Apart(importer[x], importer[y])
  BY <1>4, IdleIs DEF Apart, Writing
<1>8. I!BatchIsItsRead /\ I!OneBatchPerRead /\ I!RowsAreInTheirGroups /\ I!GroupsAreOfBatches
  BY <1>1 DEF I!BatchIsItsRead, I!OneBatchPerRead, I!RowsAreInTheirGroups, I!GroupsAreOfBatches
<1>9. QED BY <1>3, <1>6, <1>7, <1>8 DEF ImportInv

\* A batch is one whole read of its source, stored once, in the groups of its
\* addresses, and a group is of a batch that is there: for every number of
\* imports at once and of lines, and whatever is edited meanwhile
\* (importCsvFile, persistSheetsBatch, ensureUrlGroups).
THEOREM IntakeSoundness == MCSpec => []IntakeSound
<1>1. ImportInv /\ [MCNext]_allVars => ImportInv'
  <2> SUFFICES ASSUME ImportInv, [MCNext]_allVars PROVE ImportInv'
    OBVIOUS
  <2>1. CASE UNCHANGED importVars
    <3>1. /\ text' \in [I!Sources -> {t \in Seq(I!Lines) : Len(t) <= I!Longest}]
          /\ edits' \in 0..MaxEdits /\ UNCHANGED <<groups, batches, importer, attempts>>
      BY <2>1 DEF importVars, ImportInv, ImportTyped
    <3>2. QED BY <3>1, SourceEdited
  <2>2. CASE I!Next
    BY <2>2, ImportStep
  <2>3. QED BY <2>1, <2>2 DEF MCNext, Goes, Others, allVars
<1>2. QED BY <1>1, ImportInit, ImportInvSound, PTL DEF MCSpec
=============================================================================
