----------------------------- MODULE LoginProofs -----------------------------
(***************************************************************************)
(* The sign-in by password for any number of logins, processes, names and  *)
(* networks, any limits of the throttle and the gate, over the stores of   *)
(* one process or of all.                                                  *)
(***************************************************************************)
EXTENDS Login, FiniteSetTheorems, SequenceTheorems, TLAPS

\* Names, networks and what stands for none are apart, and limits are numbers;
\* somebody may fail, and something may run.
LoginParameters ==
    /\ IsFiniteSet(Requests)
    /\ 0 \notin Processes
    /\ Users \cap Networks = {}
    /\ AccountLimit \in Nat \ {0} /\ NetworkLimit \in Nat
    /\ Window \in Nat
    /\ MaxConcurrent \in Nat \ {0} /\ MaxWaiting \in Nat
    /\ MaxTime \in Nat /\ MaxLogins \in Nat /\ MaxChanges \in Nat

\* A login under way is somewhere, of somebody, from somewhere.
Placed ==
    \A r \in Requests : login[r].pc # "idle" =>
        /\ login[r].process \in Processes
        /\ login[r].name \in Users
        /\ login[r].network \in Networks

\* An operation under way is on an account, with the password after the one
\* there is; an account that is to be made is not there.
AdminSound ==
    /\ admin.pc # "idle" => admin.user \in Users
    /\ admin.pc \in {"find", "insert", "rotate"} => admin.password = account[admin.user].password + 1
    /\ admin.pc = "insert" => account[admin.user].st = "absent"

\* What waits in a process, the woken before the others.
Line(p) == gate[p].woken \o gate[p].waiting

Distinct(s) == \A i, j \in 1..Len(s) : s[i] = s[j] => i = j

\* The line of a process holds each of its waiting logins once; the places taken
\* are the logins verifying; and who waits has a full gate before it, counting
\* the places left for the woken.
GateSound(p) ==
    /\ Distinct(Line(p))
    /\ \A r \in Requests :
          (login[r].pc = "waiting" /\ login[r].process = p) <=> \E i \in 1..Len(Line(p)) : Line(p)[i] = r
    /\ gate[p].active = Cardinality(Running(p))
    /\ gate[p].active + Len(gate[p].woken) <= MaxConcurrent
    /\ Len(gate[p].waiting) <= MaxWaiting
    /\ gate[p].waiting # <<>> => gate[p].active + Len(gate[p].woken) = MaxConcurrent

\* The logins of a name let through by the throttle, in the present window.
Checked(u) ==
    {r \in Requests : /\ login[r].pc \in {"find", "gate", "waiting", "verifying", "verdict"}
                      /\ login[r].name = u
                      /\ login[r].at - bucket[u].start < Window}

\* Each of them may still add a failure.
FailuresSound ==
    \A u \in Users :
        bucket[u].count + Cardinality(Checked(u)) <= AccountLimit - 1 + Cardinality(Requests)

\* What an account was when a login arrived binds what the login read of it.
Known(r) ==
    IF login[r].pc \in {"network", "account", "find"} THEN account[login[r].name] ELSE login[r].read

ReadOf(r) ==
    /\ login[r].pc # "idle" =>
          /\ Known(r).password >= login[r].atArrival.password
          /\ login[r].atArrival.st = "disabled" => Known(r).st = "disabled"
    /\ login[r].pc \in {"verdict", "issue"} /\ login[r].right => Matches(r)
    /\ login[r].pc = "issue" => Accepted(r)

ReadSound == \A r \in Requests : ReadOf(r)

Inv ==
    /\ TypeOK
    /\ Placed
    /\ AdminSound
    /\ \A p \in Processes : GateSound(p)
    /\ FailuresSound
    /\ ReadSound
    /\ SessionEarned

-----------------------------------------------------------------------------
LEMMA PutTyped ==
    ASSUME NEW r \in Requests, NEW row \in Row, login \in [Requests -> Row], Placed,
           row.pc # "idle" => row.process \in Processes /\ row.name \in Users /\ row.network \in Networks,
           login' = [login EXCEPT ![r] = row]
    PROVE  login' \in [Requests -> Row] /\ Placed'
  BY DEF Placed

LEMMA IdleTyped == Idle \in Row
  BY DEF Idle, Row, Account

LEMMA BumpedTyped ==
    ASSUME NEW b \in Bucket, NEW at \in Nat
    PROVE  Bumped(b, at) \in Bucket
  BY DEF Bumped, Bucket, Within

LEMMA Fields ==
    ASSUME login \in [Requests -> Row], NEW r \in Requests
    PROVE  /\ login[r] \in Row
           /\ login[r].pc \in {"idle", "network", "account", "find", "gate", "waiting", "verifying",
                               "verdict", "issue"}
           /\ login[r].process \in Processes \cup {0} /\ login[r].name \in Users \cup {""}
           /\ login[r].network \in Networks \cup {""} /\ login[r].at \in Nat /\ login[r].guess \in Nat
           /\ login[r].read \in Account /\ login[r].right \in BOOLEAN /\ login[r].atArrival \in Account
  BY DEF Row

\* A login moves on, and its row is one.
LEMMA Moved ==
    ASSUME login \in [Requests -> Row], NEW r \in Requests,
           NEW pc \in {"idle", "network", "account", "find", "gate", "waiting", "verifying",
                       "verdict", "issue"},
           NEW row, row = [login[r] EXCEPT !.pc = pc]
    PROVE  /\ row \in Row /\ row.pc = pc
           /\ row.process = login[r].process
           /\ row.name = login[r].name
           /\ row.network = login[r].network
<1>1. login[r] \in Row BY Fields
<1> QED BY <1>1 DEF Row

LEMMA GateFields ==
    ASSUME NEW g \in Gate
    PROVE  g.active \in Nat /\ g.waiting \in Seq(Requests) /\ g.woken \in Seq(Requests)
  BY DEF Gate

LEMMA GateCounted ==
    ASSUME NEW g \in Gate, NEW n \in Nat
    PROVE  [g EXCEPT !.active = n] \in Gate
  BY DEF Gate

LEMMA GateMade ==
    ASSUME NEW g \in Gate, NEW n \in Nat, NEW a \in Seq(Requests)
    PROVE  /\ [g EXCEPT !.waiting = a] \in Gate
           /\ [g EXCEPT !.woken = a, !.active = n] \in Gate
  BY DEF Gate

\* What a gate becomes when its numbers or its lists change.
LEMMA GateTyped ==
    ASSUME \A q \in Processes : gate[q] \in Gate, DOMAIN gate = Processes,
           NEW p \in Processes, NEW g \in Gate, gate' = [gate EXCEPT ![p] = g]
    PROVE  DOMAIN gate' = Processes /\ \A q \in Processes : gate'[q] \in Gate
  OBVIOUS

\* The first of the woken is a login that waits.
LEMMA HeadWaits ==
    ASSUME Inv, NEW p \in Processes, gate[p].woken # <<>>
    PROVE  /\ Head(gate[p].woken) \in Requests
           /\ login[Head(gate[p].woken)].pc = "waiting"
           /\ login[Head(gate[p].woken)].process = p
           /\ Len(Line(p)) > 0 /\ Line(p)[1] = Head(gate[p].woken)
<1> DEFINE a == gate[p].woken
           b == gate[p].waiting
<1>1. a \in Seq(Requests) /\ b \in Seq(Requests) /\ a # <<>> BY GateFields DEF Inv, TypeOK
<1> HIDE DEF a, b
<1>2. Len(a) \in Nat /\ Len(a) > 0 /\ Len(a \o b) = Len(a) + Len(b) /\ Len(b) \in Nat
  BY <1>1
<1>3. (a \o b)[1] = Head(a) /\ Head(a) \in Requests BY <1>1, <1>2
<1>4. Line(p) = a \o b /\ a = gate[p].woken BY DEF Line, a, b
<1>5. 1 \in 1..Len(Line(p)) BY <1>2, <1>4
<1> QED BY <1>2, <1>3, <1>4, <1>5 DEF Inv, GateSound

LEMMA TypeStep ==
    ASSUME LoginParameters, Inv, [Next]_vars
    PROVE  TypeOK' /\ Placed'
  <1>n. MaxLogins \in Nat /\ MaxChanges \in Nat /\ MaxTime \in Nat /\ IsFiniteSet(Requests)
    BY DEF LoginParameters
  <1>q. Placed /\ AdminSound /\ \A p \in Processes : GateSound(p)
    BY DEF Inv
  <1>t. /\ now \in 0..MaxTime
        /\ account \in [Users -> Account]
        /\ bucket \in [Keys -> Bucket]
        /\ DOMAIN gate = Processes /\ \A p \in Processes : gate[p] \in Gate
        /\ login \in [Requests -> Row]
        /\ issued \subseteq Issued
        /\ admin \in Operation
        /\ logins \in 0..MaxLogins /\ changes \in 0..MaxChanges
    BY DEF TypeOK, Inv
  <1>d. ASSUME NEW r \in Requests, Done(r)
        PROVE  login' \in [Requests -> Row] /\ Placed'
    <2>1. login' = [login EXCEPT ![r] = Idle] BY <1>d DEF Done
    <2>2. Idle.pc = "idle" BY DEF Idle
    <2> QED BY <2>1, <2>2, <1>t, <1>q, PutTyped, IdleTyped
  <1>m. ASSUME NEW r \in Requests, login[r].pc # "idle",
               NEW pc \in {"idle", "network", "account", "find", "gate", "waiting", "verifying",
                           "verdict", "issue"},
               login' = [login EXCEPT ![r].pc = pc]
        PROVE  login' \in [Requests -> Row] /\ Placed'
    <2> DEFINE row == [login[r] EXCEPT !.pc = pc]
    <2>1. row = [login[r] EXCEPT !.pc = pc] /\ login' = [login EXCEPT ![r] = row] BY <1>m
    <2> HIDE DEF row
    <2>2. row \in Row /\ row.process = login[r].process /\ row.name = login[r].name
          /\ row.network = login[r].network
      BY <2>1, <1>t, Moved
    <2>3. row.process \in Processes /\ row.name \in Users /\ row.network \in Networks
      BY <1>m, <1>q, <2>2 DEF Placed
    <2> QED BY <2>1, <2>2, <2>3, <1>t, <1>q, PutTyped
  <1>p. ASSUME NEW r \in Requests, login[r].pc # "idle"
        PROVE  /\ login[r].process \in Processes /\ login[r].name \in Users
               /\ login[r].network \in Networks /\ login[r].at \in Nat
               /\ login[r].guess \in Nat /\ login[r].read \in Account
               /\ login[r].atArrival \in Account
    BY <1>p, <1>t, <1>q, Fields DEF Placed
  <1>k. ASSUME NEW r \in Requests, login[r].pc # "idle"
        PROVE  /\ login[r].name \in Keys /\ login[r].network \in Keys
               /\ Bumped(bucket[login[r].name], login[r].at) \in Bucket
               /\ Bumped(bucket[login[r].network], login[r].at) \in Bucket
    BY <1>k, <1>p, <1>t, BumpedTyped DEF Keys
  <1>b. NoBucket \in Bucket BY DEF NoBucket, Bucket
  <1>1. ASSUME NEW r \in Requests, NEW p \in Processes, NEW u \in Users, NEW w \in Networks,
               NEW g \in 0..(1 + MaxChanges), Arrive(r, p, u, w, g)
        PROVE  TypeOK' /\ Placed'
    <2> DEFINE row == [pc |-> "network", process |-> p, name |-> u, network |-> w, at |-> now,
                       guess |-> g, read |-> Idle.read, right |-> FALSE, atArrival |-> account[u]]
    <2>0. /\ now \in Nat /\ account[u] \in Account /\ g \in Nat /\ Idle.read \in Account
      BY <1>t, <1>n DEF Account, Idle
    <2>1. row \in Row BY <2>0 DEF Row
    <2>2. login' = [login EXCEPT ![r] = row] BY <1>1 DEF Arrive
    <2>a. row.process = p /\ row.name = u /\ row.network = w OBVIOUS
    <2> HIDE DEF row
    <2>3. login' \in [Requests -> Row] /\ Placed' BY <2>1, <2>a, <2>2, <1>t, <1>q, PutTyped
    <2>4. logins' \in 0..MaxLogins BY <1>1, <1>n, <1>t DEF Arrive
    <2> QED BY <1>1, <1>t, <2>3, <2>4 DEF Arrive, TypeOK
  <1>2. ASSUME NEW r \in Requests, CheckNetwork(r)
        PROVE  TypeOK' /\ Placed'
    <2>0. login[r].pc = "network" BY <1>2 DEF CheckNetwork
    <2>1. bucket' \in [Keys -> Bucket] BY <1>2, <2>0, <1>k, <1>t DEF CheckNetwork
    <2>2. login' \in [Requests -> Row] /\ Placed' BY <1>2, <2>0, <1>d, <1>m DEF CheckNetwork
    <2> QED BY <1>2, <1>t, <2>1, <2>2 DEF CheckNetwork, TypeOK
  <1>3. ASSUME NEW r \in Requests, CheckAccount(r)
        PROVE  TypeOK' /\ Placed'
    <2>2. login' \in [Requests -> Row] /\ Placed' BY <1>3, <1>d, <1>m DEF CheckAccount
    <2> QED BY <1>3, <1>t, <2>2 DEF CheckAccount, TypeOK
  <1>4. ASSUME NEW r \in Requests, CheckHere(r)
        PROVE  TypeOK' /\ Placed'
    <2>0. login[r].pc = "network" BY <1>4 DEF CheckHere
    <2>1. bucket' \in [Keys -> Bucket] BY <1>4, <2>0, <1>k, <1>t DEF CheckHere
    <2>2. login' \in [Requests -> Row] /\ Placed' BY <1>4, <2>0, <1>d, <1>m DEF CheckHere
    <2> QED BY <1>4, <1>t, <2>1, <2>2 DEF CheckHere, TypeOK
  <1>5. ASSUME NEW r \in Requests, Find(r)
        PROVE  TypeOK' /\ Placed'
    <2>0. login[r].pc = "find" BY <1>5 DEF Find
    <2>1. account[login[r].name] \in Account BY <2>0, <1>p, <1>t
    <2> DEFINE row == [login[r] EXCEPT !.pc = "gate", !.read = account[login[r].name]]
    <2>2. login[r] \in Row BY <1>t
    <2>3. row \in Row /\ row.process = login[r].process /\ row.name = login[r].name
          /\ row.network = login[r].network
      BY <2>1, <2>2 DEF Row
    <2>4. login' = [login EXCEPT ![r] = row] BY <1>5 DEF Find
    <2> HIDE DEF row
    <2>5. login' \in [Requests -> Row] /\ Placed' BY <2>0, <2>3, <2>4, <1>p, <1>t, <1>q, PutTyped
    <2> QED BY <1>5, <1>t, <2>5 DEF Find, TypeOK
  <1>6. ASSUME NEW r \in Requests, Enter(r)
        PROVE  TypeOK' /\ Placed'
    <2>0. login[r].pc = "gate" /\ login[r].process \in Processes BY <1>6, <1>p DEF Enter
    <2>1. login' \in [Requests -> Row] /\ Placed' BY <1>6, <2>0, <1>d, <1>m DEF Enter
    <2>2. DOMAIN gate' = Processes /\ \A p \in Processes : gate'[p] \in Gate
      <3>1. CASE gate' = [gate EXCEPT ![login[r].process].active = @ + 1]
        <4> DEFINE p == login[r].process
                   n == gate[p].active + 1
                   g == [gate[p] EXCEPT !.active = n]
        <4>1. gate[p] \in Gate BY <2>0, <1>t
        <4>4. n \in Nat BY <4>1, GateFields
        <4>3. gate' = [gate EXCEPT ![p] = g] BY <3>1
        <4> HIDE DEF n
        <4>2. g \in Gate BY <4>1, <4>4, GateCounted
        <4> HIDE DEF g
        <4> QED BY <4>2, <4>3, <2>0, <1>t, GateTyped
      <3>2. CASE gate' = [gate EXCEPT ![login[r].process].waiting = Append(@, r)]
        <4> DEFINE p == login[r].process
                   g == [gate[p] EXCEPT !.waiting = Append(@, r)]
        <4>1. gate[p] \in Gate BY <2>0, <1>t
        <4>4. Append(gate[p].waiting, r) \in Seq(Requests) BY <4>1, GateFields
        <4>2. g \in Gate BY <4>1, <4>4, GateMade, 0 \in Nat
        <4>3. gate' = [gate EXCEPT ![p] = g] BY <3>2
        <4> HIDE DEF g
        <4> QED BY <4>2, <4>3, <2>0, <1>t, GateTyped
      <3>3. CASE gate' = gate
        BY <3>3, <1>t
      <3> QED BY <1>6, <3>1, <3>2, <3>3 DEF Enter
    <2> QED BY <1>6, <1>t, <2>1, <2>2 DEF Enter, TypeOK
  <1>7. ASSUME NEW r \in Requests, Verify(r)
        PROVE  TypeOK' /\ Placed'
    <2>0. login[r].pc = "verifying" /\ login[r].process \in Processes BY <1>7, <1>p DEF Verify
    <2> DEFINE p == login[r].process
    <2>1. Matches(r) \in BOOLEAN BY DEF Matches
    <2> DEFINE row == [login[r] EXCEPT !.pc = "verdict", !.right = Matches(r)]
    <2>a. login[r] \in Row BY <1>t
    <2>b. row \in Row /\ row.process = login[r].process /\ row.name = login[r].name
          /\ row.network = login[r].network
      BY <2>1, <2>a DEF Row
    <2>c. login' = [login EXCEPT ![r] = row] BY <1>7 DEF Verify
    <2> HIDE DEF row
    <2>3. login' \in [Requests -> Row] /\ Placed' BY <2>0, <2>b, <2>c, <1>p, <1>t, <1>q, PutTyped
    <2>4. gate[p] \in Gate /\ gate[p].active \in Nat BY <2>0, <1>t DEF Gate
    <2>5. gate[p].active > 0
      <3>1. r \in Running(p) BY <2>0 DEF Running
      <3>2. IsFiniteSet(Running(p)) BY <1>n, FS_Subset DEF Running
      <3>3. Cardinality(Running(p)) # 0 BY <3>1, <3>2, FS_EmptySet
      <3> QED BY <3>3, <2>0, <2>4, <1>q DEF GateSound
    <2>6. Released(gate[p], Matches(r)) \in Gate
      <3>1. gate[p].waiting \in Seq(Requests) /\ gate[p].woken \in Seq(Requests) BY <2>4 DEF Gate
      <3>2. CASE gate[p].waiting = <<>> BY <3>2, <2>4, <2>5 DEF Released, Gate
      <3>3. CASE gate[p].waiting # <<>>
        <4>1. Head(gate[p].waiting) \in Requests /\ Tail(gate[p].waiting) \in Seq(Requests)
          BY <3>1, <3>3
        <4>2. Append(gate[p].woken, Head(gate[p].waiting)) \in Seq(Requests) BY <3>1, <4>1
        <4> QED BY <3>3, <4>1, <4>2, <2>4, <2>5 DEF Released, Gate
      <3> QED BY <3>2, <3>3
    <2>7. DOMAIN gate' = Processes /\ \A q \in Processes : gate'[q] \in Gate
      BY <1>7, <2>0, <2>6, <1>t, GateTyped DEF Verify
    <2> QED BY <1>7, <1>t, <2>3, <2>7 DEF Verify, TypeOK
  <1>8. ASSUME NEW r \in Requests, Fail(r)
        PROVE  TypeOK' /\ Placed'
    <2>0. login[r].pc = "verdict" BY <1>8 DEF Fail
    <2>1. bucket' \in [Keys -> Bucket] BY <1>8, <2>0, <1>k, <1>t DEF Fail
    <2>2. login' \in [Requests -> Row] /\ Placed' BY <1>8, <1>d DEF Fail
    <2> QED BY <1>8, <1>t, <2>1, <2>2 DEF Fail, TypeOK
  <1>9. ASSUME NEW r \in Requests, Succeed(r)
        PROVE  TypeOK' /\ Placed'
    <2>0. login[r].pc = "verdict" BY <1>9 DEF Succeed
    <2>1. bucket' \in [Keys -> Bucket] BY <1>9, <2>0, <1>b, <1>t DEF Succeed
    <2>2. login' \in [Requests -> Row] /\ Placed' BY <1>9, <2>0, <1>m DEF Succeed
    <2> QED BY <1>9, <1>t, <2>1, <2>2 DEF Succeed, TypeOK
  <1>10. ASSUME NEW r \in Requests, Issue(r)
         PROVE  TypeOK' /\ Placed'
    <2>0. login[r].pc = "issue" BY <1>10 DEF Issue
    <2>1. issued' \subseteq Issued BY <1>10, <2>0, <1>p, <1>t DEF Issue, Issued
    <2>2. login' \in [Requests -> Row] /\ Placed' BY <1>10, <1>d DEF Issue
    <2> QED BY <1>10, <1>t, <2>1, <2>2 DEF Issue, TypeOK
  <1>11. ASSUME NEW r \in Requests, Lose(r)
         PROVE  TypeOK' /\ Placed'
    <2>1. changes' \in 0..MaxChanges BY <1>11, <1>n, <1>t DEF Lose
    <2>2. login' \in [Requests -> Row] /\ Placed' BY <1>11, <1>d DEF Lose
    <2> QED BY <1>11, <1>t, <2>1, <2>2 DEF Lose, TypeOK
  <1>12. ASSUME NEW p \in Processes, Resume(p)
         PROVE  TypeOK' /\ Placed'
    <2>1. gate[p] \in Gate /\ gate[p].woken \in Seq(Requests) /\ gate[p].woken # <<>> /\ gate[p].active \in Nat
          /\ gate[p].waiting \in Seq(Requests)
      BY <1>12, <1>t DEF Resume, Gate
    <2>2. Head(gate[p].woken) \in Requests /\ Tail(gate[p].woken) \in Seq(Requests) BY <2>1
    <2>3. login[Head(gate[p].woken)].pc # "idle" BY <2>1, HeadWaits
    <2>4. login' \in [Requests -> Row] /\ Placed' BY <1>12, <2>2, <2>3, <1>m DEF Resume
    <2> DEFINE g == [gate[p] EXCEPT !.woken = Tail(@), !.active = @ + 1]
    <2>8. gate[p].active + 1 \in Nat BY <2>1
    <2>6. g \in Gate BY <2>1, <2>2, <2>8, GateMade
    <2>7. gate' = [gate EXCEPT ![p] = g] BY <1>12, <1>t DEF Resume
    <2> HIDE DEF g
    <2>5. DOMAIN gate' = Processes /\ \A q \in Processes : gate'[q] \in Gate
      BY <2>6, <2>7, <1>t, GateTyped
    <2> QED BY <1>12, <1>t, <2>4, <2>5 DEF Resume, TypeOK
  <1>13. ASSUME NEW p \in Processes, Restart(p)
         PROVE  TypeOK' /\ Placed'
    <2>1. login' \in [Requests -> Row] /\ Placed' BY <1>13, <1>t, <1>q, IdleTyped DEF Restart, Placed, Idle
    <2>2. OpenGate \in Gate BY DEF OpenGate, Gate
    <2>3. DOMAIN gate' = Processes /\ \A q \in Processes : gate'[q] \in Gate
      BY <1>13, <2>2, <1>t DEF Restart
    <2>4. bucket' \in [Keys -> Bucket] /\ issued' \subseteq Issued BY <1>13, <1>b, <1>t DEF Restart
    <2>5. changes' \in 0..MaxChanges BY <1>13, <1>n, <1>t DEF Restart
    <2> QED BY <1>13, <1>t, <2>1, <2>3, <2>4, <2>5 DEF Restart, TypeOK
  <1>14. ASSUME NEW u \in Users, Provision(u) \/ Disable(u)
         PROVE  TypeOK' /\ Placed'
    <2>1. changes' \in 0..MaxChanges BY <1>14, <1>n, <1>t DEF Provision, Disable
    <2>2. account[u] \in Account /\ account[u].password \in Nat BY <1>t DEF Account
    <2>3. account' \in [Users -> Account] BY <1>14, <1>t, <2>2 DEF Provision, Disable, Account
    <2>4. admin' \in Operation
      <3>1. [pc |-> "find", user |-> u, password |-> account[u].password + 1] \in Operation
        <4> DEFINE n == account[u].password + 1
        <4>1. n \in Nat BY <2>2
        <4> HIDE DEF n
        <4>2. [pc |-> "find", user |-> u, password |-> n] \in Operation BY <4>1 DEF Operation
        <4> QED BY <4>2 DEF n
      <3>2. [pc |-> "revoke", user |-> u, password |-> 0] \in Operation BY DEF Operation
      <3> QED BY <1>14, <3>1, <3>2 DEF Provision, Disable
    <2> QED BY <1>14, <1>t, <1>q, <2>1, <2>3, <2>4 DEF Provision, Disable, TypeOK, Placed
  <1>15. ASSUME FindExisting \/ Insert \/ Rotate \/ Revoke
         PROVE  TypeOK' /\ Placed'
    <2>1. admin.pc # "idle" => admin.user \in Users BY <1>q DEF AdminSound
    <2>2. admin.password \in Nat BY <1>t DEF Operation
    <2>3. Resting \in Operation BY DEF Resting, Operation
    <2>4. admin' \in Operation BY <1>15, <1>t, <2>3 DEF FindExisting, Insert, Rotate, Revoke, Operation
    <2>5. account' \in [Users -> Account]
      BY <1>15, <1>t, <2>1, <2>2 DEF FindExisting, Insert, Rotate, Revoke, Account
    <2>6. issued' \subseteq Issued BY <1>15, <1>t DEF FindExisting, Insert, Rotate, Revoke
    <2> QED BY <1>15, <1>t, <1>q, <2>4, <2>5, <2>6 DEF FindExisting, Insert, Rotate, Revoke, TypeOK, Placed
  <1>16. ASSUME Tick PROVE TypeOK' /\ Placed'
    BY <1>16, <1>n, <1>t, <1>q DEF Tick, TypeOK, Placed
  <1>17. ASSUME UNCHANGED vars PROVE TypeOK' /\ Placed'
    BY <1>17, <1>t, <1>q DEF vars, TypeOK, Placed
  <1> QED BY <1>1, <1>2, <1>3, <1>4, <1>5, <1>6, <1>7, <1>8, <1>9, <1>10, <1>11, <1>12, <1>13, <1>14,
             <1>15, <1>16, <1>17 DEF Next, SignIn

\* Of an account, what was disabled stays so and its password only moves on.
Grown ==
    \A u \in Users : /\ account'[u].password >= account[u].password
                     /\ account[u].st = "disabled" => account'[u].st = "disabled"

LEMMA AdminStep ==
    ASSUME LoginParameters, Inv, [Next]_vars, TypeOK'
    PROVE  AdminSound' /\ Grown
  <1>t. /\ admin \in Operation /\ account \in [Users -> Account]
        /\ admin' \in Operation /\ account' \in [Users -> Account]
        /\ AdminSound
    BY DEF Inv, TypeOK
  <1>a. \A u \in Users : account[u].password \in Nat /\ account[u].st \in {"absent", "active", "disabled"}
    BY <1>t DEF Account
  <1>r. Resting.pc = "idle" BY DEF Resting
  <1>1. CASE UNCHANGED <<account, admin>>
    BY <1>1, <1>t, <1>a DEF AdminSound, Grown
  <1>2. ASSUME NEW u \in Users, Provision(u) PROVE AdminSound' /\ Grown
    BY <1>2, <1>t, <1>a DEF Provision, AdminSound, Grown
  <1>3. ASSUME NEW u \in Users, Disable(u) PROVE AdminSound' /\ Grown
    BY <1>3, <1>t, <1>a DEF Disable, AdminSound, Grown
  <1>4. CASE FindExisting
    <2>1. admin.user \in Users /\ admin.password = account[admin.user].password + 1
      BY <1>4, <1>t DEF FindExisting, AdminSound
    <2>2. CASE account[admin.user].st = "absent"
      <3>1. admin' = [admin EXCEPT !.pc = "insert"] BY <2>2, <1>4 DEF FindExisting
      <3>2. admin'.user = admin.user /\ admin'.password = admin.password /\ admin'.pc = "insert"
        BY <3>1, <1>t DEF Operation
      <3>3. account' = account BY <1>4 DEF FindExisting
      <3> QED BY <3>2, <3>3, <2>1, <2>2, <1>a DEF AdminSound, Grown
    <2>3. CASE account[admin.user].st # "absent"
      <3>1. admin' = Resting \/ admin' = [admin EXCEPT !.pc = "rotate"] BY <2>3, <1>4 DEF FindExisting
      <3>2. admin'.pc = "idle"
            \/ (admin'.user = admin.user /\ admin'.password = admin.password /\ admin'.pc = "rotate")
        <4>1. CASE admin' = Resting BY <4>1, <1>r
        <4>2. CASE admin' = [admin EXCEPT !.pc = "rotate"] BY <4>2, <1>t DEF Operation
        <4> QED BY <3>1, <4>1, <4>2
      <3>3. account' = account BY <1>4 DEF FindExisting
      <3> QED BY <3>2, <3>3, <2>1, <2>3, <1>a DEF AdminSound, Grown
    <2> QED BY <2>2, <2>3
  <1>5. CASE Insert
    <2>1. admin.user \in Users /\ admin.password = account[admin.user].password + 1
          /\ account[admin.user].st = "absent"
      BY <1>5, <1>t DEF Insert, AdminSound
    <2>2. account'[admin.user].password = admin.password
          /\ \A u \in Users : u # admin.user => account'[u] = account[u]
      BY <1>5, <1>t, <2>1 DEF Insert
    <2>3. admin'.pc = "idle" BY <1>5, <1>r DEF Insert
    <2> QED BY <2>1, <2>2, <2>3, <1>a DEF AdminSound, Grown
  <1>6. CASE Rotate
    <2>1. admin.user \in Users /\ admin.password = account[admin.user].password + 1
      BY <1>6, <1>t DEF Rotate, AdminSound
    <2>2. admin'.user = admin.user /\ admin'.pc = "revoke" BY <1>6, <1>t DEF Rotate, Operation
    <2>3. \A u \in Users : /\ account'[u].st = account[u].st
                           /\ u # admin.user => account'[u] = account[u]
      BY <1>6, <1>t DEF Rotate, Account
    <2>4. account'[admin.user].password = admin.password BY <1>6, <1>t, <2>1 DEF Rotate, Account
    <2> QED BY <2>1, <2>2, <2>3, <2>4, <1>a DEF AdminSound, Grown
  <1>7. CASE Revoke
    <2>1. account' = account /\ admin'.pc = "idle" BY <1>7, <1>r DEF Revoke
    <2> QED BY <2>1, <1>a DEF AdminSound, Grown
  <1> QED BY <1>1, <1>2, <1>3, <1>4, <1>5, <1>6, <1>7
    DEF Next, SignIn, Arrive, CheckNetwork, CheckAccount, CheckHere, Find, Enter, Verify, Fail,
        Succeed, Issue, Lose, Resume, Restart, Tick, vars

\* A row that is as it was, or idle, is as sound as it was.
LEMMA ReadKept ==
    ASSUME LoginParameters, Inv, TypeOK', Placed', Grown, NEW r \in Requests,
           login'[r] = login[r] \/ login'[r] = Idle
    PROVE  ReadOf(r)'
  <1>t. /\ login \in [Requests -> Row] /\ ReadOf(r)
        /\ login[r].pc # "idle" => login[r].name \in Users
        /\ account \in [Users -> Account] /\ account' \in [Users -> Account]
    BY DEF Inv, TypeOK, ReadSound, Placed
  <1>i. Idle.pc = "idle" BY DEF Idle
  <1>1. CASE login'[r] = Idle BY <1>1, <1>i DEF ReadOf
  <1>2. CASE login'[r] = login[r] /\ login[r].pc \in {"network", "account", "find"}
    <2> DEFINE u == login[r].name
    <2>1. u \in Users BY <1>2, <1>t
    <2>2. account'[u].password >= account[u].password
          /\ (account[u].st = "disabled" => account'[u].st = "disabled")
      BY <2>1 DEF Grown
    <2>3. account'[u].password \in Nat /\ account[u].password \in Nat /\ login[r].atArrival.password \in Nat
      BY <2>1, <1>t, Fields DEF Account
    <2> QED BY <2>2, <2>3, <1>2, <1>t DEF ReadOf, Known
  <1>3. CASE login'[r] = login[r] /\ login[r].pc \notin {"network", "account", "find"}
    BY <1>3, <1>t DEF ReadOf, Known, Matches, Accepted
  <1> QED BY <1>1, <1>2, <1>3

LEMMA ReadStep ==
    ASSUME LoginParameters, Inv, [Next]_vars, TypeOK', Placed', Grown
    PROVE  ReadSound'
  <1>t. /\ login \in [Requests -> Row] /\ \A r \in Requests : ReadOf(r)
        /\ account \in [Users -> Account]
        /\ Placed
    BY DEF Inv, TypeOK, ReadSound
  <1>k. ASSUME NEW r \in Requests, login'[r] = login[r] \/ login'[r] = Idle
        PROVE  ReadOf(r)'
    BY <1>k, ReadKept
  <1>o. ASSUME NEW r \in Requests, NEW row, login' = [login EXCEPT ![r] = row], ReadOf(r)'
        PROVE  ReadSound'
    <2>1. \A q \in Requests \ {r} : login'[q] = login[q] BY <1>o, <1>t
    <2> QED BY <2>1, <1>o, <1>k DEF ReadSound
  <1>d. ASSUME NEW r \in Requests, Done(r) PROVE ReadSound'
    <2>1. \A q \in Requests : login'[q] = login[q] \/ login'[q] = Idle BY <1>d, <1>t DEF Done
    <2> QED BY <2>1, <1>k DEF ReadSound
  \* A move that keeps what is known of the account.
  <1>m. ASSUME NEW r \in Requests, NEW pc \in {"account", "find", "waiting", "verifying"},
               login' = [login EXCEPT ![r].pc = pc], account' = account,
               login[r].pc \in (IF pc \in {"account", "find"} THEN {"network", "account"}
                                ELSE {"gate", "waiting"})
        PROVE  ReadSound'
    <2> DEFINE row == [login[r] EXCEPT !.pc = pc]
    <2>1. login[r] \in Row BY <1>t
    <2>2. /\ row.pc = pc /\ row.name = login[r].name /\ row.read = login[r].read
          /\ row.atArrival = login[r].atArrival
      BY <2>1 DEF Row
    <2>3. login'[r] = row /\ login' = [login EXCEPT ![r] = row] BY <1>m, <1>t
    <2>4. ReadOf(r)' BY <2>2, <2>3, <1>m, <1>t DEF ReadOf, Known
    <2> HIDE DEF row
    <2> QED BY <2>3, <2>4, <1>o
  <1>1. ASSUME NEW r \in Requests, NEW p \in Processes, NEW u \in Users, NEW w \in Networks,
               NEW g \in 0..(1 + MaxChanges), Arrive(r, p, u, w, g)
        PROVE  ReadSound'
    <2>1. account' = account BY <1>1 DEF Arrive
    <2>2. account[u].password \in Nat BY <1>t DEF Account
    <2>3. login'[r].pc = "network" /\ login'[r].name = u /\ login'[r].atArrival = account[u]
      BY <1>1, <1>t DEF Arrive
    <2>4. ReadOf(r)' BY <2>1, <2>2, <2>3 DEF ReadOf, Known
    <2>5. \A q \in Requests \ {r} : login'[q] = login[q] BY <1>1, <1>t DEF Arrive
    <2> QED BY <2>4, <2>5, <1>k DEF ReadSound
  <1>2. ASSUME NEW r \in Requests, CheckNetwork(r) \/ CheckAccount(r) \/ CheckHere(r)
        PROVE  ReadSound'
    BY <1>2, <1>d, <1>m DEF CheckNetwork, CheckAccount, CheckHere
  <1>5. ASSUME NEW r \in Requests, Find(r)
        PROVE  ReadSound'
    <2> DEFINE row == [login[r] EXCEPT !.pc = "gate", !.read = account[login[r].name]]
    <2>1. login[r] \in Row /\ login[r].pc = "find" BY <1>5, <1>t DEF Find
    <2>2. /\ row.pc = "gate" /\ row.read = account[login[r].name]
          /\ row.atArrival = login[r].atArrival
      BY <2>1 DEF Row
    <2>3. login'[r] = row /\ login' = [login EXCEPT ![r] = row] BY <1>5, <1>t DEF Find
    <2>4. ReadOf(r) BY <1>t
    <2>5. ReadOf(r)' BY <2>1, <2>2, <2>3, <2>4 DEF ReadOf, Known
    <2> HIDE DEF row
    <2> QED BY <2>3, <2>5, <1>o
  <1>6. ASSUME NEW r \in Requests, Enter(r)
        PROVE  ReadSound'
    BY <1>6, <1>d, <1>m DEF Enter
  <1>7. ASSUME NEW r \in Requests, Verify(r)
        PROVE  ReadSound'
    <2> DEFINE row == [login[r] EXCEPT !.pc = "verdict", !.right = Matches(r)]
    <2>1. login[r] \in Row /\ login[r].pc = "verifying" BY <1>7, <1>t DEF Verify
    <2>2. /\ row.pc = "verdict" /\ row.read = login[r].read /\ row.guess = login[r].guess
          /\ row.atArrival = login[r].atArrival /\ row.right = Matches(r)
      BY <2>1 DEF Row
    <2>3. login'[r] = row /\ login' = [login EXCEPT ![r] = row] BY <1>7, <1>t DEF Verify
    <2>4. ReadOf(r) BY <1>t
    <2>5. Known(r)' = login[r].read /\ Known(r) = login[r].read BY <2>1, <2>2, <2>3 DEF Known
    <2>6. Matches(r)' <=> Matches(r) BY <2>2, <2>3 DEF Matches
    <2>7. ReadOf(r)' BY <2>1, <2>2, <2>3, <2>4, <2>5, <2>6 DEF ReadOf
    <2> HIDE DEF row
    <2> QED BY <2>3, <2>7, <1>o
  <1>8. ASSUME NEW r \in Requests, Fail(r) \/ Issue(r) \/ Lose(r)
        PROVE  ReadSound'
    BY <1>8, <1>d DEF Fail, Issue, Lose
  <1>9. ASSUME NEW r \in Requests, Succeed(r)
        PROVE  ReadSound'
    <2> DEFINE row == [login[r] EXCEPT !.pc = "issue"]
    <2>1. login[r] \in Row /\ login[r].pc = "verdict" /\ Accepted(r) BY <1>9, <1>t DEF Succeed
    <2>2. /\ row.pc = "issue" /\ row.read = login[r].read /\ row.guess = login[r].guess
          /\ row.atArrival = login[r].atArrival /\ row.right = login[r].right
      BY <2>1 DEF Row
    <2>3. login'[r] = row /\ login' = [login EXCEPT ![r] = row] BY <1>9, <1>t DEF Succeed
    <2>4. ReadOf(r) BY <1>t
    <2>5. Known(r)' = login[r].read /\ Known(r) = login[r].read BY <2>1, <2>2, <2>3 DEF Known
    <2>6. (Matches(r)' <=> Matches(r)) /\ (Accepted(r)' <=> Accepted(r))
      BY <2>2, <2>3 DEF Matches, Accepted
    <2>7. ReadOf(r)' BY <2>1, <2>2, <2>3, <2>4, <2>5, <2>6 DEF ReadOf
    <2> HIDE DEF row
    <2> QED BY <2>3, <2>7, <1>o
  <1>12. ASSUME NEW p \in Processes, Resume(p)
         PROVE  ReadSound'
    <2> DEFINE q == Head(gate[p].woken)
    <2>1. q \in Requests /\ login[q].pc = "waiting"
      BY <1>12, HeadWaits DEF Resume
    <2>2. login' = [login EXCEPT ![q].pc = "verifying"] /\ account' = account BY <1>12 DEF Resume
    <2> HIDE DEF q
    <2> QED BY <2>1, <2>2, <1>m
  <1>13. ASSUME NEW p \in Processes, Restart(p)
         PROVE  ReadSound'
    <2>1. \A q \in Requests : login'[q] = login[q] \/ login'[q] = Idle BY <1>13 DEF Restart
    <2> QED BY <2>1, <1>k DEF ReadSound
  <1>14. CASE login' = login
    BY <1>14, <1>k DEF ReadSound
  <1> QED BY <1>1, <1>2, <1>5, <1>6, <1>7, <1>8, <1>9, <1>12, <1>13, <1>14
    DEF Next, SignIn, Provision, Disable, FindExisting, Insert, Rotate, Revoke, Tick, vars

LEMMA EarnedStep ==
    ASSUME LoginParameters, Inv, [Next]_vars
    PROVE  SessionEarned'
  <1>t. SessionEarned /\ ReadSound /\ login \in [Requests -> Row] BY DEF Inv, TypeOK
  <1>1. CASE issued' \subseteq issued BY <1>1, <1>t DEF SessionEarned
  <1>2. ASSUME NEW r \in Requests, Issue(r) PROVE SessionEarned'
    <2> DEFINE i == [user |-> login[r].name, guess |-> login[r].guess,
                     read |-> login[r].read, atArrival |-> login[r].atArrival]
    <2>1. login[r].pc = "issue" /\ issued' = issued \cup {i} BY <1>2 DEF Issue
    <2>2. /\ Accepted(r) /\ Matches(r) /\ login[r].read.password >= login[r].atArrival.password
          /\ login[r].atArrival.st = "disabled" => login[r].read.st = "disabled"
      BY <2>1, <1>t DEF ReadSound, ReadOf, Known, Accepted
    <2>3. /\ i.guess = i.read.password /\ i.guess # 0 /\ i.atArrival.st # "disabled"
          /\ i.guess >= i.atArrival.password
      BY <2>2 DEF Accepted, Matches
    <2> HIDE DEF i
    <2> QED BY <2>1, <2>3, <1>t DEF SessionEarned
  <1> QED BY <1>1, <1>2
    DEF Next, SignIn, Arrive, CheckNetwork, CheckAccount, CheckHere, Find, Enter, Verify, Fail,
        Succeed, Lose, Resume, Restart, Provision, Disable, FindExisting, Insert, Rotate, Revoke, Tick, vars

-----------------------------------------------------------------------------
Counts == {"find", "gate", "waiting", "verifying", "verdict"}

LEMMA Part ==
    ASSUME LoginParameters, NEW S \in SUBSET Requests
    PROVE  /\ IsFiniteSet(S) /\ Cardinality(S) \in Nat /\ Cardinality(Requests) \in Nat
           /\ Cardinality(S) <= Cardinality(Requests)
  BY FS_Subset, FS_CardinalityType DEF LoginParameters

LEMMA CheckedPart == \A u : Checked(u) \in SUBSET Requests /\ Checked(u)' \in SUBSET Requests
  BY DEF Checked

FailuresOf(u) ==
    bucket[u].count + Cardinality(Checked(u)) <= AccountLimit - 1 + Cardinality(Requests)

\* A name below its limit may have every login fail.
LEMMA BelowLimit ==
    ASSUME LoginParameters, NEW u \in Users, bucket'[u].count \in Nat, bucket'[u].count <= AccountLimit - 1
    PROVE  FailuresOf(u)'
  <1>1. Cardinality(Checked(u)') \in Nat /\ Cardinality(Requests) \in Nat
        /\ Cardinality(Checked(u)') <= Cardinality(Requests)
    BY Part, CheckedPart
  <1>2. AccountLimit \in Nat BY DEF LoginParameters
  <1> QED BY <1>1, <1>2 DEF FailuresOf

\* The logins let through of a name are the same, or fewer.
LEMMA NoMoreChecked ==
    ASSUME LoginParameters, Inv, NEW u \in Users, bucket'[u] = bucket[u],
           \A r \in Requests : login'[r].pc \in Counts /\ login'[r].name = u =>
               \/ /\ login[r].pc \in Counts
                  /\ login'[r].name = login[r].name /\ login'[r].at = login[r].at
               \/ ~(login'[r].at - bucket[u].start < Window)
    PROVE  FailuresOf(u)'
  <1>1. Checked(u)' \subseteq Checked(u) BY DEF Checked, Counts
  <1>2. IsFiniteSet(Checked(u)) /\ Cardinality(Checked(u)) \in Nat /\ Cardinality(Requests) \in Nat
    BY Part, CheckedPart
  <1>3. Cardinality(Checked(u)') \in Nat /\ Cardinality(Checked(u)') <= Cardinality(Checked(u))
    BY <1>1, <1>2, FS_Subset, FS_CardinalityType
  <1>4. bucket[u].count \in Nat /\ AccountLimit \in Nat
    BY DEF Inv, TypeOK, Bucket, Keys, LoginParameters
  <1>5. bucket[u].count + Cardinality(Checked(u)) <= AccountLimit - 1 + Cardinality(Requests)
    BY DEF Inv, FailuresSound
  <1> QED BY <1>2, <1>3, <1>4, <1>5 DEF FailuresOf

\* A login let through is one that may fail: its name is below the limit, or its
\* window is another.
LEMMA LetThrough ==
    ASSUME LoginParameters, Inv, NEW r \in Requests, NEW u \in Users, bucket'[u] = bucket[u],
           login' = [login EXCEPT ![r].pc = "find"],
           ~Locked(login[r].name, login[r].at)
    PROVE  FailuresOf(u)'
  <1>t. /\ login \in [Requests -> Row] /\ bucket[u].count \in Nat /\ bucket[u].start \in Nat
        /\ AccountLimit \in Nat /\ login[r].at \in Nat /\ login[r] \in Row /\ Window \in Nat
    BY DEF Inv, TypeOK, Bucket, Keys, LoginParameters, Row
  <1>0. \A q \in Requests : q # r => login'[q] = login[q] BY <1>t
  <1>1. login'[r].name = login[r].name /\ login'[r].at = login[r].at
    BY <1>t DEF Row
  <1>2. CASE login[r].name # u
    BY <1>0, <1>1, <1>2, NoMoreChecked
  <1>3. CASE login[r].name = u /\ bucket[u].count <= AccountLimit - 1
    BY <1>3, <1>t, BelowLimit
  <1>4. CASE login[r].name = u /\ ~(bucket[u].count <= AccountLimit - 1)
    <2>1. AccountLimit > 0 BY DEF LoginParameters
    <2>2. ~(login[r].at - bucket[u].start < Window) BY <1>4, <1>t, <2>1 DEF Locked, Within
    <2> QED BY <1>0, <1>1, <2>2, NoMoreChecked
  <1> QED BY <1>2, <1>3, <1>4

LEMMA FailStep ==
    ASSUME LoginParameters, Inv, NEW r \in Requests, Fail(r), NEW u \in Users
    PROVE  FailuresOf(u)'
  <1> DEFINE b == bucket[u]
             n == Cardinality(Requests)
  <1>t. /\ login \in [Requests -> Row] /\ b.count \in Nat /\ b.start \in Nat /\ b \in Bucket
        /\ AccountLimit \in Nat \ {0} /\ login[r].at \in Nat /\ Window \in Nat
        /\ bucket \in [Keys -> Bucket] /\ u \in Keys
    BY DEF Inv, TypeOK, Bucket, Keys, LoginParameters, Row
  <1>0. login'[r] = Idle /\ Idle.pc = "idle" /\ \A q \in Requests : q # r => login'[q] = login[q]
    BY <1>t DEF Fail, Done, Idle
  <1>1. CASE login[r].name # u
    <2>1. bucket'[u] = bucket[u] BY <1>1, <1>t DEF Fail
    <2> QED BY <2>1, <1>0, NoMoreChecked DEF Counts
  <1>2. CASE login[r].name = u
    <2>1. bucket'[u] = Bumped(b, login[r].at) BY <1>2, <1>t DEF Fail
    <2>2. r \notin Checked(u)' BY <1>0 DEF Checked
    <2>3. CASE Within(b, login[r].at)
      <3>1. bucket'[u].count = b.count + 1 /\ bucket'[u].start = b.start
        BY <2>1, <2>3, <1>t DEF Bumped, Bucket
      <3>2. r \in Checked(u) BY <1>2, <2>3 DEF Fail, Checked, Within
      <3>3. Checked(u)' \subseteq Checked(u) \ {r} BY <3>1, <1>0, <2>2 DEF Checked
      <3>4. IsFiniteSet(Checked(u)) /\ Cardinality(Checked(u)) \in Nat /\ n \in Nat
        BY Part, CheckedPart
      <3>5. IsFiniteSet(Checked(u) \ {r}) /\ Cardinality(Checked(u) \ {r}) = Cardinality(Checked(u)) - 1
        BY <3>2, <3>4, FS_RemoveElement
      <3>6. Cardinality(Checked(u)') \in Nat /\ Cardinality(Checked(u)') <= Cardinality(Checked(u) \ {r})
        BY <3>3, <3>5, FS_Subset, FS_CardinalityType
      <3>7. b.count + Cardinality(Checked(u)) <= AccountLimit - 1 + n BY DEF Inv, FailuresSound
      <3> QED BY <3>1, <3>4, <3>5, <3>6, <3>7, <1>t DEF FailuresOf
    <2>4. CASE ~Within(b, login[r].at)
      <3>1. bucket'[u].count = 1 BY <2>1, <2>4, <1>t DEF Bumped
      <3>2. Checked(u)' \subseteq Requests \ {r} BY <2>2 DEF Checked
      <3>3. IsFiniteSet(Requests) /\ n \in Nat BY Part, CheckedPart DEF LoginParameters
      <3>4. IsFiniteSet(Requests \ {r}) /\ Cardinality(Requests \ {r}) = n - 1
        BY <3>3, FS_RemoveElement
      <3>5. Cardinality(Checked(u)') \in Nat /\ Cardinality(Checked(u)') <= Cardinality(Requests \ {r})
        BY <3>2, <3>4, FS_Subset, FS_CardinalityType
      <3> QED BY <3>1, <3>3, <3>4, <3>5, <1>t DEF FailuresOf
    <2> QED BY <2>3, <2>4
  <1> QED BY <1>1, <1>2

LEMMA FailuresStep ==
    ASSUME LoginParameters, Inv, [Next]_vars, TypeOK'
    PROVE  FailuresSound'
  <1> SUFFICES ASSUME NEW u \in Users PROVE FailuresOf(u)'
    BY DEF FailuresSound, FailuresOf
  <1>t. /\ login \in [Requests -> Row] /\ bucket \in [Keys -> Bucket] /\ u \in Keys
        /\ \A r \in Requests : login[r].pc # "idle" => login[r].network \in Networks /\ login[r].name \in Users
        /\ Users \cap Networks = {} /\ bucket'[u].count \in Nat
    BY DEF Inv, TypeOK, Keys, Placed, LoginParameters, Bucket
  <1>i. Idle.pc \notin Counts BY DEF Idle, Counts
  \* A login that moves from one place where it counts to another, or to none.
  <1>m. ASSUME NEW r \in Requests, bucket'[u] = bucket[u],
               NEW row, login' = [login EXCEPT ![r] = row],
               row.pc \in Counts => /\ login[r].pc \in Counts
                                    /\ row.name = login[r].name /\ row.at = login[r].at
        PROVE  FailuresOf(u)'
    <2>1. login'[r] = row /\ \A q \in Requests : q # r => login'[q] = login[q] BY <1>m, <1>t
    <2> QED BY <2>1, <1>m, NoMoreChecked
  <1>p. ASSUME NEW r \in Requests, bucket'[u] = bucket[u], NEW pc, login' = [login EXCEPT ![r].pc = pc],
               pc \in Counts => login[r].pc \in Counts
        PROVE  FailuresOf(u)'
    <2> DEFINE row == [login[r] EXCEPT !.pc = pc]
    <2>1. row.pc = pc /\ row.name = login[r].name /\ row.at = login[r].at BY <1>t DEF Row
    <2>2. login' = [login EXCEPT ![r] = row] BY <1>p
    <2> HIDE DEF row
    <2> QED BY <2>1, <2>2, <1>m, <1>p
  <1>d. ASSUME NEW r \in Requests, bucket'[u] = bucket[u], Done(r) PROVE FailuresOf(u)'
    BY <1>d, <1>i, <1>m DEF Done
  <1>1. ASSUME NEW r \in Requests, NEW p \in Processes, NEW v \in Users, NEW w \in Networks,
               NEW g \in 0..(1 + MaxChanges), Arrive(r, p, v, w, g)
        PROVE  FailuresOf(u)'
    <2>1. login'[r].pc = "network" /\ (\A q \in Requests : q # r => login'[q] = login[q])
          /\ bucket' = bucket
      BY <1>1, <1>t DEF Arrive
    <2> QED BY <2>1, NoMoreChecked DEF Counts
  <1>2. ASSUME NEW r \in Requests, CheckNetwork(r) PROVE FailuresOf(u)'
    <2>1. bucket'[u] = bucket[u] BY <1>2, <1>t DEF CheckNetwork
    <2> QED BY <1>2, <2>1, <1>d, <1>p DEF CheckNetwork, Counts
  <1>3. ASSUME NEW r \in Requests, CheckAccount(r) PROVE FailuresOf(u)'
    BY <1>3, <1>d, LetThrough DEF CheckAccount
  <1>4. ASSUME NEW r \in Requests, CheckHere(r) PROVE FailuresOf(u)'
    <2>1. bucket'[u] = bucket[u] BY <1>4, <1>t DEF CheckHere
    <2> QED BY <1>4, <2>1, <1>d, LetThrough DEF CheckHere
  <1>5. ASSUME NEW r \in Requests, Find(r) PROVE FailuresOf(u)'
    <2> DEFINE row == [login[r] EXCEPT !.pc = "gate", !.read = account[login[r].name]]
    <2>1. row.name = login[r].name /\ row.at = login[r].at /\ login[r].pc \in Counts
      BY <1>5, <1>t DEF Find, Row, Counts
    <2>2. login' = [login EXCEPT ![r] = row] /\ bucket' = bucket BY <1>5 DEF Find
    <2> HIDE DEF row
    <2> QED BY <2>1, <2>2, <1>m
  <1>6. ASSUME NEW r \in Requests, Enter(r) PROVE FailuresOf(u)'
    <2>1. login[r].pc \in Counts /\ bucket' = bucket BY <1>6 DEF Enter, Counts
    <2> QED BY <1>6, <2>1, <1>d, <1>p DEF Enter
  <1>7. ASSUME NEW r \in Requests, Verify(r) PROVE FailuresOf(u)'
    <2> DEFINE row == [login[r] EXCEPT !.pc = "verdict", !.right = Matches(r)]
    <2>1. row.name = login[r].name /\ row.at = login[r].at /\ login[r].pc \in Counts
      BY <1>7, <1>t DEF Verify, Row, Counts
    <2>2. login' = [login EXCEPT ![r] = row] /\ bucket' = bucket BY <1>7 DEF Verify
    <2> HIDE DEF row
    <2> QED BY <2>1, <2>2, <1>m
  <1>8. ASSUME NEW r \in Requests, Fail(r) PROVE FailuresOf(u)'
    BY <1>8, FailStep
  <1>9. ASSUME NEW r \in Requests, Succeed(r) PROVE FailuresOf(u)'
    <2>1. CASE login[r].name = u
      <3>1. bucket'[u] = NoBucket BY <1>9, <2>1, <1>t DEF Succeed
      <3>2. NoBucket.count = 0 /\ 0 <= AccountLimit - 1 BY DEF NoBucket, LoginParameters
      <3> QED BY <3>1, <3>2, BelowLimit
    <2>2. CASE login[r].name # u
      <3>1. bucket'[u] = bucket[u] BY <1>9, <2>2, <1>t DEF Succeed
      <3> QED BY <3>1, <1>9, <1>p DEF Succeed, Counts
    <2> QED BY <2>1, <2>2
  <1>10. ASSUME NEW r \in Requests, Issue(r) \/ Lose(r) PROVE FailuresOf(u)'
    BY <1>10, <1>d DEF Issue, Lose
  <1>12. ASSUME NEW p \in Processes, Resume(p) PROVE FailuresOf(u)'
    <2> DEFINE q == Head(gate[p].woken)
    <2>1. q \in Requests /\ login[q].pc = "waiting" BY <1>12, HeadWaits DEF Resume
    <2>2. login' = [login EXCEPT ![q].pc = "verifying"] /\ bucket' = bucket BY <1>12 DEF Resume
    <2> HIDE DEF q
    <2> QED BY <2>1, <2>2, <1>p DEF Counts
  <1>13. ASSUME NEW p \in Processes, Restart(p) PROVE FailuresOf(u)'
    <2>1. CASE bucket'[u] = NoBucket
      <3>2. NoBucket.count = 0 /\ 0 <= AccountLimit - 1 BY DEF NoBucket, LoginParameters
      <3> QED BY <2>1, <3>2, BelowLimit
    <2>2. CASE bucket'[u] = bucket[u]
      <3>1. \A q \in Requests : login'[q] = login[q] \/ login'[q] = Idle BY <1>13 DEF Restart
      <3> QED BY <2>2, <3>1, <1>i, NoMoreChecked
    <2> QED BY <1>13, <1>t, <2>1, <2>2 DEF Restart
  <1>14. CASE UNCHANGED <<login, bucket>>
    BY <1>14, NoMoreChecked
  <1> QED BY <1>1, <1>2, <1>3, <1>4, <1>5, <1>6, <1>7, <1>8, <1>9, <1>10, <1>12, <1>13, <1>14
    DEF Next, SignIn, Provision, Disable, FindExisting, Insert, Rotate, Revoke, Tick, vars

-----------------------------------------------------------------------------
LEMMA DistinctAppend ==
    ASSUME NEW S, NEW s \in Seq(S), NEW x \in S, Distinct(s), \A i \in 1..Len(s) : s[i] # x
    PROVE  Distinct(Append(s, x))
  BY DEF Distinct

LEMMA DistinctTail ==
    ASSUME NEW S, NEW s \in Seq(S), Distinct(s), s # <<>>
    PROVE  /\ Distinct(Tail(s))
           /\ \A x : (\E i \in 1..Len(Tail(s)) : Tail(s)[i] = x)
                       <=> x # Head(s) /\ \E i \in 1..Len(s) : s[i] = x
<1>1. /\ Len(s) \in Nat /\ Len(s) > 0 /\ Len(Tail(s)) = Len(s) - 1
      /\ \A i \in 1..Len(Tail(s)) : Tail(s)[i] = s[i + 1]
      /\ Head(s) = s[1]
  OBVIOUS
<1>2. Distinct(Tail(s)) BY <1>1 DEF Distinct
<1>3. ASSUME NEW x, NEW i \in 1..Len(Tail(s)), Tail(s)[i] = x
      PROVE  x # Head(s) /\ \E j \in 1..Len(s) : s[j] = x
  <2>1. i + 1 \in 1..Len(s) /\ 1 \in 1..Len(s) /\ s[i + 1] = x BY <1>1, <1>3
  <2>2. s[i + 1] # s[1] BY <2>1, <1>3 DEF Distinct
  <2> QED BY <2>1, <2>2, <1>1
<1>4. ASSUME NEW x, x # Head(s), NEW i \in 1..Len(s), s[i] = x
      PROVE  \E j \in 1..Len(Tail(s)) : Tail(s)[j] = x
  <2>1. i # 1 /\ i - 1 \in 1..Len(Tail(s)) BY <1>1, <1>4
  <2>2. Tail(s)[i - 1] = x BY <2>1, <1>1, <1>4
  <2> QED BY <2>1, <2>2
<1> QED BY <1>2, <1>3, <1>4

LEMMA AppendHolds ==
    ASSUME NEW S, NEW s \in Seq(S), NEW y \in S
    PROVE  \A x : (\E i \in 1..Len(Append(s, y)) : Append(s, y)[i] = x)
                     <=> x = y \/ \E i \in 1..Len(s) : s[i] = x
<1>1. /\ Len(s) \in Nat /\ Len(Append(s, y)) = Len(s) + 1
      /\ \A i \in 1..Len(s) : Append(s, y)[i] = s[i]
      /\ Append(s, y)[Len(s) + 1] = y
  OBVIOUS
<1> QED BY <1>1

LEMMA Rejoined ==
    ASSUME NEW S, NEW a \in Seq(S), a # <<>>
    PROVE  /\ Append(<<>>, Head(a)) \o Tail(a) = a /\ Len(Append(<<>>, Head(a))) = 1
           /\ Len(Tail(a)) = Len(a) - 1
<1> DEFINE h == Append(<<>>, Head(a))
<1>1. /\ Head(a) \in S /\ Head(a) = a[1] /\ Tail(a) \in Seq(S) /\ Len(Tail(a)) = Len(a) - 1
      /\ Len(a) \in Nat /\ Len(a) > 0
      /\ \A i \in 1..Len(Tail(a)) : Tail(a)[i] = a[i + 1]
  BY HeadTailProperties
<1>2. h \in Seq(S) /\ Len(h) = 1 /\ h[1] = Head(a)
  BY <1>1, EmptySeq, AppendProperties
<1> HIDE DEF h
<1>3. /\ h \o Tail(a) \in Seq(S) /\ Len(h \o Tail(a)) = Len(a)
      /\ \A i \in 1..Len(a) : (h \o Tail(a))[i] = IF i <= 1 THEN h[i] ELSE Tail(a)[i - 1]
  <2>1. /\ h \o Tail(a) \in Seq(S) /\ Len(h \o Tail(a)) = Len(h) + Len(Tail(a))
        /\ \A i \in 1..Len(h) + Len(Tail(a)) :
              (h \o Tail(a))[i] = IF i <= Len(h) THEN h[i] ELSE Tail(a)[i - Len(h)]
    <3>1. Tail(a) \in Seq(S) /\ h \in Seq(S) BY <1>1, <1>2
    <3> QED BY Zenon, <3>1, ConcatProperties
  <2>2. Len(h) + Len(Tail(a)) = Len(a) BY <1>1, <1>2
  <2> QED BY <2>1, <2>2, <1>2
<1>4. \A i \in 1..Len(a) : (h \o Tail(a))[i] = a[i]
  <2> TAKE i \in 1..Len(a)
  <2>1. CASE i = 1 BY <2>1, <1>1, <1>2, <1>3
  <2>2. CASE i # 1
    <3>1. i - 1 \in 1..Len(Tail(a)) /\ i - 1 + 1 = i BY <2>2, <1>1
    <3>2. Tail(a)[i - 1] = a[i] BY <3>1, <1>1
    <3> QED BY <3>2, <2>2, <1>1, <1>3
  <2> QED BY <2>1, <2>2
<1>5. h \o Tail(a) = a BY <1>3, <1>4, SeqEqual
<1> QED BY <1>1, <1>2, <1>5 DEF h

LEMMA TailJoined ==
    ASSUME NEW S, NEW a \in Seq(S), a # <<>>, NEW b \in Seq(S)
    PROVE  Tail(a \o b) = Tail(a) \o b
<1>1. /\ Tail(a) \in Seq(S) /\ Len(Tail(a)) = Len(a) - 1
      /\ Len(a) \in Nat /\ Len(a) > 0 /\ Len(b) \in Nat
      /\ \A i \in 1..Len(Tail(a)) : Tail(a)[i] = a[i + 1]
  BY HeadTailProperties
<1> DEFINE c == a \o b
           t == Tail(a) \o b
<1>2. /\ c \in Seq(S) /\ Len(c) = Len(a) + Len(b)
      /\ \A i \in 1..Len(a) + Len(b) : c[i] = IF i <= Len(a) THEN a[i] ELSE b[i - Len(a)]
  BY ConcatProperties
<1>3. /\ t \in Seq(S) /\ Len(t) = Len(a) - 1 + Len(b)
      /\ \A i \in 1..Len(a) - 1 + Len(b) :
             t[i] = IF i <= Len(a) - 1 THEN Tail(a)[i] ELSE b[i - (Len(a) - 1)]
  BY <1>1, ConcatProperties
<1> HIDE DEF c, t
<1>4. c # <<>> BY <1>1, <1>2
<1>5. /\ Tail(c) \in Seq(S) /\ Len(Tail(c)) = Len(c) - 1
      /\ \A i \in 1..Len(Tail(c)) : Tail(c)[i] = c[i + 1]
  BY <1>2, <1>4, HeadTailProperties
<1>6. \A i \in 1..Len(Tail(c)) : Tail(c)[i] = t[i]
  <2> TAKE i \in 1..Len(Tail(c))
  <2>1. i \in Nat /\ i >= 1 /\ i <= Len(a) + Len(b) - 1 /\ i + 1 \in 1..Len(a) + Len(b)
        /\ i \in 1..Len(a) - 1 + Len(b)
    BY <1>1, <1>2, <1>5
  <2>2. CASE i <= Len(a) - 1
    <3>1. t[i] = Tail(a)[i] /\ i \in 1..Len(Tail(a)) BY <2>1, <2>2, <1>1, <1>3
    <3>2. c[i + 1] = a[i + 1] BY <2>1, <2>2, <1>1, <1>2
    <3> QED BY <3>1, <3>2, <1>1, <1>5
  <2>3. CASE ~(i <= Len(a) - 1)
    <3>1. t[i] = b[i - (Len(a) - 1)] BY <2>1, <2>3, <1>1, <1>3
    <3>2. c[i + 1] = b[i + 1 - Len(a)] BY <2>1, <2>3, <1>1, <1>2
    <3>3. i - (Len(a) - 1) = i + 1 - Len(a) BY <2>1, <1>1
    <3> QED BY <3>1, <3>2, <3>3, <1>5
  <2> QED BY <2>2, <2>3
<1>7. Len(Tail(c)) = Len(t) BY <1>1, <1>2, <1>3, <1>5
<1>8. Tail(c) = t BY <1>3, <1>5, <1>6, <1>7, SeqEqual
<1> QED BY <1>8 DEF c, t

\* Of a gate without woken logins the line is its queue.
LEMMA QuietLine ==
    ASSUME NEW S, NEW a, NEW b \in Seq(S), a = <<>>
    PROVE  a \o b = b
  OBVIOUS

LEMMA GateFacts ==
    ASSUME Inv, NEW p \in Processes
    PROVE  /\ gate[p] \in Gate /\ DOMAIN gate = Processes /\ login \in [Requests -> Row]
           /\ gate[p].active \in Nat /\ gate[p].waiting \in Seq(Requests)
           /\ gate[p].woken \in Seq(Requests)
           /\ Line(p) \in Seq(Requests) /\ Len(gate[p].woken) \in Nat /\ Len(gate[p].waiting) \in Nat
           /\ GateSound(p)
<1>1. gate[p] \in Gate /\ DOMAIN gate = Processes /\ login \in [Requests -> Row] /\ GateSound(p)
  BY DEF Inv, TypeOK
<1>2. /\ gate[p].active \in Nat /\ gate[p].waiting \in Seq(Requests)
      /\ gate[p].woken \in Seq(Requests)
  BY <1>1, GateFields
<1>3. Line(p) \in Seq(Requests) BY <1>2 DEF Line
<1> QED BY <1>1, <1>2, <1>3

\* A gate is as it was when nobody of it came to wait or verify, or ceased to.
LEMMA GateKept ==
    ASSUME Inv, NEW p \in Processes, gate'[p] = gate[p],
           \A r \in Requests : \A c \in {"waiting", "verifying"} :
               (login'[r].pc = c /\ login'[r].process = p) <=> (login[r].pc = c /\ login[r].process = p)
    PROVE  GateSound(p)'
<1>1. GateSound(p) BY GateFacts
<1>2. Running(p)' = Running(p) BY DEF Running
<1>3. Line(p)' = Line(p) BY DEF Line
<1> HIDE DEF Inv
<1> QED BY <1>1, <1>2, <1>3 DEF GateSound

\* One login of a gate, or none, moves; the others are as they were.
LEMMA OthersGates ==
    ASSUME Inv, NEW r \in Requests, NEW row, login' = [login EXCEPT ![r] = row],
           NEW p \in Processes, gate'[p] = gate[p],
           \A c \in {"waiting", "verifying"} :
               (row.pc = c /\ row.process = p) <=> (login[r].pc = c /\ login[r].process = p)
    PROVE  GateSound(p)'
<1>1. login \in [Requests -> Row] BY GateFacts
<1>2. login'[r] = row /\ \A q \in Requests : q # r => login'[q] = login[q] BY <1>1
<1>3. \A q \in Requests : \A c \in {"waiting", "verifying"} :
          (login'[q].pc = c /\ login'[q].process = p) <=> (login[q].pc = c /\ login[q].process = p)
  BY <1>2
<1> QED BY <1>3, GateKept

LEMMA RunningFacts ==
    ASSUME LoginParameters, NEW p
    PROVE  IsFiniteSet(Running(p)) /\ Cardinality(Running(p)) \in Nat
  BY FS_Subset, FS_CardinalityType DEF LoginParameters, Running

\* A login comes to its gate: at once, into the queue, or away.
LEMMA EnterGate ==
    ASSUME LoginParameters, Inv, NEW r \in Requests, Enter(r), NEW p \in Processes
    PROVE  GateSound(p)'
<1>f. /\ gate[p] \in Gate /\ DOMAIN gate = Processes /\ login \in [Requests -> Row]
      /\ gate[p].active \in Nat /\ gate[p].waiting \in Seq(Requests)
      /\ gate[p].woken \in Seq(Requests)
      /\ Line(p) \in Seq(Requests) /\ Len(gate[p].woken) \in Nat /\ Len(gate[p].waiting) \in Nat
      /\ GateSound(p)
  BY GateFacts
<1>0. login[r].pc = "gate" BY DEF Enter
<1>n. MaxConcurrent \in Nat /\ MaxWaiting \in Nat BY DEF LoginParameters
<1>1. CASE login[r].process # p
  <2>1. gate'[p] = gate[p] BY <1>1, <1>f DEF Enter
  <2>2. \A q \in Requests : q # r => login'[q] = login[q] BY <1>f DEF Enter, Done
  <2>3. login'[r].process # p \/ login'[r].pc = "idle"
    <3>1. CASE Done(r) BY <3>1, <1>f DEF Done, Idle
    <3>2. CASE ~Done(r)
      <4>1. PICK pc \in {"verifying", "waiting"} : login' = [login EXCEPT ![r].pc = pc]
        BY <3>2 DEF Enter
      <4>2. login'[r] = [login[r] EXCEPT !.pc = pc] BY <4>1, <1>f
      <4>3. login'[r].process = login[r].process BY <4>2, <1>f, Moved
      <4> QED BY <4>3, <1>1
    <3> QED BY <3>1, <3>2
  <2> QED BY <1>0, <1>1, <2>1, <2>2, <2>3, GateKept
<1>2. CASE login[r].process = p
  <2>w. gate[p].woken = <<>> /\ Len(gate[p].woken) = 0 BY <1>2 DEF Enter, Quiet
  <2>l. Line(p) = gate[p].waiting BY <2>w, <1>f, QuietLine DEF Line
  <2>g. /\ Distinct(Line(p))
        /\ \A q \in Requests :
              (login[q].pc = "waiting" /\ login[q].process = p) <=> \E i \in 1..Len(Line(p)) : Line(p)[i] = q
        /\ gate[p].active = Cardinality(Running(p))
        /\ gate[p].active <= MaxConcurrent
        /\ Len(gate[p].waiting) <= MaxWaiting
        /\ gate[p].waiting # <<>> => gate[p].active = MaxConcurrent
    BY <1>f, <2>w DEF GateSound
  <2>1. CASE /\ ~Full(p)
             /\ gate' = [gate EXCEPT ![p].active = @ + 1]
             /\ login' = [login EXCEPT ![r].pc = "verifying"]
    <3>1. gate[p].active < MaxConcurrent BY <2>1, <1>f, <1>n DEF Full
    <3>2. gate[p].waiting = <<>> BY <3>1, <2>g, <1>f, <1>n
    <3>3. /\ gate'[p].active = gate[p].active + 1 /\ gate'[p].waiting = gate[p].waiting
          /\ gate'[p].woken = gate[p].woken
      BY <2>1, <1>f DEF Gate
    <3>4. /\ login'[r].pc = "verifying" /\ login'[r].process = p
          /\ \A q \in Requests : q # r => login'[q] = login[q]
      BY <2>1, <1>f, <1>2 DEF Row
    <3>5. Line(p)' = Line(p) BY <3>3 DEF Line
    <3>6. Running(p)' = Running(p) \cup {r} /\ r \notin Running(p) BY <3>4, <1>0 DEF Running
    <3>7. Cardinality(Running(p)') = Cardinality(Running(p)) + 1
      BY <3>6, RunningFacts, FS_AddElement
    <3>8. \A q \in Requests :
              (login'[q].pc = "waiting" /\ login'[q].process = p)
                 <=> (login[q].pc = "waiting" /\ login[q].process = p)
      BY <3>4, <1>0
    <3> QED BY <3>1, <3>2, <3>3, <3>5, <3>7, <3>8, <2>g, <2>w, <1>f, <1>n DEF GateSound
  <2>2. CASE /\ Full(p) /\ Len(gate[p].waiting) < MaxWaiting
             /\ gate' = [gate EXCEPT ![p].waiting = Append(@, r)]
             /\ login' = [login EXCEPT ![r].pc = "waiting"]
    <3>1. gate[p].active = MaxConcurrent BY <2>2, <2>g, <1>f, <1>n DEF Full
    <3>3. /\ gate'[p].active = gate[p].active /\ gate'[p].waiting = Append(gate[p].waiting, r)
          /\ gate'[p].woken = gate[p].woken
      BY <2>2, <1>f DEF Gate
    <3>4. /\ login'[r].pc = "waiting" /\ login'[r].process = p
          /\ \A q \in Requests : q # r => login'[q] = login[q]
      BY <2>2, <1>f, <1>2 DEF Row
    <3>a. Append(gate[p].waiting, r) \in Seq(Requests)
          /\ Len(Append(gate[p].waiting, r)) = Len(gate[p].waiting) + 1
      BY <1>f
    <3>5. Line(p)' = Append(Line(p), r)
      <4>1. gate'[p].woken \o gate'[p].waiting = Append(gate[p].waiting, r)
        BY <3>3, <3>a, <2>w, QuietLine
      <4> QED BY <4>1, <2>l DEF Line
    <3>6. Running(p)' = Running(p) BY <3>4, <1>0 DEF Running
    <3>7. \A i \in 1..Len(Line(p)) : Line(p)[i] # r BY <2>g, <1>0
    <3>8. Distinct(Line(p)') BY <3>5, <3>7, <2>g, <1>f, DistinctAppend
    <3>9. \A q \in Requests :
              (login'[q].pc = "waiting" /\ login'[q].process = p)
                 <=> \E i \in 1..Len(Line(p)') : Line(p)'[i] = q
      <4> SUFFICES ASSUME NEW q \in Requests
                   PROVE  (login'[q].pc = "waiting" /\ login'[q].process = p)
                             <=> \E i \in 1..Len(Append(Line(p), r)) : Append(Line(p), r)[i] = q
        BY <3>5
      <4>1. (\E i \in 1..Len(Append(Line(p), r)) : Append(Line(p), r)[i] = q)
               <=> q = r \/ \E i \in 1..Len(Line(p)) : Line(p)[i] = q
        <5> DEFINE s == Line(p)
        <5>1. s \in Seq(Requests) BY <1>f
        <5> HIDE DEF s
        <5>2. \A x : (\E i \in 1..Len(Append(s, r)) : Append(s, r)[i] = x)
                        <=> x = r \/ \E i \in 1..Len(s) : s[i] = x
          BY <5>1, AppendHolds
        <5> QED BY <5>2 DEF s
      <4> QED BY <4>1, <3>4, <2>g
    <3> QED BY <3>1, <3>3, <3>6, <3>8, <3>9, <3>a, <2>2, <2>g, <2>w, <1>f, <1>n DEF GateSound
  <2>3. CASE Done(r) /\ UNCHANGED gate
    <3>1. Idle.pc = "idle" BY DEF Idle
    <3>2. gate'[p] = gate[p] BY <2>3
    <3> QED BY <2>3, <3>1, <3>2, <1>0, OthersGates DEF Done
  <2> QED BY <2>1, <2>2, <2>3, <1>2 DEF Enter
<1> QED BY <1>1, <1>2

\* A verification ends, and the first that waits is woken: the line stays.
LEMMA VerifyGate ==
    ASSUME LoginParameters, Inv, NEW r \in Requests, Verify(r), NEW p \in Processes
    PROVE  GateSound(p)'
<1>f. /\ gate[p] \in Gate /\ DOMAIN gate = Processes /\ login \in [Requests -> Row]
      /\ gate[p].active \in Nat /\ gate[p].waiting \in Seq(Requests)
      /\ gate[p].woken \in Seq(Requests)
      /\ Line(p) \in Seq(Requests) /\ Len(gate[p].woken) \in Nat /\ Len(gate[p].waiting) \in Nat
      /\ GateSound(p)
  BY GateFacts
<1> DEFINE row == [login[r] EXCEPT !.pc = "verdict", !.right = Matches(r)]
<1>0. login[r].pc = "verifying" /\ login' = [login EXCEPT ![r] = row] BY DEF Verify
<1>r. row.pc = "verdict" /\ row.process = login[r].process BY <1>f DEF Row
<1> HIDE DEF row
<1>o. login'[r] = row /\ \A q \in Requests : q # r => login'[q] = login[q] BY <1>0, <1>f
<1>n. MaxConcurrent \in Nat /\ MaxWaiting \in Nat BY DEF LoginParameters
<1>1. CASE login[r].process # p
  <2>1. gate'[p] = gate[p] BY <1>1, <1>f DEF Verify
  <2> QED BY <2>1, <1>0, <1>r, <1>1, OthersGates
<1>2. CASE login[r].process = p
  <2>w. gate[p].woken = <<>> /\ Len(gate[p].woken) = 0 BY <1>2 DEF Verify, Quiet
  <2>l. Line(p) = gate[p].waiting BY <2>w, <1>f, QuietLine DEF Line
  <2>g. /\ Distinct(Line(p))
        /\ \A q \in Requests :
              (login[q].pc = "waiting" /\ login[q].process = p) <=> \E i \in 1..Len(Line(p)) : Line(p)[i] = q
        /\ gate[p].active = Cardinality(Running(p))
        /\ gate[p].active <= MaxConcurrent
        /\ Len(gate[p].waiting) <= MaxWaiting
        /\ gate[p].waiting # <<>> => gate[p].active = MaxConcurrent
    BY <1>f, <2>w DEF GateSound
  <2>1. Running(p)' = Running(p) \ {r} /\ r \in Running(p) BY <1>o, <1>r, <1>0, <1>2 DEF Running
  <2>2. Cardinality(Running(p)') = Cardinality(Running(p)) - 1
    BY <2>1, RunningFacts, FS_RemoveElement
  <2>3. \A q \in Requests :
            (login'[q].pc = "waiting" /\ login'[q].process = p)
               <=> (login[q].pc = "waiting" /\ login[q].process = p)
    BY <1>o, <1>r, <1>0
  <2>4. gate'[p] = Released(gate[p], Matches(r)) BY <1>2, <1>f DEF Verify
  <2>5. CASE gate[p].waiting = <<>>
    <3>1. gate'[p] = [gate[p] EXCEPT !.active = @ - 1] BY <2>4, <2>5 DEF Released
    <3>2. /\ gate'[p].active = gate[p].active - 1 /\ gate'[p].waiting = gate[p].waiting
          /\ gate'[p].woken = gate[p].woken
      BY <3>1, <1>f DEF Gate
    <3>3. Line(p)' = Line(p) BY <3>2 DEF Line
    <3> QED BY <3>2, <3>3, <2>2, <2>3, <2>5, <2>g, <2>w, <1>f, <1>n DEF GateSound
  <2>6. CASE gate[p].waiting # <<>>
    <3> DEFINE a == gate[p].waiting
    <3>1. gate'[p] = [active |-> gate[p].active - 1, waiting |-> Tail(a),
                      woken |-> Append(gate[p].woken, Head(a))]
      BY <2>4, <2>6 DEF Released
    <3>2. /\ gate'[p].active = gate[p].active - 1 /\ gate'[p].waiting = Tail(a)
          /\ gate'[p].woken = Append(<<>>, Head(a))
      BY <3>1, <2>w
    <3>3. /\ Append(<<>>, Head(a)) \o Tail(a) = a /\ Len(Append(<<>>, Head(a))) = 1
          /\ Len(Tail(a)) = Len(a) - 1
      BY <1>f, <2>6, Rejoined
    <3>4. Line(p)' = Line(p) BY <3>2, <3>3, <2>l DEF Line
    <3>5. gate'[p].active \in Nat /\ gate'[p].active + 1 = MaxConcurrent
      <4>1. Cardinality(Running(p)) # 0 BY <2>1, RunningFacts, FS_EmptySet
      <4> QED BY <4>1, <3>2, <2>6, <2>g, <1>f, <1>n
    <3>6. gate'[p].active = Cardinality(Running(p)') BY <3>2, <2>2, <2>g
    <3> QED BY <3>2, <3>3, <3>4, <3>5, <3>6, <2>3, <2>g, <1>f, <1>n DEF GateSound
  <2> QED BY <2>5, <2>6
<1> QED BY <1>1, <1>2

\* A woken login leaves the line and takes the place left for it.
LEMMA ResumeGate ==
    ASSUME LoginParameters, Inv, NEW p \in Processes, Resume(p), NEW o \in Processes
    PROVE  GateSound(o)'
<1>f. /\ gate[p] \in Gate /\ DOMAIN gate = Processes /\ login \in [Requests -> Row]
      /\ gate[p].active \in Nat /\ gate[p].waiting \in Seq(Requests)
      /\ gate[p].woken \in Seq(Requests)
      /\ Line(p) \in Seq(Requests) /\ Len(gate[p].woken) \in Nat /\ Len(gate[p].waiting) \in Nat
      /\ GateSound(p)
  BY GateFacts
<1> DEFINE r == Head(gate[p].woken)
           row == [login[r] EXCEPT !.pc = "verifying"]
<1>0. /\ r \in Requests /\ login[r].pc = "waiting" /\ login[r].process = p
      /\ Len(Line(p)) > 0 /\ Line(p)[1] = r /\ gate[p].woken # <<>>
  BY HeadWaits DEF Resume
<1>1. login' = [login EXCEPT ![r] = row] BY DEF Resume
<1>r. row.pc = "verifying" /\ row.process = p BY <1>0, <1>f DEF Row
<1> HIDE DEF row, r
<1>o. login'[r] = row /\ \A q \in Requests : q # r => login'[q] = login[q] BY <1>0, <1>1, <1>f
<1>2. CASE o # p
  <2>1. gate'[o] = gate[o] BY <1>2, <1>f DEF Resume
  <2> QED BY <2>1, <1>0, <1>1, <1>r, <1>2, OthersGates
<1>3. CASE o = p
  <2>1. /\ gate'[p].active = gate[p].active + 1 /\ gate'[p].waiting = gate[p].waiting
        /\ gate'[p].woken = Tail(gate[p].woken)
    BY <1>f DEF Resume, Gate
  <2>2. Len(Tail(gate[p].woken)) = Len(gate[p].woken) - 1 BY <1>0, <1>f
  <2>3. Running(p)' = Running(p) \cup {r} /\ r \notin Running(p) BY <1>o, <1>r, <1>0 DEF Running
  <2>4. Cardinality(Running(p)') = Cardinality(Running(p)) + 1
    BY <2>3, RunningFacts, FS_AddElement
  <2>5. Line(p)' = Tail(Line(p))
    <3>1. Line(p)' = Tail(gate[p].woken) \o gate[p].waiting BY <2>1 DEF Line
    <3>2. Tail(gate[p].woken \o gate[p].waiting) = Tail(gate[p].woken) \o gate[p].waiting
      BY <1>f, <1>0, TailJoined
    <3> QED BY <3>1, <3>2 DEF Line
  <2>6. Line(p) # <<>> /\ Head(Line(p)) = r BY <1>0, <1>f
  <2>7. Distinct(Line(p)) BY <1>f DEF GateSound
  <2>8. /\ Distinct(Line(p)')
        /\ \A x : (\E i \in 1..Len(Line(p)') : Line(p)'[i] = x)
                    <=> x # r /\ \E i \in 1..Len(Line(p)) : Line(p)[i] = x
    <3> DEFINE s == Line(p)
    <3>1. s \in Seq(Requests) /\ Distinct(s) /\ s # <<>> /\ Head(s) = r BY <2>6, <2>7, <1>f
    <3> HIDE DEF s
    <3>2. /\ Distinct(Tail(s))
          /\ \A x : (\E i \in 1..Len(Tail(s)) : Tail(s)[i] = x)
                      <=> x # r /\ \E i \in 1..Len(s) : s[i] = x
      BY <3>1, DistinctTail
    <3> QED BY <3>2, <2>5 DEF s
  <2>9. \A q \in Requests :
            (login'[q].pc = "waiting" /\ login'[q].process = p)
               <=> q # r /\ login[q].pc = "waiting" /\ login[q].process = p
    BY <1>o, <1>r, <1>0
  <2>10. \A q \in Requests :
            (login'[q].pc = "waiting" /\ login'[q].process = p)
               <=> \E i \in 1..Len(Line(p)') : Line(p)'[i] = q
    BY <2>8, <2>9, <1>f DEF GateSound
  <2>n. MaxConcurrent \in Nat /\ MaxWaiting \in Nat BY DEF LoginParameters
  <2>11. gate'[p].active + Len(gate'[p].woken) = gate[p].active + Len(gate[p].woken)
    <3> DEFINE n == gate[p].active
               k == Len(gate[p].woken)
    <3>1. Len(gate'[p].woken) = k - 1 BY <2>1, <2>2
    <3>2. gate'[p].active = n + 1 /\ n \in Nat /\ k \in Nat BY <2>1, <1>f
    <3> HIDE DEF n, k
    <3>3. gate'[p].active + Len(gate'[p].woken) = n + k BY <3>1, <3>2
    <3> QED BY <3>3 DEF n, k
  <2>12. gate'[p].active = Cardinality(Running(p)') BY <2>1, <2>4, <1>f DEF GateSound
  <2> QED BY <2>1, <2>8, <2>10, <2>11, <2>12, <1>3, <1>f DEF GateSound
<1> QED BY <1>2, <1>3

LEMMA RestartGate ==
    ASSUME LoginParameters, Inv, NEW p \in Processes, Restart(p), NEW o \in Processes
    PROVE  GateSound(o)'
<1>f. DOMAIN gate = Processes /\ login \in [Requests -> Row] BY GateFacts
<1>i. Idle.pc = "idle" BY DEF Idle
<1>1. \A r \in Requests : login'[r] = IF login[r].process = p THEN Idle ELSE login[r]
  BY <1>f DEF Restart
<1>2. CASE o # p
  <2>1. gate'[o] = gate[o] BY <1>2, <1>f DEF Restart
  <2>2. \A r \in Requests : \A c \in {"waiting", "verifying"} :
            (login'[r].pc = c /\ login'[r].process = o) <=> (login[r].pc = c /\ login[r].process = o)
    BY <1>1, <1>2, <1>i DEF Idle
  <2> QED BY <2>1, <2>2, GateKept
<1>3. CASE o = p
  <2>1. gate'[p].active = 0 /\ gate'[p].waiting = <<>> /\ gate'[p].woken = <<>>
    BY <1>f DEF Restart, OpenGate
  <2>2. \A r \in Requests : login'[r].pc \in {"waiting", "verifying"} => login'[r].process # p
    BY <1>1, <1>i
  <2>3. Running(p)' = {} BY <2>2 DEF Running
  <2>4. Line(p)' = <<>> /\ Len(Line(p)') = 0 BY <2>1 DEF Line
  <2>5. Distinct(Line(p)') BY <2>4 DEF Distinct
  <2>6. \A r \in Requests :
            (login'[r].pc = "waiting" /\ login'[r].process = p)
               <=> \E i \in 1..Len(Line(p)') : Line(p)'[i] = r
    BY <2>2, <2>4
  <2>7. Cardinality(Running(p)') = 0 BY <2>3, FS_EmptySet
  <2>n. MaxConcurrent \in Nat /\ MaxWaiting \in Nat BY DEF LoginParameters
  <2>8. Len(gate'[p].woken) = 0 /\ Len(gate'[p].waiting) = 0 BY <2>1
  <2> QED BY <2>1, <2>5, <2>6, <2>7, <2>8, <2>n, <1>3 DEF GateSound
<1> QED BY <1>2, <1>3

LEMMA GateStep ==
    ASSUME LoginParameters, Inv, [Next]_vars, NEW p \in Processes
    PROVE  GateSound(p)'
<1>t. login \in [Requests -> Row] BY GateFacts
<1>i. Idle.pc = "idle" BY DEF Idle
<1>d. ASSUME NEW r \in Requests, Done(r), gate' = gate, login[r].pc \notin {"waiting", "verifying"}
      PROVE  GateSound(p)'
  BY <1>d, <1>i, OthersGates DEF Done
<1>m. ASSUME NEW r \in Requests, gate' = gate, NEW pc \in {"account", "find", "issue"},
             login' = [login EXCEPT ![r].pc = pc], login[r].pc \notin {"waiting", "verifying"}
      PROVE  GateSound(p)'
  <2> DEFINE row == [login[r] EXCEPT !.pc = pc]
  <2>1. row.pc = pc BY <1>t DEF Row
  <2>2. login' = [login EXCEPT ![r] = row] /\ gate'[p] = gate[p] BY <1>m
  <2> HIDE DEF row
  <2>3. \A c \in {"waiting", "verifying"} :
            (row.pc = c /\ row.process = p) <=> (login[r].pc = c /\ login[r].process = p)
    BY <2>1, <1>m
  <2> QED BY Zenon, <2>2, <2>3, OthersGates
<1>1. ASSUME NEW r \in Requests, NEW q \in Processes, NEW u \in Users, NEW w \in Networks,
             NEW g \in 0..(1 + MaxChanges), Arrive(r, q, u, w, g)
      PROVE  GateSound(p)'
  <2>1. login[r].pc = "idle" /\ login'[r].pc = "network" /\ gate'[p] = gate[p]
        /\ \A o \in Requests : o # r => login'[o] = login[o]
    BY <1>1, <1>t DEF Arrive
  <2> QED BY <2>1, GateKept
<1>2. ASSUME NEW r \in Requests, CheckNetwork(r) \/ CheckAccount(r) \/ CheckHere(r) \/ Succeed(r)
      PROVE  GateSound(p)'
  BY <1>2, <1>d, <1>m DEF CheckNetwork, CheckAccount, CheckHere, Succeed
<1>3. ASSUME NEW r \in Requests, Find(r) PROVE GateSound(p)'
  <2> DEFINE row == [login[r] EXCEPT !.pc = "gate", !.read = account[login[r].name]]
  <2>1. row.pc = "gate" /\ login[r].pc = "find" BY <1>3, <1>t DEF Find, Row
  <2>2. login' = [login EXCEPT ![r] = row] /\ gate'[p] = gate[p] BY <1>3 DEF Find
  <2> HIDE DEF row
  <2> QED BY <2>1, <2>2, OthersGates
<1>4. ASSUME NEW r \in Requests, Fail(r) \/ Issue(r) \/ Lose(r) PROVE GateSound(p)'
  BY <1>4, <1>d DEF Fail, Issue, Lose
<1>5. CASE UNCHANGED <<login, gate>>
  BY <1>5, GateKept
<1> QED BY <1>1, <1>2, <1>3, <1>4, <1>5, EnterGate, VerifyGate, ResumeGate, RestartGate
  DEF Next, SignIn, Provision, Disable, FindExisting, Insert, Rotate, Revoke, Tick, vars

-----------------------------------------------------------------------------
LEMMA InitInv == ASSUME LoginParameters, Init PROVE Inv
<1>n. MaxLogins \in Nat /\ MaxChanges \in Nat /\ MaxTime \in Nat /\ MaxConcurrent \in Nat
      /\ MaxWaiting \in Nat /\ AccountLimit \in Nat \ {0}
  BY DEF LoginParameters
<1>i. Idle.pc = "idle" BY DEF Idle
<1>1. TypeOK
  <2>1. account \in [Users -> Account]
    <3>1. {[st |-> "absent", password |-> 0], [st |-> "active", password |-> 1]} \subseteq Account
      BY DEF Account
    <3> QED BY <3>1 DEF Init
  <2>2. NoBucket \in Bucket BY DEF NoBucket, Bucket
  <2>3. OpenGate \in Gate BY DEF OpenGate, Gate
  <2>4. Resting \in Operation BY DEF Resting, Operation
  <2> QED BY <2>1, <2>2, <2>3, <2>4, <1>n, IdleTyped DEF Init, TypeOK
<1>2. Placed BY <1>i DEF Init, Placed
<1>3. AdminSound
  <2>1. Resting.pc = "idle" BY DEF Resting
  <2> QED BY <2>1 DEF Init, AdminSound
<1>4. ASSUME NEW p \in Processes PROVE GateSound(p)
  <2>1. gate[p].active = 0 /\ gate[p].waiting = <<>> /\ gate[p].woken = <<>>
    BY DEF Init, OpenGate
  <2>2. \A r \in Requests : login[r].pc = "idle" BY <1>i DEF Init
  <2>3. Running(p) = {} BY <2>2 DEF Running
  <2>4. Line(p) = <<>> /\ Len(Line(p)) = 0 BY <2>1 DEF Line
  <2>5. Distinct(Line(p)) BY <2>4 DEF Distinct
  <2>7. Cardinality(Running(p)) = 0 BY <2>3, FS_EmptySet
  <2>8. Len(gate[p].woken) = 0 /\ Len(gate[p].waiting) = 0 BY <2>1
  <2> QED BY <2>1, <2>2, <2>4, <2>5, <2>7, <2>8, <1>n DEF GateSound
<1>5. FailuresSound
  <2> SUFFICES ASSUME NEW u \in Users PROVE FailuresOf(u) BY DEF FailuresSound, FailuresOf
  <2>1. bucket[u].count = 0 BY DEF Init, NoBucket, Keys
  <2>2. Cardinality(Checked(u)) \in Nat /\ Cardinality(Requests) \in Nat
        /\ Cardinality(Checked(u)) <= Cardinality(Requests)
    BY Part, CheckedPart
  <2> QED BY <2>1, <2>2, <1>n DEF FailuresOf
<1>6. ReadSound BY <1>i DEF Init, ReadSound, ReadOf
<1>7. SessionEarned BY DEF Init, SessionEarned
<1> QED BY <1>1, <1>2, <1>3, <1>4, <1>5, <1>6, <1>7 DEF Inv

LEMMA StepInv == ASSUME LoginParameters, Inv, [Next]_vars PROVE Inv'
<1>1. TypeOK' /\ Placed' BY TypeStep
<1>2. AdminSound' /\ Grown BY <1>1, AdminStep
<1>3. FailuresSound' BY <1>1, FailuresStep
<1>4. ReadSound' BY <1>1, <1>2, ReadStep
<1>5. SessionEarned' BY EarnedStep
<1>6. \A p \in Processes : GateSound(p)' BY GateStep
<1> QED BY <1>1, <1>2, <1>3, <1>4, <1>5, <1>6 DEF Inv

LEMMA InvSound ==
    ASSUME LoginParameters, Inv
    PROVE  TypeOK /\ GateHolds /\ GuessesBounded /\ SessionEarned
<1>1. GateHolds
  <2> SUFFICES ASSUME NEW p \in Processes
               PROVE  LET g == gate[p] IN
                      /\ g.active = Cardinality(Running(p))
                      /\ g.active <= MaxConcurrent
                      /\ Len(g.waiting) <= MaxWaiting
                      /\ g.waiting # <<>> => g.active + Len(g.woken) = MaxConcurrent
                      /\ ToSet(g.waiting) \cup ToSet(g.woken)
                            = {r \in Requests : login[r].pc = "waiting" /\ login[r].process = p}
    BY DEF GateHolds
  <2> DEFINE a == gate[p].woken
             b == gate[p].waiting
  <2>1. /\ gate[p].active \in Nat /\ a \in Seq(Requests) /\ b \in Seq(Requests)
        /\ Len(a) \in Nat /\ Len(b) \in Nat /\ GateSound(p)
    BY GateFacts
  <2>2. MaxConcurrent \in Nat BY DEF LoginParameters
  <2>3. Line(p) = a \o b BY DEF Line
  <2>4. \A r \in Requests : (login[r].pc = "waiting" /\ login[r].process = p)
                               <=> \E i \in 1..Len(a \o b) : (a \o b)[i] = r
    BY <2>1, <2>3 DEF GateSound
  <2>5. /\ gate[p].active = Cardinality(Running(p)) /\ gate[p].active + Len(a) <= MaxConcurrent
        /\ Len(b) <= MaxWaiting /\ (b # <<>> => gate[p].active + Len(a) = MaxConcurrent)
    BY <2>1 DEF GateSound
  <2> HIDE DEF a, b
  <2>6. ToSet(b) \cup ToSet(a) = {a[i] : i \in 1..Len(a)} \cup {b[i] : i \in 1..Len(b)}
    BY <2>1 DEF ToSet
  <2>7. \A r \in Requests : (\E i \in 1..Len(a \o b) : (a \o b)[i] = r)
                               <=> (\E i \in 1..Len(a) : a[i] = r) \/ (\E i \in 1..Len(b) : b[i] = r)
    <3> TAKE r \in Requests
    <3>1. /\ Len(a \o b) = Len(a) + Len(b)
          /\ \A i \in 1..Len(a) : (a \o b)[i] = a[i]
          /\ \A i \in 1..Len(b) : (a \o b)[i + Len(a)] = b[i]
      BY <2>1
    <3>2. ASSUME NEW i \in 1..Len(a \o b), (a \o b)[i] = r
          PROVE  (\E j \in 1..Len(a) : a[j] = r) \/ (\E j \in 1..Len(b) : b[j] = r)
      <4>1. CASE i <= Len(a) BY <4>1, <3>1, <3>2, <2>1
      <4>2. CASE i > Len(a)
        <5>1. i - Len(a) \in 1..Len(b) /\ i - Len(a) + Len(a) = i BY <4>2, <3>1, <2>1
        <5> QED BY <5>1, <3>1, <3>2
      <4> QED BY <4>1, <4>2, <2>1
    <3>3. ASSUME NEW j \in 1..Len(a), a[j] = r
          PROVE  \E i \in 1..Len(a \o b) : (a \o b)[i] = r
      BY <3>1, <3>3, <2>1
    <3>4. ASSUME NEW j \in 1..Len(b), b[j] = r
          PROVE  \E i \in 1..Len(a \o b) : (a \o b)[i] = r
      <4>1. j + Len(a) \in 1..Len(a \o b) BY <3>1, <2>1
      <4> QED BY <4>1, <3>1, <3>4
    <3> QED BY <3>2, <3>3, <3>4
  <2>8. (\A i \in 1..Len(a) : a[i] \in Requests) /\ (\A i \in 1..Len(b) : b[i] \in Requests)
    BY <2>1
  <2>9. ToSet(b) \cup ToSet(a) = {r \in Requests : login[r].pc = "waiting" /\ login[r].process = p}
    <3> DEFINE waits == {r \in Requests : login[r].pc = "waiting" /\ login[r].process = p}
    <3>1. ASSUME NEW r \in ToSet(b) \cup ToSet(a) PROVE r \in waits
      <4>1. (\E i \in 1..Len(a) : a[i] = r) \/ (\E i \in 1..Len(b) : b[i] = r)
        BY <2>6
      <4>2. r \in Requests BY <4>1, <2>8
      <4> QED BY <4>1, <4>2, <2>4, <2>7
    <3>2. ASSUME NEW r \in waits PROVE r \in ToSet(b) \cup ToSet(a)
      <4>1. (\E i \in 1..Len(a) : a[i] = r) \/ (\E i \in 1..Len(b) : b[i] = r)
        BY <2>4, <2>7
      <4> QED BY <4>1, <2>6
    <3> QED BY <3>1, <3>2
  <2> QED BY <2>1, <2>2, <2>5, <2>9 DEF a, b
<1>2. GuessesBounded
  <2> SUFFICES ASSUME NEW u \in Users
               PROVE  bucket[u].count <= AccountLimit - 1 + Cardinality(Requests)
    BY DEF GuessesBounded
  <2>1. bucket[u].count \in Nat /\ AccountLimit \in Nat
    BY DEF Inv, TypeOK, Bucket, Keys, LoginParameters
  <2>2. Cardinality(Checked(u)) \in Nat /\ Cardinality(Requests) \in Nat BY Part, CheckedPart
  <2>3. bucket[u].count + Cardinality(Checked(u)) <= AccountLimit - 1 + Cardinality(Requests)
    BY DEF Inv, FailuresSound
  <2> QED BY <2>1, <2>2, <2>3
<1> QED BY <1>1, <1>2 DEF Inv

\* Every row of a login, a window, a gate and an account is well formed (login,
\* LoginThrottle, VerificationGate).
THEOREM TypeCorrect == ASSUME LoginParameters PROVE Spec => []TypeOK
<1>1. Init => Inv BY InitInv
<1>2. Inv /\ [Next]_vars => Inv' BY StepInv
<1>3. Inv => TypeOK BY InvSound
<1> QED BY <1>1, <1>2, <1>3, PTL DEF Spec

\* No process verifies or queues more passwords than its gate lets it, and nobody
\* waits asleep before a free place (VerificationGate.run).
THEOREM GateKeeps == ASSUME LoginParameters PROVE Spec => []GateHolds
<1>1. Init => Inv BY InitInv
<1>2. Inv /\ [Next]_vars => Inv' BY StepInv
<1>3. Inv => GateHolds BY InvSound
<1> QED BY <1>1, <1>2, <1>3, PTL DEF Spec

\* Logins at once fail for one name no more often in a window than the limit and
\* their number (LoginThrottle.check, recordFailure).
THEOREM GuessesAreBounded == ASSUME LoginParameters PROVE Spec => []GuessesBounded
<1>1. Init => Inv BY InitInv
<1>2. Inv /\ [Next]_vars => Inv' BY StepInv
<1>3. Inv => GuessesBounded BY InvSound
<1> QED BY <1>1, <1>2, <1>3, PTL DEF Spec

\* A session comes from the password of an account that was usable when the login
\* arrived, and from none that had been replaced by then (login).
THEOREM SessionsAreEarned == ASSUME LoginParameters PROVE Spec => []SessionEarned
<1>1. Init => Inv BY InitInv
<1>2. Inv /\ [Next]_vars => Inv' BY StepInv
<1>3. Inv => SessionEarned BY InvSound
<1> QED BY <1>1, <1>2, <1>3, PTL DEF Spec
=============================================================================
