---------------------------- MODULE SupportProofs ----------------------------
(***************************************************************************)
(* The checkout for every number of accounts, requests, keys and ticks:    *)
(* the types, the lock, and that an account has at most one payable        *)
(* session.  The supporter ledger for every set of accounts, of deliveries *)
(* and of consistent events of the provider: one row per event, tied to    *)
(* its owner or to nobody, and marks that are what the recorded events     *)
(* imply.                                                                  *)
(***************************************************************************)
EXTENDS MCSupport, TLAPS

-----------------------------------------------------------------------------
(* The checkout hand-off.                                                   *)

\* A handler that is running holds its account's lock, and took its instant
\* from the past.
LockInv ==
    \A r \in Requests : req[r].pc # "idle" =>
        /\ req[r].account \in Accounts
        /\ lock[req[r].account] = r
        /\ req[r].at <= now

\* From the attempt's transaction to the bind, the attempt of a handler stays
\* open and without an answer.
TakenInv ==
    \A r \in Requests : req[r].pc \in {"ask", "wait", "bind"} =>
        /\ req[r].key \in Keys
        /\ attempt[req[r].key].account = req[r].account
        /\ attempt[req[r].key].session = NoOne
        /\ ~attempt[req[r].key].closed
        /\ req[r].pc = "bind" => provider[req[r].key].st # "none"

\* The provider knows only what attempts asked for, call by call.
ProviderInv ==
    /\ \A q \in asked : /\ attempt[q.key].account = q.account
                        /\ attempt[q.key].expires = q.expires
    /\ \A k \in Keys : provider[k].st # "none" =>
          /\ Opened(k)
          /\ provider[k].account = attempt[k].account
          /\ provider[k].expires = attempt[k].expires

\* One attempt of an account is open; the others ended.
OpenInv ==
    /\ \A j, k \in Keys :
          /\ Opened(j) /\ attempt[j].account = attempt[k].account
          /\ ~attempt[j].closed /\ ~attempt[k].closed
          => j = k
    /\ \A k \in Keys : attempt[k].closed =>
          k \in completed \/ attempt[k].expires <= now

\* What is bound is what the key created, on record for its account.
BoundInv ==
    /\ \A k \in Keys : attempt[k].session # NoOne =>
          /\ attempt[k].session = k
          /\ provider[k].st # "none"
          /\ session[k] = attempt[k].account
    /\ \A k \in Keys : session[k] # NoOne => session[k] = attempt[k].account

\* What is handed out is bound, what is paid was handed out, and what is
\* recorded as completed is paid and its attempt closed.
PaidInv ==
    /\ \A k \in handed : attempt[k].session = k
    /\ \A k \in Keys : provider[k].st = "complete" => attempt[k].session = k
    /\ \A k \in completed : provider[k].st = "complete" /\ attempt[k].closed

IInv == LockInv /\ TakenInv /\ ProviderInv /\ OpenInv /\ BoundInv /\ PaidInv

Inv == TypeOK /\ IInv

-----------------------------------------------------------------------------
(* Types of the rows the actions write. *)

LEMMA SetPhase ==
    ASSUME req \in [Requests -> RequestRow], NEW r \in Requests, NEW p \in Phase
    PROVE  [req EXCEPT ![r].pc = p] \in [Requests -> RequestRow]
BY DEF RequestRow

LEMMA SetPhaseKey ==
    ASSUME req \in [Requests -> RequestRow], NEW r \in Requests, NEW p \in Phase,
           NEW k \in Keys
    PROVE  [req EXCEPT ![r].pc = p, ![r].key = k] \in [Requests -> RequestRow]
BY DEF RequestRow

LEMMA ReleaseType ==
    ASSUME TypeOK, NEW r \in Requests, Release(r)
    PROVE  /\ lock' \in [Accounts -> Requests \cup {NoOne}]
           /\ req' \in [Requests -> RequestRow]
           /\ req' = [req EXCEPT ![r] = Idle]
           /\ \A a \in Accounts : a # req[r].account => lock'[a] = lock[a]
BY DEF TypeOK, Release, Idle, RequestRow, Phase

LEMMA CloseExpiredType ==
    ASSUME TypeOK, NEW a, NEW at
    PROVE  CloseExpired(a, at) \in [Keys -> AttemptRow]
BY DEF TypeOK, CloseExpired, AttemptRow

LEMMA RowTypes ==
    ASSUME TypeOK
    PROVE  /\ \A r \in Requests : /\ req[r].pc \in Phase
                                  /\ req[r].account \in Accounts \cup {NoOne}
                                  /\ req[r].at \in Nat
                                  /\ req[r].key \in Keys \cup {NoOne}
           /\ \A k \in Keys : /\ attempt[k].account \in Accounts \cup {NoOne}
                              /\ attempt[k].expires \in Nat
                              /\ attempt[k].session \in Keys \cup {NoOne}
                              /\ attempt[k].closed \in BOOLEAN
BY DEF TypeOK, RequestRow, AttemptRow

-----------------------------------------------------------------------------
(* What a release and the close of the expired attempts leave in place. *)

LEMMA ReleaseInv ==
    ASSUME Inv, NEW r \in Requests, Release(r), req[r].pc # "idle",
           UNCHANGED <<now, provider>>,
           \A s \in Requests : s # r /\ req[s].pc \in {"ask", "wait", "bind"}
               => attempt'[req[s].key] = attempt[req[s].key]
    PROVE  LockInv' /\ TakenInv'
<1>1. \A s \in Requests : s # r => req'[s] = req[s]
  BY DEF Release, Inv, TypeOK
<1>2. req'[r].pc = "idle"
  BY DEF Release, Idle, Inv, TypeOK
<1>3. ASSUME NEW s \in Requests, s # r, req[s].pc # "idle"
      PROVE  lock'[req[s].account] = s
  BY <1>3, ReleaseType DEF Inv, IInv, LockInv
<1>4. LockInv'
  BY <1>1, <1>2, <1>3 DEF Inv, IInv, LockInv
<1>5. TakenInv'
  BY <1>1, <1>2 DEF Inv, IInv, TakenInv
<1>6. QED BY <1>4, <1>5

LEMMA CloseExpiredInv ==
    ASSUME Inv, NEW r \in Requests, req[r].pc # "idle",
           NEW k \in Keys
    PROVE  LET c == CloseExpired(req[r].account, req[r].at)[k] IN
           /\ c.account = attempt[k].account
           /\ c.expires = attempt[k].expires
           /\ c.session = attempt[k].session
           /\ c.closed \in BOOLEAN
           /\ attempt[k].closed => c.closed
           /\ k \notin ExpiredOf(req[r].account, req[r].at) => c = attempt[k]
           /\ k \in ExpiredOf(req[r].account, req[r].at) => c.closed
           /\ c.closed => attempt[k].closed \/ attempt[k].expires <= now
<1> DEFINE X == ExpiredOf(req[r].account, req[r].at)
<1>1. /\ req[r].at \in Nat /\ req[r].at <= now /\ now \in Nat
      /\ attempt[k] \in AttemptRow
  BY RowTypes DEF Inv, TypeOK, IInv, LockInv
<1>2. CASE k \in X
  <2>1. CloseExpired(req[r].account, req[r].at)[k] = [attempt[k] EXCEPT !.closed = TRUE]
    BY <1>2 DEF CloseExpired
  <2>2. attempt[k].expires <= req[r].at
    BY <1>2 DEF ExpiredOf
  <2>3. QED BY <1>1, <1>2, <2>1, <2>2 DEF AttemptRow
<1>3. CASE k \notin X
  <2>1. CloseExpired(req[r].account, req[r].at)[k] = attempt[k]
    BY <1>3 DEF CloseExpired
  <2>2. QED BY <1>1, <1>3, <2>1 DEF AttemptRow
<1>4. QED BY <1>2, <1>3

-----------------------------------------------------------------------------
(* One lemma per action. *)

LEMMA InitInv == Init => Inv
<1> SUFFICES ASSUME Init PROVE Inv
  OBVIOUS
<1>1. TypeOK
  BY ConstantsAssumption
     DEF Init, TypeOK, NoAttempt, NoSession, Idle, AttemptRow, ProviderRow, RequestRow, Phase
<1>2. LockInv /\ TakenInv
  BY DEF Init, LockInv, TakenInv, Idle
<1>3. ProviderInv /\ OpenInv /\ BoundInv /\ PaidInv
  BY DEF Init, ProviderInv, OpenInv, BoundInv, PaidInv, NoAttempt, NoSession, Opened
<1>4. QED BY <1>1, <1>2, <1>3 DEF Inv, IInv

LEMMA ClaimInv ==
    ASSUME Inv, NEW r \in Requests, NEW a \in Accounts, Claim(r, a)
    PROVE  Inv'
<1> USE DEF Claim, providerVars, ledgerVars
<1>1. PICK at \in 0..now :
         req' = [req EXCEPT ![r] = [pc |-> "standing", account |-> a, at |-> at, key |-> NoOne]]
  OBVIOUS
<1>2. TypeOK'
  BY <1>1 DEF Inv, TypeOK, RequestRow, Phase
<1>3. LockInv'
  BY <1>1, ConstantsAssumption DEF Inv, TypeOK, IInv, LockInv, LockFree
<1>4. TakenInv'
  BY <1>1 DEF Inv, TypeOK, IInv, TakenInv
<1>5. ProviderInv' /\ OpenInv' /\ BoundInv' /\ PaidInv'
  BY DEF Inv, IInv, ProviderInv, OpenInv, BoundInv, PaidInv, Opened
<1>6. QED BY <1>2, <1>3, <1>4, <1>5 DEF Inv, IInv

LEMMA ReadStandingInv ==
    ASSUME Inv, NEW r \in Requests, ReadStanding(r)
    PROVE  Inv'
<1>1. UNCHANGED <<now, attempt, session, providerVars, handed, ledgerVars>> /\ req[r].pc = "standing"
  BY DEF ReadStanding
<1>2. ProviderInv' /\ OpenInv' /\ BoundInv' /\ PaidInv'
  BY <1>1 DEF Inv, IInv, ProviderInv, OpenInv, BoundInv, PaidInv, Opened, providerVars, ledgerVars
<1>3. CASE Release(r)
  <2>1. TypeOK'
    BY <1>1, <1>3, ReleaseType DEF Inv, TypeOK, providerVars, ledgerVars
  <2>2. LockInv' /\ TakenInv'
    BY <1>1, <1>3, ReleaseInv DEF providerVars
  <2>3. QED BY <1>2, <2>1, <2>2 DEF Inv, IInv
<1>4. CASE req' = [req EXCEPT ![r].pc = "attempt"] /\ UNCHANGED lock
  <2>1. req' \in [Requests -> RequestRow]
    BY <1>4, SetPhase DEF Inv, TypeOK, Phase
  <2>2. TypeOK'
    BY <1>1, <1>4, <2>1 DEF Inv, TypeOK, providerVars, ledgerVars
  <2>3. LockInv' /\ TakenInv'
    BY <1>1, <1>4 DEF Inv, TypeOK, IInv, LockInv, TakenInv, RequestRow, providerVars
  <2>4. QED BY <1>2, <2>2, <2>3 DEF Inv, IInv
<1>5. QED BY <1>3, <1>4 DEF ReadStanding

LEMMA ReuseAttemptInv ==
    ASSUME Inv, NEW r \in Requests, ReuseAttempt(r)
    PROVE  Inv'
<1>1. PICK k \in OpenOf(req[r].account) \ ExpiredOf(req[r].account, req[r].at) :
         /\ attempt' = CloseExpired(req[r].account, req[r].at)
         /\ \/ /\ attempt[k].session # NoOne
               /\ handed' = handed \cup {attempt[k].session}
               /\ Release(r)
            \/ /\ attempt[k].session = NoOne
               /\ req' = [req EXCEPT ![r].pc = "ask", ![r].key = k]
               /\ UNCHANGED <<lock, handed>>
  BY DEF ReuseAttempt
<1>2. UNCHANGED <<now, session, asked, provider, sub, completed, known>> /\ req[r].pc = "attempt"
  BY DEF ReuseAttempt, providerVars, ledgerVars
<1>3. /\ k \in Keys
      /\ attempt[k].account = req[r].account
      /\ ~attempt[k].closed
      /\ attempt'[k] = attempt[k]
  BY <1>1, <1>2, CloseExpiredInv DEF OpenOf
<1>4. /\ req[r].account \in Accounts
      /\ lock[req[r].account] = r
  BY <1>2 DEF Inv, IInv, LockInv
<1>5. \A j \in Keys : attempt[j].account # req[r].account => attempt'[j] = attempt[j]
  BY <1>1, <1>2, CloseExpiredInv DEF ExpiredOf, OpenOf
<1>6. \A j \in Keys : /\ attempt'[j].account = attempt[j].account
                      /\ attempt'[j].expires = attempt[j].expires
                      /\ attempt'[j].session = attempt[j].session
                      /\ attempt[j].closed => attempt'[j].closed
                      /\ attempt'[j].closed => attempt[j].closed \/ attempt[j].expires <= now
  BY <1>1, <1>2, CloseExpiredInv
<1>7. \A s \in Requests : s # r /\ req[s].pc \in {"ask", "wait", "bind"}
         => attempt'[req[s].key] = attempt[req[s].key]
  BY <1>4, <1>5 DEF Inv, IInv, LockInv, TakenInv
<1>8. ProviderInv' /\ OpenInv'
  <2>1. ProviderInv'
    BY <1>2, <1>6 DEF Inv, TypeOK, Call, IInv, ProviderInv, Opened
  <2>2. OpenInv'
    BY <1>2, <1>6 DEF Inv, IInv, OpenInv, Opened
  <2>3. QED BY <2>1, <2>2
<1>9. attempt' \in [Keys -> AttemptRow]
  BY <1>1, CloseExpiredType DEF Inv
<1>10. CASE /\ attempt[k].session # NoOne
            /\ handed' = handed \cup {attempt[k].session}
            /\ Release(r)
  <2>1. attempt[k].session = k
    BY <1>3, <1>10 DEF Inv, IInv, BoundInv
  <2>2. TypeOK'
    BY <1>2, <1>3, <1>9, <1>10, <2>1, ReleaseType DEF Inv, TypeOK
  <2>3. LockInv' /\ TakenInv'
    BY <1>2, <1>7, <1>10, ReleaseInv
  <2>4. BoundInv' /\ PaidInv'
    <3>1. BoundInv'
      BY <1>2, <1>6 DEF Inv, IInv, BoundInv
    <3>2. PaidInv'
      BY <1>2, <1>3, <1>6, <1>10, <2>1 DEF Inv, TypeOK, IInv, PaidInv
    <3>3. QED BY <3>1, <3>2
  <2>5. QED BY <1>8, <2>2, <2>3, <2>4 DEF Inv, IInv
<1>11. CASE /\ attempt[k].session = NoOne
            /\ req' = [req EXCEPT ![r].pc = "ask", ![r].key = k]
            /\ UNCHANGED <<lock, handed>>
  <2>1. req' \in [Requests -> RequestRow]
    BY <1>3, <1>11, SetPhaseKey DEF Inv, TypeOK, Phase
  <2>2. TypeOK'
    BY <1>2, <1>9, <1>11, <2>1 DEF Inv, TypeOK
  <2>3. /\ req'[r].pc = "ask" /\ req'[r].key = k
        /\ req'[r].account = req[r].account /\ req'[r].at = req[r].at
        /\ \A s \in Requests : s # r => req'[s] = req[s]
    BY <1>11 DEF Inv, TypeOK, RequestRow
  <2>4. LockInv'
    <3>1. LockInv /\ lock' = lock /\ now' = now
      BY <1>2, <1>11 DEF Inv, IInv
    <3>2. ASSUME NEW s \in Requests, req'[s].pc # "idle"
          PROVE  req'[s].account \in Accounts /\ lock[req'[s].account] = s /\ req'[s].at <= now
      <4>1. req[s].pc # "idle" /\ req'[s].account = req[s].account /\ req'[s].at = req[s].at
        BY <1>2, <2>3, <3>2
      <4>2. QED BY <3>1, <4>1 DEF LockInv
    <3>3. QED BY <3>1, <3>2 DEF LockInv
  <2>5. TakenInv'
    <3> SUFFICES ASSUME NEW s \in Requests, req'[s].pc \in {"ask", "wait", "bind"}
                 PROVE  /\ req'[s].key \in Keys
                        /\ attempt'[req'[s].key].account = req'[s].account
                        /\ attempt'[req'[s].key].session = NoOne
                        /\ ~attempt'[req'[s].key].closed
                        /\ req'[s].pc = "bind" => provider[req'[s].key].st # "none"
      BY <1>2 DEF TakenInv
    <3>1. CASE s = r
      BY <1>3, <1>11, <2>3, <3>1
    <3>2. CASE s # r
      BY <1>7, <2>3, <3>2 DEF Inv, IInv, TakenInv
    <3>3. QED BY <3>1, <3>2
  <2>6. BoundInv' /\ PaidInv'
    <3>1. BoundInv'
      BY <1>2, <1>6 DEF Inv, IInv, BoundInv
    <3>2. PaidInv'
      BY <1>2, <1>6, <1>11 DEF Inv, TypeOK, IInv, PaidInv
    <3>3. QED BY <3>1, <3>2
  <2>7. QED BY <1>8, <2>2, <2>4, <2>5, <2>6 DEF Inv, IInv
<1>12. QED BY <1>1, <1>10, <1>11

LEMMA OpenAttemptInv ==
    ASSUME Inv, NEW r \in Requests, OpenAttempt(r)
    PROVE  Inv'
<1> DEFINE row == [account |-> req[r].account, expires |-> Expiry(req[r].at),
                   session |-> NoOne, closed |-> FALSE]
           c == CloseExpired(req[r].account, req[r].at)
<1>1. PICK k \in Keys : /\ ~Opened(k)
                        /\ attempt' = [c EXCEPT ![k] = row]
                        /\ req' = [req EXCEPT ![r].pc = "ask", ![r].key = k]
  BY DEF OpenAttempt
<1>2. /\ UNCHANGED <<now, session, lock, asked, provider, sub, handed, completed, known>>
      /\ req[r].pc = "attempt"
      /\ OpenOf(req[r].account) \subseteq ExpiredOf(req[r].account, req[r].at)
  BY DEF OpenAttempt, providerVars, ledgerVars
<1>3. /\ req[r].account \in Accounts /\ req[r].account # NoOne
      /\ lock[req[r].account] = r
      /\ req[r].at \in Nat
  BY <1>2, RowTypes, ConstantsAssumption DEF Inv, IInv, LockInv
<1>4. row \in AttemptRow
  BY <1>3, ConstantsAssumption DEF AttemptRow, Expiry
<1>5. attempt' \in [Keys -> AttemptRow] /\ attempt'[k] = row
  BY <1>1, <1>4, CloseExpiredType DEF Inv
<1>6. \A j \in Keys : j # k => /\ attempt'[j].account = attempt[j].account
                               /\ attempt'[j].expires = attempt[j].expires
                               /\ attempt'[j].session = attempt[j].session
                               /\ attempt[j].closed => attempt'[j].closed
                               /\ attempt'[j].closed => attempt[j].closed \/ attempt[j].expires <= now
                               /\ attempt[j].account # req[r].account => attempt'[j] = attempt[j]
                               /\ attempt[j].account = req[r].account => attempt'[j].closed
  <2> SUFFICES ASSUME NEW j \in Keys, j # k
               PROVE  /\ attempt'[j] = c[j]
                      /\ attempt[j].account # req[r].account => j \notin ExpiredOf(req[r].account, req[r].at)
                      /\ attempt[j].account = req[r].account =>
                            j \in ExpiredOf(req[r].account, req[r].at) \/ attempt[j].closed
    BY <1>2, CloseExpiredInv
  <2>1. attempt'[j] = c[j]
    BY <1>1, CloseExpiredType DEF Inv
  <2>2. QED BY <1>2, <2>1 DEF OpenOf, ExpiredOf
<1>7. req' \in [Requests -> RequestRow]
  BY <1>1, SetPhaseKey DEF Inv, TypeOK, Phase
<1>8. /\ req'[r].pc = "ask" /\ req'[r].key = k
      /\ req'[r].account = req[r].account /\ req'[r].at = req[r].at
      /\ \A s \in Requests : s # r => req'[s] = req[s]
  BY <1>1 DEF Inv, TypeOK, RequestRow
<1>9. TypeOK'
  BY <1>2, <1>5, <1>7 DEF Inv, TypeOK
<1>10. LockInv'
  BY <1>2, <1>8 DEF Inv, IInv, LockInv
<1>11. TakenInv'
  <2>1. ASSUME NEW s \in Requests, s # r, req[s].pc \in {"ask", "wait", "bind"}
        PROVE  attempt'[req[s].key] = attempt[req[s].key] /\ req[s].key # k
    <3>1. req[s].account # req[r].account /\ req[s].account # NoOne
      BY <1>3, <2>1, ConstantsAssumption DEF Inv, IInv, LockInv
    <3>2. req[s].key # k
      BY <1>1, <2>1, <3>1 DEF Inv, IInv, TakenInv, Opened
    <3>3. QED BY <1>6, <2>1, <3>1, <3>2 DEF Inv, IInv, TakenInv
  <2>2. QED BY <1>2, <1>5, <1>8, <2>1 DEF Inv, IInv, TakenInv
<1>12. ProviderInv'
  <2>1. provider[k].st = "none"
    BY <1>1 DEF Inv, IInv, ProviderInv
  <2>2. \A q \in asked : q.key \in Keys /\ q.key # k
    BY <1>1, ConstantsAssumption DEF Inv, TypeOK, Call, IInv, ProviderInv, Opened
  <2>3. QED BY <1>2, <1>6, <2>1, <2>2 DEF Inv, IInv, ProviderInv, Opened
<1>13. OpenInv'
  BY <1>2, <1>5, <1>6, RowTypes DEF Inv, IInv, OpenInv, Opened
<1>14. BoundInv' /\ PaidInv'
  <2>1. provider[k].st = "none"
    BY <1>1 DEF Inv, IInv, ProviderInv
  <2>2. attempt[k].session = NoOne /\ session[k] = NoOne
    BY <1>1, <2>1 DEF Inv, IInv, BoundInv, Opened
  <2>3. k \notin handed /\ k \notin completed
    BY <2>1, <2>2, ConstantsAssumption DEF Inv, IInv, PaidInv
  <2>4. BoundInv'
    <3>1. ASSUME NEW j \in Keys
          PROVE  /\ attempt'[j].session # NoOne => /\ attempt'[j].session = j
                                                   /\ provider[j].st # "none"
                                                   /\ session[j] = attempt'[j].account
                 /\ session[j] # NoOne => session[j] = attempt'[j].account
      <4>1. CASE j = k
        BY <1>5, <2>2, <4>1
      <4>2. CASE j # k
        BY <1>6, <4>2 DEF Inv, IInv, BoundInv
      <4>3. QED BY <4>1, <4>2
    <3>2. QED BY <1>2, <3>1 DEF BoundInv
  <2>5. PaidInv'
    BY <1>2, <1>6, <2>1, <2>3 DEF Inv, TypeOK, IInv, PaidInv
  <2>6. QED BY <2>4, <2>5
<1>15. QED BY <1>9, <1>10, <1>11, <1>12, <1>13, <1>14 DEF Inv, IInv

LEMMA AskInv ==
    ASSUME Inv, NEW r \in Requests, Ask(r)
    PROVE  Inv'
<1> DEFINE k == req[r].key
           q == [key |-> k, account |-> req[r].account, expires |-> attempt[k].expires]
<1>1. /\ asked' = asked \cup {q}
      /\ req' = [req EXCEPT ![r].pc = "wait"]
      /\ req[r].pc = "ask"
      /\ UNCHANGED <<now, attempt, session, lock, provider, sub, handed, completed, known>>
  BY DEF Ask, RequestKey, ledgerVars
<1>2. /\ k \in Keys
      /\ attempt[k].account = req[r].account
      /\ req[r].account \in Accounts
      /\ attempt[k].expires \in Nat
  BY <1>1, RowTypes DEF Inv, IInv, LockInv, TakenInv
<1>3. q \in Call
  BY <1>2 DEF Call
<1>4. req' \in [Requests -> RequestRow]
  BY <1>1, SetPhase DEF Inv, TypeOK, Phase
<1>5. TypeOK'
  BY <1>1, <1>3, <1>4 DEF Inv, TypeOK
<1>6. LockInv' /\ TakenInv'
  BY <1>1 DEF Inv, TypeOK, IInv, LockInv, TakenInv, RequestRow
<1>7. ProviderInv'
  BY <1>1, <1>2 DEF Inv, IInv, ProviderInv, Opened
<1>8. OpenInv' /\ BoundInv' /\ PaidInv'
  BY <1>1 DEF Inv, IInv, OpenInv, BoundInv, PaidInv, Opened
<1>9. QED BY <1>5, <1>6, <1>7, <1>8 DEF Inv, IInv

LEMMA AnswerInv ==
    ASSUME Inv, NEW r \in Requests, Answer(r)
    PROVE  Inv'
<1>1. /\ req' = [req EXCEPT ![r].pc = "bind"]
      /\ req[r].pc = "wait"
      /\ provider[req[r].key].st # "none"
      /\ UNCHANGED <<now, attempt, session, lock, asked, provider, sub, handed, completed, known>>
  BY DEF Answer, RequestKey, providerVars, ledgerVars
<1>2. req' \in [Requests -> RequestRow]
  BY <1>1, SetPhase DEF Inv, TypeOK, Phase
<1>3. TypeOK'
  BY <1>1, <1>2 DEF Inv, TypeOK
<1>4. LockInv' /\ TakenInv'
  BY <1>1 DEF Inv, TypeOK, IInv, LockInv, TakenInv, RequestRow
<1>5. ProviderInv' /\ OpenInv' /\ BoundInv' /\ PaidInv'
  BY <1>1 DEF Inv, IInv, ProviderInv, OpenInv, BoundInv, PaidInv, Opened
<1>6. QED BY <1>3, <1>4, <1>5 DEF Inv, IInv

\* AskFails and Die only give the lock back.
LEMMA GiveUpInv ==
    ASSUME Inv, NEW r \in Requests, Release(r), req[r].pc # "idle",
           UNCHANGED <<now, attempt, session, providerVars, handed, ledgerVars>>
    PROVE  Inv'
<1>1. TypeOK'
  BY ReleaseType DEF Inv, TypeOK, providerVars, ledgerVars
<1>2. LockInv' /\ TakenInv'
  BY ReleaseInv DEF providerVars
<1>3. ProviderInv' /\ OpenInv' /\ BoundInv' /\ PaidInv'
  BY DEF Inv, IInv, ProviderInv, OpenInv, BoundInv, PaidInv, Opened, providerVars, ledgerVars
<1>4. QED BY <1>1, <1>2, <1>3 DEF Inv, IInv

LEMMA BindInv ==
    ASSUME Inv, NEW r \in Requests, Bind(r)
    PROVE  Inv'
<1> DEFINE k == req[r].key
           a == req[r].account
<1>1. /\ k \in Keys
      /\ attempt[k].account = a /\ attempt[k].session = NoOne /\ ~attempt[k].closed
      /\ provider[k].st # "none"
      /\ a \in Accounts /\ a # NoOne
      /\ lock[a] = r
  BY ConstantsAssumption DEF Bind, Inv, IInv, LockInv, TakenInv
<1>2. /\ req[r].pc = "bind"
      /\ session' = [session EXCEPT ![k] = IF @ = NoOne THEN a ELSE @]
      /\ attempt' = [attempt EXCEPT ![k].session = k]
      /\ handed' = handed \cup {k}
      /\ Release(r)
      /\ UNCHANGED <<now, asked, provider, sub, completed, known>>
  BY <1>1 DEF Bind, RequestKey, Inv, TypeOK, AttemptRow, providerVars, ledgerVars
<1>3. /\ attempt' \in [Keys -> AttemptRow]
      /\ attempt'[k].session = k
      /\ attempt'[k].account = a
      /\ attempt'[k].expires = attempt[k].expires
      /\ attempt'[k].closed = attempt[k].closed
      /\ \A j \in Keys : j # k => attempt'[j] = attempt[j]
  BY <1>1, <1>2 DEF Inv, TypeOK, AttemptRow
<1>4. /\ session' \in [Keys -> Accounts \cup {NoOne}]
      /\ session'[k] = a
      /\ \A j \in Keys : j # k => session'[j] = session[j]
  BY <1>1, <1>2 DEF Inv, TypeOK, IInv, BoundInv
<1>5. TypeOK'
  BY <1>1, <1>2, <1>3, <1>4, ReleaseType DEF Inv, TypeOK
<1>6. ASSUME NEW s \in Requests, s # r, req[s].pc \in {"ask", "wait", "bind"}
      PROVE  attempt'[req[s].key] = attempt[req[s].key]
  <2>1. req[s].account # a
    BY <1>1, <1>6 DEF Inv, IInv, LockInv
  <2>2. req[s].key # k
    BY <1>1, <1>6, <2>1 DEF Inv, IInv, TakenInv
  <2>3. QED BY <1>3, <1>6, <2>2 DEF Inv, IInv, TakenInv
<1>7. LockInv' /\ TakenInv'
  BY <1>2, <1>6, ReleaseInv
<1>8. ProviderInv'
  <2>1. \A j \in Keys : attempt'[j].account = attempt[j].account /\ attempt'[j].expires = attempt[j].expires
    BY <1>1, <1>3
  <2>2. QED BY <1>2, <2>1 DEF Inv, TypeOK, Call, IInv, ProviderInv, Opened
<1>9. OpenInv'
  <2>1. \A j \in Keys : /\ attempt'[j].account = attempt[j].account
                        /\ attempt'[j].expires = attempt[j].expires
                        /\ attempt'[j].closed = attempt[j].closed
    BY <1>1, <1>3
  <2>2. QED BY <1>2, <2>1 DEF Inv, IInv, OpenInv, Opened
<1>10. BoundInv'
  <2>1. ASSUME NEW j \in Keys
        PROVE  /\ attempt'[j].session # NoOne => /\ attempt'[j].session = j
                                                 /\ provider[j].st # "none"
                                                 /\ session'[j] = attempt'[j].account
               /\ session'[j] # NoOne => session'[j] = attempt'[j].account
    <3>1. CASE j = k
      BY <1>1, <1>3, <1>4, <3>1
    <3>2. CASE j # k
      BY <1>3, <1>4, <3>2 DEF Inv, IInv, BoundInv
    <3>3. QED BY <3>1, <3>2
  <2>2. QED BY <1>2, <2>1 DEF BoundInv
<1>11. PaidInv'
  BY <1>1, <1>2, <1>3 DEF Inv, TypeOK, IInv, PaidInv
<1>12. QED BY <1>5, <1>7, <1>8, <1>9, <1>10, <1>11 DEF Inv, IInv

LEMMA ProviderCreatesInv ==
    ASSUME Inv, NEW q \in asked, ProviderCreates(q)
    PROVE  Inv'
<1>1. /\ provider' = [provider EXCEPT ![q.key] = [st |-> "open", account |-> q.account,
                                                  expires |-> q.expires]]
      /\ provider[q.key].st = "none"
      /\ UNCHANGED <<now, attempt, session, lock, req, asked, sub, handed, completed, known>>
  BY DEF ProviderCreates, ledgerVars
<1>2. q.key \in Keys /\ q.account \in Accounts /\ q.account # NoOne /\ q.expires \in Nat
  BY ConstantsAssumption DEF Inv, TypeOK, Call
<1>3. /\ provider' \in [Keys -> ProviderRow]
      /\ provider'[q.key] = [st |-> "open", account |-> q.account, expires |-> q.expires]
      /\ \A j \in Keys : j # q.key => provider'[j] = provider[j]
  BY <1>1, <1>2 DEF Inv, TypeOK, ProviderRow
<1>4. TypeOK'
  BY <1>1, <1>3 DEF Inv, TypeOK
<1>5. LockInv' /\ TakenInv'
  BY <1>1, <1>3 DEF Inv, IInv, LockInv, TakenInv
<1>6. ProviderInv'
  BY <1>1, <1>2, <1>3 DEF Inv, IInv, ProviderInv, Opened
<1>7. OpenInv' /\ BoundInv'
  BY <1>1, <1>3 DEF Inv, IInv, OpenInv, BoundInv, Opened
<1>8. PaidInv'
  BY <1>1, <1>3 DEF Inv, TypeOK, IInv, PaidInv
<1>9. QED BY <1>4, <1>5, <1>6, <1>7, <1>8 DEF Inv, IInv

LEMMA PayInv ==
    ASSUME Inv, NEW k \in Keys, Pay(k)
    PROVE  Inv'
<1>1. /\ k \in handed /\ provider[k].st = "open"
      /\ provider' = [provider EXCEPT ![k].st = "complete"]
      /\ sub' = [sub EXCEPT ![k] = <<"active">>]
      /\ UNCHANGED <<now, attempt, session, lock, req, asked, handed, completed, known>>
  BY DEF Pay, Payable, ledgerVars
<1>2. /\ provider' \in [Keys -> ProviderRow]
      /\ provider'[k].st = "complete"
      /\ provider'[k].account = provider[k].account
      /\ provider'[k].expires = provider[k].expires
      /\ \A j \in Keys : j # k => provider'[j] = provider[j]
  BY <1>1 DEF Inv, TypeOK, ProviderRow
<1>3. sub' \in [Keys -> Seq(Status)]
  <2>1. <<"active">> \in Seq(Status)
    BY DEF Status
  <2>2. QED BY <1>1, <2>1 DEF Inv, TypeOK
<1>4. TypeOK'
  BY <1>1, <1>2, <1>3 DEF Inv, TypeOK
<1>5. LockInv' /\ TakenInv'
  BY <1>1, <1>2 DEF Inv, IInv, LockInv, TakenInv
<1>6. ProviderInv'
  <2>1. \A j \in Keys : /\ provider'[j].st # "none" <=> provider[j].st # "none"
                        /\ provider'[j].account = provider[j].account
                        /\ provider'[j].expires = provider[j].expires
    BY <1>1, <1>2
  <2>2. QED BY <1>1, <2>1 DEF Inv, IInv, ProviderInv, Opened
<1>7. OpenInv' /\ BoundInv'
  BY <1>1, <1>2 DEF Inv, IInv, OpenInv, BoundInv, Opened
<1>8. PaidInv'
  BY <1>1, <1>2 DEF Inv, TypeOK, IInv, PaidInv
<1>9. QED BY <1>4, <1>5, <1>6, <1>7, <1>8 DEF Inv, IInv

LEMMA CompletedDeliveredInv ==
    ASSUME Inv, NEW k \in Keys, CompletedDelivered(k)
    PROVE  Inv'
<1>1. /\ provider[k].st = "complete"
      /\ completed' = completed \cup {k}
      /\ attempt' = [j \in Keys |-> IF attempt[j].session = k
                                    THEN [attempt[j] EXCEPT !.closed = TRUE] ELSE attempt[j]]
      /\ UNCHANGED <<now, session, lock, req, asked, provider, sub, handed, known>>
  BY DEF CompletedDelivered, CloseCompleted, providerVars
<1>2. attempt[k].session = k
  BY <1>1 DEF Inv, IInv, PaidInv
<1>3. \A j \in Keys : j # k => attempt'[j] = attempt[j]
  BY <1>1, ConstantsAssumption DEF Inv, IInv, BoundInv
<1>4. /\ attempt' \in [Keys -> AttemptRow]
      /\ attempt'[k].account = attempt[k].account
      /\ attempt'[k].expires = attempt[k].expires
      /\ attempt'[k].session = attempt[k].session
      /\ attempt'[k].closed
  <2>1. attempt'[k] = [attempt[k] EXCEPT !.closed = TRUE]
    BY <1>1, <1>2
  <2>2. [attempt[k] EXCEPT !.closed = TRUE] \in AttemptRow
    BY DEF Inv, TypeOK, AttemptRow
  <2>3. \A j \in Keys : attempt'[j] \in AttemptRow
    BY <1>3, <2>1, <2>2 DEF Inv, TypeOK
  <2>4. attempt' \in [Keys -> AttemptRow]
    BY <1>1, <2>3
  <2>5. QED BY <2>1, <2>4 DEF Inv, TypeOK, AttemptRow
<1>5. TypeOK'
  BY <1>1, <1>4 DEF Inv, TypeOK
<1>6. LockInv'
  BY <1>1 DEF Inv, IInv, LockInv
<1>7. TakenInv'
  <2>1. ASSUME NEW s \in Requests, req[s].pc \in {"ask", "wait", "bind"}
        PROVE  attempt'[req[s].key] = attempt[req[s].key]
    BY <1>2, <1>3, <2>1, ConstantsAssumption DEF Inv, IInv, TakenInv
  <2>2. QED BY <1>1, <2>1 DEF Inv, IInv, TakenInv
<1>8. ProviderInv'
  <2>1. \A j \in Keys : attempt'[j].account = attempt[j].account /\ attempt'[j].expires = attempt[j].expires
    BY <1>3, <1>4
  <2>2. QED BY <1>1, <2>1 DEF Inv, TypeOK, Call, IInv, ProviderInv, Opened
<1>9. OpenInv'
  <2>1. OpenInv /\ completed' = completed \cup {k} /\ now' = now
    BY <1>1 DEF Inv, IInv
  <2>2. ASSUME NEW j \in Keys
        PROVE  /\ attempt'[j].account = attempt[j].account /\ attempt'[j].expires = attempt[j].expires
               /\ attempt[j].closed => attempt'[j].closed
               /\ j # k => attempt'[j].closed = attempt[j].closed
    BY <1>3, <1>4
  <2>3. ASSUME NEW i \in Keys, NEW j \in Keys, Opened(i)', attempt'[i].account = attempt'[j].account,
               ~attempt'[i].closed, ~attempt'[j].closed
        PROVE  i = j
    <3>1. /\ Opened(i) /\ attempt[i].account = attempt[j].account
          /\ ~attempt[i].closed /\ ~attempt[j].closed
      BY <2>2, <2>3 DEF Opened
    <3>2. QED BY <2>1, <3>1 DEF OpenInv
  <2>4. ASSUME NEW j \in Keys, attempt'[j].closed
        PROVE  j \in completed' \/ attempt'[j].expires <= now'
    BY <2>1, <2>2, <2>4 DEF OpenInv
  <2>5. QED BY <2>3, <2>4 DEF OpenInv
<1>10. BoundInv'
  <2>1. \A j \in Keys : attempt'[j].account = attempt[j].account /\ attempt'[j].session = attempt[j].session
    BY <1>3, <1>4
  <2>2. QED BY <1>1, <2>1 DEF Inv, IInv, BoundInv
<1>11. PaidInv'
  BY <1>1, <1>3, <1>4 DEF Inv, TypeOK, IInv, PaidInv
<1>12. QED BY <1>5, <1>6, <1>7, <1>8, <1>9, <1>10, <1>11 DEF Inv, IInv

\* Steps of the clock, the subscriptions and their deliveries touch nothing
\* the invariant reads but the clock, which only goes on.
LEMMA RecordInv ==
    ASSUME Inv, now' \in Nat, now' >= now,
           UNCHANGED <<attempt, session, lock, req, asked, provider, handed, completed>>,
           sub' \in [Keys -> Seq(Status)], known' \in [Keys -> Nat]
    PROVE  Inv'
<1>1. TypeOK'
  BY DEF Inv, TypeOK
<1>2. LockInv' /\ TakenInv'
  BY RowTypes DEF Inv, TypeOK, IInv, LockInv, TakenInv
<1>3. ProviderInv' /\ BoundInv' /\ PaidInv'
  BY DEF Inv, IInv, ProviderInv, BoundInv, PaidInv, Opened
<1>4. OpenInv'
  BY RowTypes DEF Inv, TypeOK, IInv, OpenInv, Opened
<1>5. QED BY <1>1, <1>2, <1>3, <1>4 DEF Inv, IInv

LEMMA NextInv == Inv /\ [Next]_vars => Inv'
<1> SUFFICES ASSUME Inv, [Next]_vars PROVE Inv'
  OBVIOUS
<1>1. ASSUME NEW r \in Requests, Request(r) PROVE Inv'
  <2>1. CASE AskFails(r)
    BY <2>1, GiveUpInv DEF AskFails
  <2>2. CASE Die(r)
    BY <2>2, GiveUpInv DEF Die
  <2>3. QED
    BY <1>1, <2>1, <2>2, ClaimInv, ReadStandingInv, ReuseAttemptInv, OpenAttemptInv,
       AskInv, AnswerInv, BindInv DEF Request
<1>2. ASSUME Outside PROVE Inv'
  <2>1. ASSUME NEW k \in Keys, NEW s \in Status, SubscriptionChanges(k, s) PROVE Inv'
    <3>1. Append(sub[k], s) \in Seq(Status)
      BY DEF Inv, TypeOK
    <3>2. sub' \in [Keys -> Seq(Status)]
      BY <2>1, <3>1 DEF SubscriptionChanges, Inv, TypeOK
    <3>3. QED BY <2>1, <3>2, RecordInv DEF SubscriptionChanges, Inv, TypeOK, ledgerVars
  <2>2. CASE Tick
    BY <2>2, RecordInv DEF Tick, Inv, TypeOK, providerVars, ledgerVars
  <2>3. ASSUME NEW k \in Keys, NEW n \in 1..MaxChanges, StatusDelivered(k, n) PROVE Inv'
    <3>1. known' \in [Keys -> Nat]
      BY <2>3 DEF StatusDelivered, Inv, TypeOK
    <3>2. QED BY <2>3, <3>1, RecordInv DEF StatusDelivered, Inv, TypeOK, providerVars
  <2>4. QED
    BY <1>2, <2>1, <2>2, <2>3, ProviderCreatesInv, PayInv, CompletedDeliveredInv DEF Outside
<1>3. CASE UNCHANGED vars
  <2>1. UNCHANGED <<now, attempt, session, lock, req, asked, provider, handed, completed, sub, known>>
    BY <1>3 DEF vars
  <2>2. /\ now' \in Nat /\ now' >= now
        /\ sub' \in [Keys -> Seq(Status)] /\ known' \in [Keys -> Nat]
    BY <2>1 DEF Inv, TypeOK
  <2>3. QED BY <2>1, <2>2, RecordInv
<1>4. QED BY <1>1, <1>2, <1>3 DEF Next

LEMMA Invariance == Spec => []Inv
BY InitInv, NextInv, PTL DEF Spec

-----------------------------------------------------------------------------
(* The results. *)

\* Every row keeps its type.
THEOREM TypeCorrect == Spec => []TypeOK
<1>1. Inv => TypeOK
  BY DEF Inv
<1>2. QED BY <1>1, Invariance, PTL

\* At most one hosted page of an account can be paid at any instant.
THEOREM OnePayable == Spec => []SinglePayable
<1>1. Inv => SinglePayable
  <2> SUFFICES ASSUME Inv, NEW j \in Keys, NEW k \in Keys, Payable(j), Payable(k),
                      provider[j].account = provider[k].account
               PROVE  j = k
    BY DEF SinglePayable
  <2>1. ASSUME NEW i \in Keys, Payable(i)
        PROVE  /\ Opened(i) /\ ~attempt[i].closed
               /\ provider[i].account = attempt[i].account
    <3>1. provider[i].st = "open" /\ now < provider[i].expires
      BY <2>1 DEF Payable
    <3>2. Opened(i) /\ provider[i].account = attempt[i].account /\ provider[i].expires = attempt[i].expires
      BY <3>1 DEF Inv, IInv, ProviderInv
    <3>3. i \notin completed
      BY <3>1 DEF Inv, IInv, PaidInv
    <3>4. QED BY <3>1, <3>2, <3>3, RowTypes DEF Inv, TypeOK, IInv, OpenInv
  <2>2. QED BY <2>1 DEF Inv, IInv, OpenInv
<1>2. QED BY <1>1, Invariance, PTL

\* One handler of an account is between its attempt and the provider's answer.
THEOREM OneCall == Spec => []OneAsking
<1>1. Inv => OneAsking
  BY DEF Inv, IInv, LockInv, OneAsking
<1>2. QED BY <1>1, Invariance, PTL

\* What is bound to an attempt is its own session, on record for its account.
THEOREM OwnSession == Spec => []BoundToOwnSession
<1>1. Inv => BoundToOwnSession
  <2> SUFFICES ASSUME Inv, NEW k \in Keys
               PROVE  /\ attempt[k].session # NoOne =>
                            /\ provider[attempt[k].session].account = attempt[k].account
                            /\ session[attempt[k].session] = attempt[k].account
                      /\ provider[k].st = "complete" => attempt[k].session = k
    BY DEF BoundToOwnSession
  <2>1. attempt[k].session # NoOne => /\ attempt[k].session = k
                                      /\ provider[k].account = attempt[k].account
                                      /\ session[k] = attempt[k].account
    BY DEF Inv, IInv, BoundInv, ProviderInv
  <2>2. QED BY <2>1 DEF Inv, IInv, PaidInv
<1>2. QED BY <1>1, Invariance, PTL

\* An attempt opens only after every earlier one of the account has ended.
THEOREM OpensAfter == Spec => OpensAfterOutcome
<1> DEFINE A == \A k \in Keys : ~Opened(k) /\ Opened(k)' =>
                   \A j \in Keys : /\ Opened(j)
                                   /\ attempt[j].account = attempt'[k].account
                                   => now >= attempt[j].expires \/ j \in completed
<1>1. Inv /\ [Next]_vars => [A]_vars
  <2> SUFFICES ASSUME Inv, Next, NEW k \in Keys, ~Opened(k), Opened(k)',
                      NEW j \in Keys, Opened(j), attempt[j].account = attempt'[k].account
               PROVE  now >= attempt[j].expires \/ j \in completed
    OBVIOUS
  <2>1. ASSUME NEW r \in Requests, OpenAttempt(r)
        PROVE  now >= attempt[j].expires \/ j \in completed
    <3>1. PICK i \in Keys :
             attempt' = [CloseExpired(req[r].account, req[r].at) EXCEPT
                            ![i] = [account |-> req[r].account,
                                    expires |-> Expiry(req[r].at),
                                    session |-> NoOne, closed |-> FALSE]]
      BY <2>1 DEF OpenAttempt
    <3>2. /\ req[r].pc = "attempt" /\ req[r].at <= now
          /\ OpenOf(req[r].account) \subseteq ExpiredOf(req[r].account, req[r].at)
      BY <2>1 DEF OpenAttempt, Inv, IInv, LockInv
    <3>3. k = i
      <4>1. CASE k # i
        <5>1. attempt'[k] = CloseExpired(req[r].account, req[r].at)[k]
          BY <3>1, <4>1, CloseExpiredType DEF Inv
        <5>2. attempt'[k].account = attempt[k].account
          BY <3>2, <5>1, CloseExpiredInv
        <5>3. QED BY <5>2 DEF Opened
      <4>2. QED BY <4>1
    <3>4. attempt'[k].account = req[r].account
      BY <3>1, <3>3, CloseExpiredType DEF Inv
    <3>5. CASE attempt[j].closed
      BY <3>5, RowTypes DEF Inv, TypeOK, IInv, OpenInv
    <3>6. CASE ~attempt[j].closed
      <4>1. attempt[j].expires <= req[r].at
        BY <3>2, <3>4, <3>6 DEF OpenOf, ExpiredOf
      <4>2. QED BY <3>2, <4>1, RowTypes DEF Inv, TypeOK
    <3>7. QED BY <3>5, <3>6
  <2>2. ASSUME attempt'[k].account = attempt[k].account
        PROVE  FALSE
    BY <2>2 DEF Opened
  <2>3. ASSUME NEW r \in Requests, ReuseAttempt(r) PROVE FALSE
    <3>1. attempt' = CloseExpired(req[r].account, req[r].at) /\ req[r].pc # "idle"
      BY <2>3 DEF ReuseAttempt
    <3>2. QED BY <2>2, <3>1, CloseExpiredInv
  <2>4. ASSUME NEW r \in Requests, Bind(r) PROVE FALSE
    BY <2>2, <2>4 DEF Bind, Inv, TypeOK, AttemptRow
  <2>5. ASSUME NEW i \in Keys, CompletedDelivered(i) PROVE FALSE
    BY <2>2, <2>5 DEF CompletedDelivered, CloseCompleted, Inv, TypeOK, AttemptRow
  <2>6. CASE UNCHANGED attempt
    BY <2>2, <2>6
  <2>7. QED
    BY <2>1, <2>3, <2>4, <2>5, <2>6
       DEF Next, Request, Outside, Claim, ReadStanding, Ask, Answer, AskFails, Die,
           ProviderCreates, Pay, SubscriptionChanges, Tick, StatusDelivered
<1>2. QED BY <1>1, Invariance, PTL DEF Spec, OpensAfterOutcome

\* A recorded completion finds its attempt and closes it.
THEOREM CompletionClosesAttempt == Spec => []CompletionCloses
<1>1. Inv => CompletionCloses
  BY DEF Inv, IInv, PaidInv, CompletionCloses
<1>2. QED BY <1>1, Invariance, PTL

-----------------------------------------------------------------------------
(* The supporter ledger.                                                    *)

\* The account has completed a checkout under the event's customer.
TiedBy(e, a) == \E q \in rows : /\ q.event.type = "completed"
                                /\ Owner[q.event.sub] = a
                                /\ q.event.customer = e.customer

\* What an event may resolve to: its owner or nobody, the owner when it ends the
\* checkout, and otherwise only once a checkout of the customer is recorded.
Settled(e, a) ==
    /\ a \in {NoOne, Owner[e.sub]}
    /\ e.type = "completed" => a = Owner[e.sub]
    /\ a # NoOne => e.type = "completed" \/ TiedBy(e, a)

RowsSettled == \A r \in rows : Settled(r.event, r.account)

InHandSettled ==
    \A d \in Requests :
        /\ delivery[d].pc # "free" => delivery[d].event \in Events
        /\ delivery[d].pc \in {"insert", "commit"} => Settled(delivery[d].event, delivery[d].account)

\* Of the deliveries of one event, one at most has inserted and not committed,
\* and then no row of the event is committed.
CommitsApart ==
    \A d \in Requests : delivery[d].pc = "commit" =>
        /\ ~L!OnRecord(delivery[d].event)
        /\ \A o \in Requests : delivery[o].pc = "commit" /\ delivery[o].event = delivery[d].event
                               => o = d

\* ORDER BY ... LIMIT 1 finds a row when there is one.
HasNewest == \A S \in SUBSET rows : S # {} => L!Newest(S) # {}

LedgerInv ==
    L!TypeOK /\ L!OneRowPerEvent /\ RowsSettled /\ InHandSettled /\ CommitsApart /\ HasNewest

-----------------------------------------------------------------------------
(* The queries. *)

LEMMA EventFacts ==
    ASSUME NEW e \in Events
    PROVE  /\ e.at \in Int /\ e.customer # NoOne /\ e # NoOne
           /\ Owner[e.sub] \in Supporters \cup {NoOne}
           /\ \A f \in Events : /\ e.sub = f.sub => e.customer = f.customer
                                /\ e.customer = f.customer => Owner[e.sub] = Owner[f.sub]
                                /\ e.sub = f.sub /\ e.at = f.at /\ e.status # NoOne
                                      /\ f.status # NoOne => e = f
BY LedgerAssumption DEF L!EventsConsistent

\* The order of the rows is total and transitive.
LEMMA LaterOrder ==
    ASSUME NEW r \in L!EventRow, NEW q \in L!EventRow, NEW p \in L!EventRow
    PROVE  /\ L!Later(r, q) \/ L!Later(q, r)
           /\ L!Later(r, q) /\ L!Later(q, p) => L!Later(r, p)
<1>1. /\ r.event.at \in Int /\ q.event.at \in Int /\ p.event.at \in Int
      /\ r.received \in Int /\ q.received \in Int /\ p.received \in Int
  BY EventFacts, LedgerAssumption DEF L!EventRow
<1>2. QED BY <1>1 DEF L!Later

\* One row more has a newest among any of the rows.
LEMMA NewestOfMore ==
    ASSUME rows \subseteq L!EventRow, HasNewest, NEW new \in L!EventRow,
           NEW S \in SUBSET (rows \cup {new}), S # {}
    PROVE  L!Newest(S) # {}
<1>1. CASE S \subseteq rows
  BY <1>1 DEF HasNewest
<1>2. CASE S = {new}
  <2>1. L!Later(new, new)
    BY LaterOrder
  <2>2. QED BY <1>2, <2>1 DEF L!Newest
<1>3. CASE new \in S /\ S # {new}
  <2> DEFINE T == S \ {new}
  <2>1. T \in SUBSET rows /\ T # {}
    BY <1>3
  <2>2. PICK m \in T : \A q \in T : L!Later(m, q)
    BY <2>1 DEF HasNewest, L!Newest
  <2>3. S \subseteq L!EventRow /\ m \in S
    BY <2>2
  <2>4. CASE L!Later(m, new)
    <3>1. \A q \in S : L!Later(m, q)
      BY <2>2, <2>4
    <3>2. QED BY <2>3, <3>1 DEF L!Newest
  <2>5. CASE ~L!Later(m, new)
    <3>1. L!Later(new, m) /\ L!Later(new, new)
      BY <2>3, <2>5, LaterOrder
    <3>2. \A q \in S : L!Later(new, q)
      BY <2>2, <2>3, <3>1, LaterOrder
    <3>3. QED BY <1>3, <3>2 DEF L!Newest
  <2>6. QED BY <2>4, <2>5
<1>4. QED BY <1>1, <1>2, <1>3

LEMMA AccountOfIs ==
    ASSUME HasNewest, NEW S \in SUBSET rows
    PROVE  L!AccountOf(S) = NoOne \/ \E r \in S : L!AccountOf(S) = r.account
<1>1. CASE S = {}
  BY <1>1 DEF L!AccountOf
<1>2. CASE S # {}
  <2>1. L!Newest(S) # {} /\ L!Newest(S) \subseteq S
    BY <1>2 DEF HasNewest, L!Newest
  <2>2. (CHOOSE r \in L!Newest(S) : TRUE) \in S
    BY <2>1
  <2>3. QED BY <1>2, <2>2 DEF L!AccountOf
<1>3. QED BY <1>1, <1>2

\* The first of four tries that finds something.
LEMMA FirstFound ==
    ASSUME NEW n, NEW a, NEW b, NEW c, NEW d, NEW tries, tries = <<a, b, c, d>>,
           NEW found, found = {i \in 1..4 : tries[i] # n},
           NEW first,
           first = IF found = {} THEN n ELSE tries[CHOOSE i \in found : \A j \in found : i <= j]
    PROVE  /\ first \in {n, a, b, c, d}
           /\ first = n => a = n /\ b = n /\ c = n /\ d = n
<1>1. tries[1] = a /\ tries[2] = b /\ tries[3] = c /\ tries[4] = d
  OBVIOUS
<1>2. CASE found = {}
  <2>1. 1 \notin found /\ 2 \notin found /\ 3 \notin found /\ 4 \notin found
    BY <1>2
  <2>2. QED BY <1>1, <1>2, <2>1
<1>3. CASE found # {}
  <2>1. \E i \in found : \A j \in found : i <= j
    <3>1. found \subseteq {1, 2, 3, 4}
      OBVIOUS
    <3>2. CASE 1 \in found
      BY <3>1, <3>2
    <3>3. CASE 1 \notin found /\ 2 \in found
      BY <3>1, <3>3
    <3>4. CASE 1 \notin found /\ 2 \notin found /\ 3 \in found
      BY <3>1, <3>4
    <3>5. CASE 1 \notin found /\ 2 \notin found /\ 3 \notin found
      <4>1. PICK k \in found : TRUE
        BY <1>3
      <4>2. \A j \in found : j = 4
        BY <3>1, <3>5
      <4>3. QED BY <4>1, <4>2
    <3>6. QED BY <3>2, <3>3, <3>4, <3>5
  <2> DEFINE i == CHOOSE i \in found : \A j \in found : i <= j
  <2>2. i \in found
    BY <2>1
  <2> HIDE DEF i
  <2>3. first = tries[i] /\ tries[i] # n /\ i \in {1, 2, 3, 4}
    BY <1>3, <2>2 DEF i
  <2>4. QED BY <1>1, <2>3
<1>4. QED BY <1>2, <1>3

\* Every way an event is resolved leads to its owner or to nobody.
LEMMA ResolvedSettled ==
    ASSUME rows \subseteq L!EventRow, RowsSettled, HasNewest, NEW e \in Events
    PROVE  Settled(e, L!Resolved(rows, e))
<1> DEFINE o == Owner[e.sub]
           a == IF e.type = "completed" /\ e.sub \in Recorded THEN o ELSE NoOne
           b == L!AccountForSubscription(rows, e.sub)
           c == L!AccountForCustomer(rows, e.customer)
           d == IF e.type = "completed" THEN o ELSE NoOne
           first == L!Resolved(rows, e)
<1>1. \A r \in rows : r.event \in Events
  BY DEF L!EventRow
<1>2. ASSUME NEW r \in rows, r.account # NoOne,
             r.event.sub = e.sub \/ r.event.customer = e.customer
      PROVE  r.account = o /\ TiedBy(e, r.account)
  <2>1. r.event \in Events /\ Settled(r.event, r.account)
    BY <1>1 DEF RowsSettled
  <2>2. r.event.customer = e.customer
    BY <1>2, <2>1, EventFacts
  <2>3. r.account = o
    BY <1>2, <2>1, <2>2, EventFacts DEF Settled
  <2>4. TiedBy(e, r.account)
    BY <1>2, <2>1, <2>2 DEF Settled, TiedBy
  <2>5. QED BY <2>3, <2>4
<1>3. b = NoOne \/ (b = o /\ TiedBy(e, b))
  <2> DEFINE S == {r \in rows : r.account # NoOne /\ r.event.sub = e.sub}
  <2>1. L!AccountOf(S) = NoOne \/ \E r \in S : L!AccountOf(S) = r.account
    BY AccountOfIs
  <2>2. QED BY <1>2, <2>1 DEF L!AccountForSubscription
<1>4. c = NoOne \/ (c = o /\ TiedBy(e, c))
  <2> DEFINE S == {r \in rows : r.account # NoOne /\ r.event.customer = e.customer}
  <2>1. L!AccountOf(S) = NoOne \/ \E r \in S : L!AccountOf(S) = r.account
    BY AccountOfIs
  <2>2. QED BY <1>2, <2>1 DEF L!AccountForCustomer
<1>5. /\ first \in {NoOne, a, b, c, d}
      /\ first = NoOne => a = NoOne /\ b = NoOne /\ c = NoOne /\ d = NoOne
  <2> DEFINE tries == <<a, b, c, d>>
             found == {i \in 1..4 : tries[i] # NoOne}
  <2>1. first = IF found = {} THEN NoOne ELSE tries[CHOOSE i \in found : \A j \in found : i <= j]
    BY Zenon DEF L!Resolved
  <2>2. tries = <<a, b, c, d>> /\ found = {i \in 1..4 : tries[i] # NoOne}
    OBVIOUS
  <2> HIDE DEF a, b, c, d, first, tries, found
  <2>3. QED BY <2>1, <2>2, FirstFound
<1> HIDE DEF b, c, first
<1>6. first \in {NoOne, o}
  BY <1>3, <1>4, <1>5
<1>7. e.type = "completed" => first = o
  BY <1>5, <1>6
<1>8. first # NoOne => e.type = "completed" \/ TiedBy(e, first)
  BY <1>3, <1>4, <1>5
<1>9. QED BY <1>6, <1>7, <1>8 DEF Settled, first

\* What is settled stays settled as rows are added.
LEMMA SettledStays ==
    ASSUME rows \subseteq rows', NEW e, NEW a, Settled(e, a)
    PROVE  Settled(e, a)'
BY DEF Settled, TiedBy

LEMMA MarkIn ==
    ASSUME NEW R, NEW a
    PROVE  L!MarkOf(R, a) \in L!Mark
BY DEF L!MarkOf, L!Mark

-----------------------------------------------------------------------------
(* The invariant. *)

LEMMA LedgerInit == L!Init => LedgerInv
<1> SUFFICES ASSUME L!Init PROVE LedgerInv
  OBVIOUS
<1>1. L!Free \in L!DeliveryRow /\ L!Free.pc = "free"
  BY LedgerAssumption DEF L!Free, L!DeliveryRow, L!Mark
<1>2. L!TypeOK
  BY <1>1, LedgerAssumption DEF L!Init, L!TypeOK, L!Mark
<1>3. L!OneRowPerEvent /\ RowsSettled
  BY DEF L!Init, L!OneRowPerEvent, RowsSettled
<1>4. InHandSettled /\ CommitsApart
  BY <1>1 DEF L!Init, InHandSettled, CommitsApart
<1>5. HasNewest
  BY DEF L!Init, HasNewest
<1>6. QED BY <1>2, <1>3, <1>4, <1>5 DEF LedgerInv

\* A delivery goes on, and no row is written.
LEMMA DeliveryStep ==
    ASSUME LedgerInv, NEW d \in Requests, NEW new \in L!DeliveryRow, L!Become(d, new),
           rows' = rows, clock' \in 0..MaxClock, audited' \in [Supporters -> L!Mark],
           replays' \in 0..MaxReplays, deaths' \in 0..MaxDeaths,
           new.pc # "free" => new.event \in Events,
           new.pc \in {"insert", "commit"} => Settled(new.event, new.account),
           new.pc = "commit" =>
              /\ ~L!OnRecord(new.event)
              /\ \A o \in Requests : delivery[o].pc = "commit" => delivery[o].event # new.event
    PROVE  LedgerInv'
<1>1. \A o \in Requests : delivery'[o] = IF o = d THEN new ELSE delivery[o]
  BY DEF L!Become, LedgerInv, L!TypeOK
<1>2. L!TypeOK'
  BY DEF L!Become, LedgerInv, L!TypeOK
<1>3. L!OneRowPerEvent' /\ RowsSettled' /\ HasNewest'
  BY DEF LedgerInv, L!OneRowPerEvent, RowsSettled, Settled, TiedBy, HasNewest, L!Newest, L!Later
<1>4. InHandSettled'
  BY <1>1 DEF LedgerInv, InHandSettled, Settled, TiedBy
<1>5. CommitsApart'
  BY <1>1 DEF LedgerInv, CommitsApart, L!OnRecord
<1>6. QED BY <1>2, <1>3, <1>4, <1>5 DEF LedgerInv

LEMMA ToFree ==
    ASSUME LedgerInv, NEW d \in Requests, L!Become(d, L!Free), rows' = rows,
           clock' \in 0..MaxClock, audited' \in [Supporters -> L!Mark],
           replays' \in 0..MaxReplays, deaths' \in 0..MaxDeaths
    PROVE  LedgerInv'
<1>1. L!Free \in L!DeliveryRow /\ L!Free.pc = "free"
  BY LedgerAssumption DEF L!Free, L!DeliveryRow, L!Mark
<1>2. QED BY <1>1, DeliveryStep

LEMMA ReceiveInv ==
    ASSUME LedgerInv, NEW d \in Requests, NEW e \in Events, L!Receive(d, e)
    PROVE  LedgerInv'
<1> DEFINE new == [L!Free EXCEPT !.pc = "resolve", !.event = e, !.received = clock]
<1>1. /\ L!Become(d, new) /\ UNCHANGED <<rows, clock, audited, deaths>>
      /\ replays' \in 0..MaxReplays
  BY LedgerAssumption DEF L!Receive, LedgerInv, L!TypeOK
<1>2. new \in L!DeliveryRow /\ new.pc = "resolve" /\ new.event = e
  BY LedgerAssumption DEF L!Free, L!DeliveryRow, L!Mark, LedgerInv, L!TypeOK
<1> HIDE DEF new
<1>3. clock' \in 0..MaxClock /\ audited' \in [Supporters -> L!Mark] /\ deaths' \in 0..MaxDeaths
  BY <1>1 DEF LedgerInv, L!TypeOK
<1>4. QED BY <1>1, <1>2, <1>3, DeliveryStep

LEMMA ResolveInv ==
    ASSUME LedgerInv, NEW d \in Requests, L!Resolve(d)
    PROVE  LedgerInv'
<1> DEFINE e == delivery[d].event
           a == L!Resolved(rows, e)
           mark == IF a = NoOne THEN "none" ELSE L!MarkOf(rows, a)
           new == [delivery[d] EXCEPT !.pc = "insert", !.account = a, !.before = mark]
<1>1. L!Become(d, new) /\ UNCHANGED <<rows, clock, audited, replays, deaths>>
  BY DEF L!Resolve
<1>2. delivery[d] \in L!DeliveryRow /\ e \in Events
  BY DEF L!Resolve, LedgerInv, L!TypeOK, InHandSettled
<1>3. Settled(e, a)
  BY <1>2, ResolvedSettled DEF LedgerInv, L!TypeOK
<1>4. a \in Supporters \cup {NoOne} /\ mark \in L!Mark
  BY <1>2, <1>3, EventFacts, MarkIn DEF Settled, L!Mark
<1> HIDE DEF a, mark
<1>5. new \in L!DeliveryRow /\ new.pc = "insert" /\ new.event = e /\ new.account = a
  BY <1>2, <1>4 DEF L!DeliveryRow
<1> HIDE DEF new, e
<1>6. /\ clock' \in 0..MaxClock /\ audited' \in [Supporters -> L!Mark]
      /\ replays' \in 0..MaxReplays /\ deaths' \in 0..MaxDeaths
  BY <1>1 DEF LedgerInv, L!TypeOK
<1>7. QED BY <1>1, <1>2, <1>3, <1>5, <1>6, DeliveryStep

LEMMA InsertInv ==
    ASSUME LedgerInv, NEW d \in Requests, L!Insert(d)
    PROVE  LedgerInv'
<1> DEFINE e == delivery[d].event
<1>1. UNCHANGED <<rows, clock, audited, replays, deaths>>
  BY DEF L!Insert
<1>2. /\ clock' \in 0..MaxClock /\ audited' \in [Supporters -> L!Mark]
      /\ replays' \in 0..MaxReplays /\ deaths' \in 0..MaxDeaths
  BY <1>1 DEF LedgerInv, L!TypeOK
<1>3. CASE L!OnRecord(e)
  BY <1>1, <1>2, <1>3, ToFree DEF L!Insert
<1>4. CASE ~L!OnRecord(e)
  <2> DEFINE mark == IF delivery[d].account = NoOne THEN "none"
                     ELSE L!MarkOf(rows \cup {L!RowOf(d)}, delivery[d].account)
             new == [delivery[d] EXCEPT !.pc = "commit", !.after = mark]
  <2>1. L!Become(d, new)
    BY <1>4 DEF L!Insert
  <2>2. /\ delivery[d] \in L!DeliveryRow /\ e \in Events
        /\ Settled(e, delivery[d].account)
    BY DEF L!Insert, LedgerInv, L!TypeOK, InHandSettled
  <2>3. mark \in L!Mark
    BY MarkIn DEF L!Mark
  <2> HIDE DEF mark
  <2>4. /\ new \in L!DeliveryRow /\ new.pc = "commit" /\ new.event = e
        /\ new.account = delivery[d].account
    BY <2>2, <2>3 DEF L!DeliveryRow
  <2>5. \A o \in Requests : delivery[o].pc = "commit" => delivery[o].event # e
    BY DEF L!Insert, L!MayInsert
  <2> HIDE DEF new, e
  <2>6. QED BY <1>1, <1>2, <1>4, <2>1, <2>2, <2>4, <2>5, DeliveryStep
<1>5. QED BY <1>3, <1>4

LEMMA CommitInv ==
    ASSUME LedgerInv, NEW d \in Requests, L!Commit(d)
    PROVE  LedgerInv'
<1> DEFINE e == delivery[d].event
           row == L!RowOf(d)
           new == IF delivery[d].before = delivery[d].after THEN L!Free
                  ELSE [delivery[d] EXCEPT !.pc = "audit"]
<1>1. /\ rows' = rows \cup {row} /\ L!Become(d, new)
      /\ UNCHANGED <<clock, audited, replays, deaths>> /\ delivery[d].pc = "commit"
  BY DEF L!Commit
<1>2. /\ delivery[d] \in L!DeliveryRow /\ e \in Events /\ rows \subseteq L!EventRow
      /\ Settled(e, delivery[d].account)
  BY <1>1 DEF LedgerInv, L!TypeOK, InHandSettled
<1>3. row \in L!EventRow /\ row.event = e /\ row.account = delivery[d].account
  BY <1>2 DEF L!RowOf, L!DeliveryRow, L!EventRow
<1>4. /\ \A r \in rows : r.event # e
      /\ \A o \in Requests : delivery[o].pc = "commit" /\ delivery[o].event = e => o = d
  BY <1>1 DEF LedgerInv, CommitsApart, L!OnRecord
<1>5. new \in L!DeliveryRow /\ new.pc \in {"free", "audit"} /\ (new.pc # "free" => new.event = e)
  <2>1. L!Free \in L!DeliveryRow /\ L!Free.pc = "free"
    BY LedgerAssumption DEF L!Free, L!DeliveryRow, L!Mark
  <2>2. [delivery[d] EXCEPT !.pc = "audit"] \in L!DeliveryRow
        /\ [delivery[d] EXCEPT !.pc = "audit"].event = e
        /\ [delivery[d] EXCEPT !.pc = "audit"].pc = "audit"
    BY <1>2 DEF L!DeliveryRow
  <2>3. QED BY <2>1, <2>2
<1> HIDE DEF new, row
<1>6. \A o \in Requests : delivery'[o] = IF o = d THEN new ELSE delivery[o]
  BY <1>1 DEF L!Become, LedgerInv, L!TypeOK
<1>7. L!TypeOK'
  <2>1. rows' \subseteq L!EventRow
    BY <1>1, <1>2, <1>3
  <2>2. QED BY <1>1, <1>5, <2>1 DEF L!Become, LedgerInv, L!TypeOK
<1>8. L!OneRowPerEvent'
  BY <1>1, <1>3, <1>4 DEF LedgerInv, L!OneRowPerEvent
<1>9. RowsSettled'
  <2> SUFFICES ASSUME NEW r \in rows' PROVE Settled(r.event, r.account)'
    BY DEF RowsSettled
  <2>1. Settled(r.event, r.account)
    BY <1>1, <1>2, <1>3 DEF LedgerInv, RowsSettled
  <2>2. QED BY <1>1, <2>1, SettledStays
<1>10. InHandSettled'
  <2> SUFFICES ASSUME NEW o \in Requests
               PROVE  /\ delivery'[o].pc # "free" => delivery'[o].event \in Events
                      /\ delivery'[o].pc \in {"insert", "commit"} =>
                            Settled(delivery[o].event, delivery[o].account)'
    BY DEF InHandSettled
  <2>1. CASE o = d
    BY <1>2, <1>5, <1>6, <2>1
  <2>2. CASE o # d
    <3>1. delivery'[o] = delivery[o]
      BY <1>6, <2>2
    <3>2. delivery[o].pc \in {"insert", "commit"} => Settled(delivery[o].event, delivery[o].account)
      BY DEF LedgerInv, InHandSettled
    <3>3. delivery'[o].pc \in {"insert", "commit"} => Settled(delivery[o].event, delivery[o].account)'
      BY <1>1, <3>1, <3>2 DEF Settled, TiedBy
    <3>4. QED BY <3>1, <3>3 DEF LedgerInv, InHandSettled
  <2>3. QED BY <2>1, <2>2
<1>11. CommitsApart'
  BY <1>1, <1>3, <1>4, <1>5, <1>6 DEF LedgerInv, CommitsApart, L!OnRecord
<1>12. HasNewest'
  <2>1. \A S \in SUBSET (rows \cup {row}) : S # {} => L!Newest(S) # {}
    BY <1>2, <1>3, NewestOfMore DEF LedgerInv
  <2>2. QED BY <1>1, <2>1 DEF HasNewest, L!Newest, L!Later
<1>13. QED BY <1>7, <1>8, <1>9, <1>10, <1>11, <1>12 DEF LedgerInv

LEMMA AuditInv ==
    ASSUME LedgerInv, NEW d \in Requests, L!Audit(d)
    PROVE  LedgerInv'
<1>1. delivery[d].after \in L!Mark
  BY DEF LedgerInv, L!TypeOK, L!DeliveryRow
<1>2. audited' \in [Supporters -> L!Mark]
  BY <1>1 DEF L!Audit, LedgerInv, L!TypeOK
<1>3. QED BY <1>2, ToFree DEF L!Audit, LedgerInv, L!TypeOK

LEMMA DieInv ==
    ASSUME LedgerInv, NEW d \in Requests, L!Die(d)
    PROVE  LedgerInv'
BY LedgerAssumption, ToFree DEF L!Die, LedgerInv, L!TypeOK

LEMMA TickInv ==
    ASSUME LedgerInv, rows' = rows, delivery' = delivery, clock' \in 0..MaxClock,
           UNCHANGED <<audited, replays, deaths>>
    PROVE  LedgerInv'
BY DEF LedgerInv, L!TypeOK, L!OneRowPerEvent, RowsSettled, InHandSettled, Settled, TiedBy,
       CommitsApart, L!OnRecord, HasNewest, L!Newest, L!Later

LEMMA LedgerNext == LedgerInv /\ [L!Next]_rowVars => LedgerInv'
<1> SUFFICES ASSUME LedgerInv, [L!Next]_rowVars PROVE LedgerInv'
  OBVIOUS
<1>1. ASSUME NEW d \in Requests, NEW e \in Events, L!Receive(d, e) PROVE LedgerInv'
  BY <1>1, ReceiveInv
<1>2. ASSUME NEW d \in Requests, L!Step(d) PROVE LedgerInv'
  BY <1>2, ResolveInv, InsertInv, CommitInv, AuditInv DEF L!Step
<1>3. ASSUME NEW d \in Requests, L!Die(d) PROVE LedgerInv'
  BY <1>3, DieInv
<1>4. CASE L!Tick
  <2>1. clock' \in 0..MaxClock
    BY <1>4, LedgerAssumption DEF L!Tick, LedgerInv, L!TypeOK
  <2>2. QED BY <1>4, <2>1, TickInv DEF L!Tick
<1>5. CASE UNCHANGED rowVars
  BY <1>5, TickInv DEF rowVars, LedgerInv, L!TypeOK
<1>6. QED BY <1>1, <1>2, <1>3, <1>4, <1>5 DEF L!Next

\* The other part's steps leave the ledger alone.
LEMMA PartNext == [MCNext]_<<part, vars, rowVars>> => [L!Next]_rowVars
BY DEF MCNext

LEMMA LedgerAlways == MCSpec => []LedgerInv
<1>1. MCInit => LedgerInv
  BY LedgerInit DEF MCInit
<1>2. LedgerInv /\ [MCNext]_<<part, vars, rowVars>> => LedgerInv'
  BY LedgerNext, PartNext
<1>3. QED BY <1>1, <1>2, PTL DEF MCSpec

LEMMA InvIsSound == LedgerInv => LedgerSound
<1> SUFFICES ASSUME LedgerInv PROVE LedgerSound
  OBVIOUS
<1>1. L!TiedToOwner
  BY DEF LedgerInv, RowsSettled, Settled, L!TiedToOwner
<1>2. QED BY <1>1 DEF LedgerInv, LedgerSound

\* However often, late or side by side an event is delivered, and wherever a
\* delivery dies, the event is recorded once and tied to the account that
\* started its subscription or to none (recordWebhook, insertSupporterEvent).
THEOREM LedgerSoundness == MCSpec => []LedgerSound
BY LedgerAlways, InvIsSound, PTL

-----------------------------------------------------------------------------
(* The marks are what the recorded events imply. *)

\* Whoever owns a row has a completed checkout recorded under its customer.
LEMMA OwnRowIsTied ==
    ASSUME LedgerInv, NEW r \in rows, r.account # NoOne
    PROVE  \E q \in rows : /\ q.event.type = "completed" /\ Owner[q.event.sub] = r.account
                           /\ q.account = r.account /\ q.event.customer = r.event.customer
<1>1. Settled(r.event, r.account)
  BY DEF LedgerInv, RowsSettled
<1>2. CASE r.event.type = "completed"
  BY <1>1, <1>2 DEF Settled
<1>3. CASE r.event.type # "completed"
  <2>1. PICK q \in rows : /\ q.event.type = "completed" /\ Owner[q.event.sub] = r.account
                          /\ q.event.customer = r.event.customer
    BY <1>1, <1>3 DEF Settled, TiedBy
  <2>2. Settled(q.event, q.account)
    BY DEF LedgerInv, RowsSettled
  <2>3. q.account = r.account
    BY <2>1, <2>2 DEF Settled
  <2>4. QED BY <2>1, <2>3
<1>4. QED BY <1>2, <1>3

\* The rows that count for an account: those under the customer of a checkout
\* it completed.
LEMMA BoundIsTied ==
    ASSUME LedgerInv, NEW a \in Supporters, NEW r \in rows
    PROVE  r \in L!BoundEvents(rows, a)
           <=> r.event.status # NoOne /\ TiedBy(r.event, a)
<1>1. \A p \in rows : p.event \in Events
  BY DEF LedgerInv, L!TypeOK, L!EventRow
<1>2. a # NoOne
  BY LedgerAssumption
<1>3. ASSUME r \in L!BoundEvents(rows, a)
      PROVE  r.event.status # NoOne /\ TiedBy(r.event, a)
  <2>1. /\ r.event.status # NoOne
        /\ \E o \in rows : o.account = a /\ (\/ o = r
                                             \/ r.event.sub = o.event.sub
                                             \/ r.event.customer = o.event.customer)
    BY <1>3 DEF L!BoundEvents, L!Own
  <2>2. PICK o \in rows : o.account = a /\ (\/ o = r
                                            \/ r.event.sub = o.event.sub
                                            \/ r.event.customer = o.event.customer)
    BY <2>1
  <2>3. r.event.customer = o.event.customer
    BY <1>1, <2>2, EventFacts
  <2>4. QED BY <1>2, <2>1, <2>2, <2>3, OwnRowIsTied DEF TiedBy
<1>4. ASSUME r.event.status # NoOne, TiedBy(r.event, a)
      PROVE  r \in L!BoundEvents(rows, a)
  <2>1. PICK q \in rows : /\ q.event.type = "completed" /\ Owner[q.event.sub] = a
                          /\ q.event.customer = r.event.customer
    BY <1>4 DEF TiedBy
  <2>2. Settled(q.event, q.account)
    BY DEF LedgerInv, RowsSettled
  <2>3. q \in L!Own(rows, a)
    BY <2>1, <2>2 DEF Settled, L!Own
  <2>4. r.event.customer # NoOne
    BY <1>1, EventFacts
  <2>5. QED BY <1>4, <2>1, <2>3, <2>4 DEF L!BoundEvents
<1>5. QED BY <1>3, <1>4

\* The subscriptions that count for an account, in terms of the events.
LEMMA TiedSubscriptions ==
    ASSUME LedgerInv, NEW a \in Supporters, NEW r \in rows
    PROVE  r.event.sub \in L!Abstract!Tied(L!Known, a) <=> TiedBy(r.event, a)
<1>1. \A p \in rows : p.event \in Events
  BY DEF LedgerInv, L!TypeOK, L!EventRow
<1>2. ASSUME TiedBy(r.event, a) PROVE r.event.sub \in L!Abstract!Tied(L!Known, a)
  <2>1. PICK q \in rows : /\ q.event.type = "completed" /\ Owner[q.event.sub] = a
                          /\ q.event.customer = r.event.customer
    BY <1>2 DEF TiedBy
  <2>2. q.event \in L!Abstract!Completed(L!Known, a) /\ r.event \in L!Known
    BY <2>1 DEF L!Abstract!Completed, L!Known
  <2>3. QED BY <2>1, <2>2 DEF L!Abstract!Tied
<1>3. ASSUME r.event.sub \in L!Abstract!Tied(L!Known, a) PROVE TiedBy(r.event, a)
  <2>1. PICK e \in L!Known : /\ e.sub = r.event.sub
                             /\ \E c \in L!Abstract!Completed(L!Known, a) :
                                   e.sub = c.sub \/ e.customer = c.customer
    BY <1>3 DEF L!Abstract!Tied
  <2>2. PICK c \in L!Known : /\ c.type = "completed" /\ Owner[c.sub] = a
                             /\ e.sub = c.sub \/ e.customer = c.customer
    BY <2>1 DEF L!Abstract!Completed
  <2>3. e \in Events /\ c \in Events /\ r.event \in Events
    BY <1>1 DEF L!Known
  <2>4. e.customer = r.event.customer
    BY <2>1, <2>3, EventFacts
  <2>5. e.customer = c.customer
    BY <2>2, <2>3, EventFacts
  <2>6. PICK q \in rows : q.event = c
    BY DEF L!Known
  <2>7. QED BY <2>2, <2>4, <2>5, <2>6 DEF TiedBy
<1>4. QED BY <1>2, <1>3

\* The newest status row of a subscription is the row of its latest status.
LEMMA NewestIsLatest ==
    ASSUME LedgerInv, NEW a \in Supporters, NEW r \in rows
    PROVE  r \in L!LatestPerSubscription(L!BoundEvents(rows, a))
           <=> /\ TiedBy(r.event, a)
               /\ r.event \in L!Abstract!Latest(L!Known, r.event.sub)
<1> DEFINE B == L!BoundEvents(rows, a)
<1>1. \A p \in rows : p.event \in Events /\ p.event.at \in Int /\ p.received \in Int
  BY EventFacts, LedgerAssumption DEF LedgerInv, L!TypeOK, L!EventRow
<1>2. B \subseteq rows
  BY DEF L!BoundEvents
<1>3. r \in L!LatestPerSubscription(B)
      <=> r \in B /\ \A q \in B : q.event.sub = r.event.sub => L!Later(r, q)
  <2> HIDE DEF B
  <2>1. r \in L!LatestPerSubscription(B)
        <=> \E p \in B : r \in L!Newest({q \in B : q.event.sub = p.event.sub})
    BY DEF L!LatestPerSubscription
  <2>2. QED BY <2>1 DEF L!Newest
<1>4. \A q \in rows : q.event.sub = r.event.sub /\ TiedBy(r.event, a) => TiedBy(q.event, a)
  BY <1>1, EventFacts DEF TiedBy
<1>5. \A q \in rows : q \in B <=> q.event.status # NoOne /\ TiedBy(q.event, a)
  BY BoundIsTied
<1> HIDE DEF B
<1>6. ASSUME r \in B, \A q \in B : q.event.sub = r.event.sub => L!Later(r, q)
      PROVE  TiedBy(r.event, a) /\ r.event \in L!Abstract!Latest(L!Known, r.event.sub)
  <2>1. r.event.status # NoOne /\ TiedBy(r.event, a)
    BY <1>5, <1>6
  <2>2. ASSUME NEW f \in L!Known, f.sub = r.event.sub, f.status # NoOne
        PROVE  f.at <= r.event.at
    <3>1. PICK q \in rows : q.event = f
      BY DEF L!Known
    <3>2. L!Later(r, q)
      BY <1>4, <1>5, <1>6, <2>1, <2>2, <3>1
    <3>3. QED BY <1>1, <3>1, <3>2 DEF L!Later
  <2>3. QED BY <2>1, <2>2 DEF L!Abstract!Latest, L!Known
<1>7. ASSUME TiedBy(r.event, a), r.event \in L!Abstract!Latest(L!Known, r.event.sub)
      PROVE  r \in B /\ \A q \in B : q.event.sub = r.event.sub => L!Later(r, q)
  <2>1. /\ r.event.status # NoOne
        /\ \A f \in L!Known : f.sub = r.event.sub /\ f.status # NoOne => f.at <= r.event.at
    BY <1>7 DEF L!Abstract!Latest
  <2>2. ASSUME NEW q \in B, q.event.sub = r.event.sub PROVE L!Later(r, q)
    <3>1. q \in rows /\ q.event.status # NoOne /\ q.event \in L!Known
      BY <1>2, <1>5 DEF L!Known
    <3>2. q.event.at <= r.event.at
      BY <2>1, <2>2, <3>1
    <3>3. CASE q.event.at = r.event.at
      <4>1. q.event = r.event
        BY <1>1, <2>1, <2>2, <3>1, <3>3, EventFacts
      <4>2. q = r
        BY <3>1, <4>1 DEF LedgerInv, L!OneRowPerEvent
      <4>3. QED BY <1>1, <4>2 DEF L!Later
    <3>4. CASE q.event.at # r.event.at
      BY <1>1, <3>1, <3>2, <3>4 DEF L!Later
    <3>5. QED BY <3>3, <3>4
  <2>3. QED BY <1>5, <1>7, <2>1, <2>2
<1>8. QED BY <1>3, <1>6, <1>7 DEF B

LEMMA MarkAgrees ==
    ASSUME LedgerInv, NEW a \in Supporters
    PROVE  L!MarkOf(rows, a) = L!Abstract!MarkOf(L!Known, a)
<1> DEFINE newest == L!LatestPerSubscription(L!BoundEvents(rows, a))
           latest == UNION {L!Abstract!Latest(L!Known, s) : s \in L!Abstract!Tied(L!Known, a)}
           statuses == {r.event.status : r \in newest}
           ranks == {L!Abstract!Rank(e.status) : e \in latest}
<1>1. newest \subseteq rows
  BY DEF L!LatestPerSubscription, L!Newest, L!BoundEvents
<1>2. \A r \in rows : r \in newest <=> r.event \in latest
  <2> TAKE r \in rows
  <2>1. r.event \in latest <=> /\ r.event.sub \in L!Abstract!Tied(L!Known, a)
                               /\ r.event \in L!Abstract!Latest(L!Known, r.event.sub)
    BY DEF L!Abstract!Latest
  <2>2. QED BY <2>1, NewestIsLatest, TiedSubscriptions
<1>3. latest \subseteq L!Known
  BY DEF L!Abstract!Latest
<1> HIDE DEF newest, latest
<1>4. statuses = {e.status : e \in latest}
  BY <1>1, <1>2, <1>3 DEF L!Known
<1> HIDE DEF statuses
<1>5. 0 \in ranks <=> statuses \cap {"active", "trialing"} # {}
  BY <1>4 DEF L!Abstract!Rank
<1>6. 1 \in ranks <=> "past_due" \in statuses
  BY <1>4 DEF L!Abstract!Rank
<1> HIDE DEF ranks
<1>7. L!MarkOf(rows, a) = IF statuses \cap {"active", "trialing"} # {} THEN "supporter"
                          ELSE IF "past_due" \in statuses THEN "past_due" ELSE "none"
  BY DEF L!MarkOf, statuses, newest
<1>8. L!Abstract!MarkOf(L!Known, a) = IF 0 \in ranks THEN "supporter"
                                      ELSE IF 1 \in ranks THEN "past_due" ELSE "none"
  BY DEF L!Abstract!MarkOf, ranks, latest
<1>9. QED BY <1>5, <1>6, <1>7, <1>8

AgreesInv == \A a \in Supporters : L!MarkOf(rows, a) = L!Abstract!MarkOf(L!Known, a)

LEMMA NobodyKnown ==
    ASSUME L!Init
    PROVE  L!Abstract!Init
<1>1. rows = {} /\ L!Known = {}
  BY DEF L!Init, L!Known
<1>2. \A a \in Supporters : L!MarkOf(rows, a) = "none"
  BY <1>1 DEF L!MarkOf, L!LatestPerSubscription, L!BoundEvents
<1>3. QED BY <1>1, <1>2 DEF L!Abstract!Init

\* Only a commit moves the marks, and it makes one more event known.
LEMMA StepLearns ==
    ASSUME LedgerInv, AgreesInv', [L!Next]_rowVars
    PROVE  [L!Abstract!Next]_<<L!Known, [a \in Supporters |-> L!MarkOf(rows, a)]>>
<1>1. CASE UNCHANGED rows
  BY <1>1 DEF L!Known, L!MarkOf, L!LatestPerSubscription, L!BoundEvents, L!Own
<1>2. ASSUME NEW d \in Requests, L!Commit(d)
      PROVE  L!Abstract!Next
  <2> DEFINE e == delivery[d].event
  <2>1. e \in Events /\ e \notin L!Known
    BY <1>2 DEF LedgerInv, InHandSettled, CommitsApart, L!Commit, L!OnRecord, L!Known
  <2>2. L!Known' = L!Known \cup {e}
    <3>1. rows' = rows \cup {L!RowOf(d)} /\ L!RowOf(d).event = e
      BY <1>2 DEF L!Commit, L!RowOf
    <3>2. L!Known' = {r.event : r \in rows'}
      BY DEF L!Known
    <3> HIDE DEF e
    <3>3. QED BY <3>1, <3>2 DEF L!Known
  <2>3. [a \in Supporters |-> L!MarkOf(rows, a)]'
        = [a \in Supporters |-> L!Abstract!MarkOf(L!Known', a)]
    BY DEF AgreesInv
  <2>4. L!Abstract!Learn(e)
    BY <2>1, <2>2, <2>3 DEF L!Abstract!Learn
  <2>5. QED BY <2>1, <2>4 DEF L!Abstract!Next
<1>3. UNCHANGED rows \/ \E d \in Requests : L!Commit(d)
  BY DEF L!Next, L!Step, L!Receive, L!Resolve, L!Insert, L!Audit, L!Die, L!Tick, rowVars
<1>4. QED BY <1>1, <1>2, <1>3

\* The marks an account is shown are those the set of the recorded events
\* implies, and each step of the ledger makes one event known or moves no mark
\* (recordWebhook, supporterStatus, markFor).
THEOREM MarkRefinement == MCSpec => ImplementsMark
<1>1. LedgerInv => AgreesInv
  BY MarkAgrees DEF AgreesInv
<1>2. MCInit => L!Abstract!Init
  BY NobodyKnown DEF MCInit
<1>3. LedgerInv /\ AgreesInv' /\ [MCNext]_<<part, vars, rowVars>>
      => [L!Abstract!Next]_<<L!Known, [a \in Supporters |-> L!MarkOf(rows, a)]>>
  BY PartNext, StepLearns
<1>4. QED BY <1>1, <1>2, <1>3, LedgerAlways, PTL
         DEF MCSpec, ImplementsMark, L!ImplementsMark, L!Abstract!Spec
=============================================================================
