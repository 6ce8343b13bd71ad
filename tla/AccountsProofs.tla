---------------------------- MODULE AccountsProofs ----------------------------
(***************************************************************************)
(* The sign-in by code and the sessions for every number of accounts,      *)
(* codes, sessions and requests, every lifetime, touch interval and limit  *)
(* of attempts, and any roles and expiries; and the three instances of the *)
(* sign-in by password, from the proofs about every one.                   *)
(***************************************************************************)
EXTENDS MCAccounts, FiniteSetTheorems, TLAPS

-----------------------------------------------------------------------------
(* The codes. *)

\* A request names what it works on.
NamesInv ==
    \A r \in Requests :
        /\ asker[r].pc \in {"supersede", "insert"} => asker[r].account \in Recipients
        /\ asker[r].pc \in {"find", "attempt", "fail", "consume", "succeed"} =>
              asker[r].challenge \in Challenges

\* What was on record when a code was asked for is of its account, and what of
\* it still lives is in the set the UPDATE found.
AskInv ==
    \A r \in Requests :
        /\ asker[r].pc \in {"supersede", "insert"} => asker[r].old \subseteq C!Of(asker[r].account)
        /\ asker[r].pc = "insert" => \A d \in asker[r].old : C!Live(d) => d \in asker[r].seen

\* A code that a newer one was to replace is on record and does not live.
BeforeInv == \A c \in Challenges : \A d \in before[c] : challenge[d].account # NoOne /\ ~C!Live(d)

\* A row is absent or of an account.
RowInv == \A c \in Challenges : challenge[c].st = "none" <=> challenge[c].account = NoOne

IInv == NamesInv /\ AskInv /\ BeforeInv /\ RowInv /\ C!OneSessionPerCode /\ C!ConsumedWithinLimit

CodesInv == C!TypeOK /\ IInv

-----------------------------------------------------------------------------
LEMMA CodesInit == C!Init => CodesInv
<1> SUFFICES ASSUME C!Init PROVE CodesInv
  OBVIOUS
<1>1. C!Absent \in C!ChallengeRow /\ C!Idle \in C!RequestRow
  BY DEF C!Absent, C!ChallengeRow, C!Idle, C!RequestRow
<1>2. C!TypeOK
  BY <1>1 DEF C!Init, C!TypeOK
<1>3. \A c \in Challenges : challenge[c].st = "none" /\ challenge[c].account = NoOne
  BY DEF C!Init, C!Absent
<1>4. \A r \in Requests : asker[r].pc = "idle"
  BY DEF C!Init, C!Idle
<1>5. NamesInv /\ AskInv
  BY <1>4 DEF NamesInv, AskInv
<1>6. BeforeInv /\ RowInv /\ C!OneSessionPerCode /\ C!ConsumedWithinLimit
  BY <1>3 DEF C!Init, BeforeInv, RowInv, C!OneSessionPerCode, C!ConsumedWithinLimit
<1>7. QED BY <1>2, <1>5, <1>6 DEF CodesInv, IInv

\* A request goes on and writes neither the codes nor their history.
LEMMA AskerStep ==
    ASSUME CodesInv, NEW r \in Requests, NEW row \in C!RequestRow, asker' = [asker EXCEPT ![r] = row],
           UNCHANGED <<challenge, opened, before>>,
           moment' \in Nat, deaths' \in Nat, failures' \in [Challenges -> Nat],
           row.pc \in {"supersede", "insert"} =>
              row.account \in Recipients /\ row.old \subseteq C!Of(row.account),
           row.pc = "insert" => \A d \in row.old : C!Live(d) => d \in row.seen,
           row.pc \in {"find", "attempt", "fail", "consume", "succeed"} =>
              row.challenge \in Challenges
    PROVE  CodesInv'
<1>1. \A s \in Requests : asker'[s] = IF s = r THEN row ELSE asker[s]
  BY DEF CodesInv, C!TypeOK
<1>2. asker' \in [Requests -> C!RequestRow]
  BY DEF CodesInv, C!TypeOK
<1>3. C!TypeOK'
  BY <1>2 DEF CodesInv, C!TypeOK
<1>4. NamesInv' /\ AskInv'
  BY <1>1 DEF CodesInv, IInv, NamesInv, AskInv, C!Of, C!Live
<1>5. BeforeInv' /\ RowInv' /\ C!OneSessionPerCode' /\ C!ConsumedWithinLimit'
  BY DEF CodesInv, IInv, BeforeInv, RowInv, C!OneSessionPerCode, C!ConsumedWithinLimit, C!Live
<1>6. QED BY <1>3, <1>4, <1>5 DEF CodesInv, IInv

LEMMA EndInv ==
    ASSUME CodesInv, NEW r \in Requests, asker' = [asker EXCEPT ![r] = C!Idle],
           UNCHANGED <<challenge, opened, before>>,
           moment' \in Nat, deaths' \in Nat, failures' \in [Challenges -> Nat]
    PROVE  CodesInv'
<1>1. C!Idle \in C!RequestRow /\ C!Idle.pc = "idle"
  BY DEF C!Idle, C!RequestRow
<1>2. QED BY <1>1, AskerStep

LEMMA AskForCodeInv ==
    ASSUME CodesInv, NEW r \in Requests, NEW a \in Recipients, C!AskForCode(r, a)
    PROVE  CodesInv'
<1> DEFINE row == [C!Idle EXCEPT !.pc = "supersede", !.at = moment, !.account = a, !.old = C!Of(a)]
<1>1. row \in C!RequestRow /\ row.pc = "supersede" /\ row.account = a /\ row.old = C!Of(a)
  BY DEF C!Idle, C!RequestRow, C!Of, CodesInv, C!TypeOK
<1>2. asker' = [asker EXCEPT ![r] = row] /\ UNCHANGED <<moment, challenge, opened, failures, before, deaths>>
  BY DEF C!AskForCode
<1> HIDE DEF row
<1>3. QED BY <1>1, <1>2, AskerStep DEF CodesInv, C!TypeOK

LEMMA FindSupersededInv ==
    ASSUME CodesInv, NEW r \in Requests, C!FindSuperseded(r)
    PROVE  CodesInv'
<1> DEFINE row == [asker[r] EXCEPT !.pc = "insert", !.seen = C!ToSupersede(asker[r].account)]
<1>1. asker[r] \in C!RequestRow /\ asker[r].pc = "supersede"
  BY DEF CodesInv, C!TypeOK, C!FindSuperseded
<1>2. /\ row \in C!RequestRow /\ row.pc = "insert" /\ row.account = asker[r].account
      /\ row.old = asker[r].old /\ row.seen = C!ToSupersede(asker[r].account)
  BY <1>1 DEF C!RequestRow, C!ToSupersede, C!Of
<1>3. asker[r].account \in Recipients /\ asker[r].old \subseteq C!Of(asker[r].account)
  BY <1>1 DEF CodesInv, IInv, NamesInv, AskInv
<1>4. \A d \in asker[r].old : C!Live(d) => d \in C!ToSupersede(asker[r].account)
  BY <1>3 DEF C!ToSupersede
<1>5. asker' = [asker EXCEPT ![r] = row] /\ UNCHANGED <<moment, challenge, opened, failures, before, deaths>>
  BY <1>1 DEF C!FindSuperseded, CodesInv, C!TypeOK
<1> HIDE DEF row
<1>6. QED BY <1>2, <1>3, <1>4, <1>5, AskerStep DEF CodesInv, C!TypeOK

LEMMA IssueCodeInv ==
    ASSUME CodesInv, NEW r \in Requests, C!IssueCode(r)
    PROVE  CodesInv'
<1>1. PICK c \in Challenges :
         /\ challenge[c].st = "none"
         /\ challenge' = [d \in Challenges |->
               IF d = c THEN [account |-> asker[r].account, expires |-> asker[r].at + Life,
                              st |-> "live", attempts |-> 0]
               ELSE IF d \in asker[r].seen /\ C!Live(d) THEN [challenge[d] EXCEPT !.st = "superseded"]
               ELSE challenge[d]]
         /\ before' = [before EXCEPT ![c] = asker[r].old]
  BY DEF C!IssueCode
<1>2. /\ asker[r] \in C!RequestRow /\ asker[r].pc = "insert"
      /\ asker' = [asker EXCEPT ![r] = C!Idle]
      /\ UNCHANGED <<moment, opened, failures, deaths>>
  BY DEF C!IssueCode, CodesInv, C!TypeOK
<1>3. /\ asker[r].account \in Recipients /\ asker[r].account # NoOne
      /\ asker[r].old \subseteq C!Of(asker[r].account)
      /\ \A d \in asker[r].old : C!Live(d) => d \in asker[r].seen
  BY <1>2, CodesAssumption DEF CodesInv, IInv, NamesInv, AskInv
<1>4. \A d \in Challenges : challenge[d] \in C!ChallengeRow
  BY DEF CodesInv, C!TypeOK
<1>5. asker[r].at + Life \in Nat
  BY <1>2, CodesAssumption DEF C!RequestRow
<1>6. /\ challenge'[c].account = asker[r].account /\ challenge'[c].st = "live"
      /\ challenge'[c].attempts = 0 /\ challenge'[c] \in C!ChallengeRow
  BY <1>1, <1>3, <1>5 DEF C!ChallengeRow
<1>7. \A d \in Challenges \ {c} :
         /\ challenge'[d] \in C!ChallengeRow
         /\ challenge'[d].account = challenge[d].account
         /\ challenge'[d].attempts = challenge[d].attempts
         /\ challenge'[d].st = IF d \in asker[r].seen /\ C!Live(d) THEN "superseded" ELSE challenge[d].st
  BY <1>1, <1>4 DEF C!ChallengeRow
<1>8. challenge[c].account = NoOne
  BY <1>1 DEF CodesInv, IInv, RowInv
<1>9. C!TypeOK'
  <2>1. challenge' \in [Challenges -> C!ChallengeRow]
    BY <1>1, <1>6, <1>7
  <2>2. before' \in [Challenges -> SUBSET Challenges]
    BY <1>1, <1>2 DEF CodesInv, C!TypeOK, C!RequestRow
  <2>3. C!Idle \in C!RequestRow
    BY DEF C!Idle, C!RequestRow
  <2>4. QED BY <1>2, <2>1, <2>2, <2>3 DEF CodesInv, C!TypeOK
<1>10. \A s \in Requests : asker'[s] = IF s = r THEN C!Idle ELSE asker[s]
  BY <1>2 DEF CodesInv, C!TypeOK
<1>11. NamesInv'
  BY <1>10 DEF CodesInv, IInv, NamesInv, C!Idle
<1>12. AskInv'
  <2> SUFFICES ASSUME NEW s \in Requests, s # r
               PROVE  /\ asker[s].pc \in {"supersede", "insert"} =>
                            asker[s].old \subseteq C!Of(asker[s].account)'
                      /\ asker[s].pc = "insert" => \A d \in asker[s].old : C!Live(d)' => d \in asker[s].seen
    BY <1>10 DEF AskInv, C!Idle
  <2>1. ASSUME asker[s].pc \in {"supersede", "insert"}
        PROVE  \A d \in asker[s].old : d \in Challenges \ {c} /\ challenge[d].account = asker[s].account
    <3>1. asker[s].account \in Recipients /\ asker[s].old \subseteq C!Of(asker[s].account)
      BY <2>1 DEF CodesInv, IInv, NamesInv, AskInv
    <3>2. QED BY <3>1, <1>8, CodesAssumption DEF C!Of
  <2>2. ASSUME asker[s].pc \in {"supersede", "insert"}
        PROVE  asker[s].old \subseteq C!Of(asker[s].account)'
    BY <2>1, <2>2, <1>7, <1>10 DEF C!Of
  <2>3. ASSUME asker[s].pc = "insert", NEW d \in asker[s].old, C!Live(d)'
        PROVE  d \in asker[s].seen
    <3>1. d \in Challenges \ {c}
      BY <2>1, <2>3
    <3>2. C!Live(d)
      BY <2>3, <3>1, <1>7 DEF C!Live
    <3>3. QED BY <2>3, <3>2 DEF CodesInv, IInv, AskInv
  <2>4. QED BY <2>2, <2>3
<1>13. BeforeInv'
  <2> SUFFICES ASSUME NEW e \in Challenges, NEW d \in before'[e]
               PROVE  challenge'[d].account # NoOne /\ ~C!Live(d)'
    BY DEF BeforeInv
  <2>1. CASE e = c
    <3>1. d \in asker[r].old
      BY <2>1, <1>1 DEF CodesInv, C!TypeOK
    <3>2. d \in Challenges \ {c} /\ challenge[d].account # NoOne
      BY <3>1, <1>3, <1>8 DEF C!Of
    <3>3. QED BY <3>1, <3>2, <1>3, <1>7 DEF C!Live
  <2>2. CASE e # c
    <3>1. d \in before[e] /\ d \in Challenges
      BY <2>2, <1>1 DEF CodesInv, C!TypeOK
    <3>2. challenge[d].account # NoOne /\ ~C!Live(d)
      BY <3>1 DEF CodesInv, IInv, BeforeInv
    <3>3. d \in Challenges \ {c}
      BY <3>1, <3>2, <1>8
    <3>4. QED BY <3>2, <3>3, <1>7 DEF C!Live
  <2>3. QED BY <2>1, <2>2
<1>14. RowInv' /\ C!OneSessionPerCode' /\ C!ConsumedWithinLimit'
  BY <1>1, <1>2, <1>3, <1>6, <1>7
     DEF CodesInv, IInv, RowInv, C!OneSessionPerCode, C!ConsumedWithinLimit, C!Live
<1>15. QED BY <1>9, <1>11, <1>12, <1>13, <1>14 DEF CodesInv, IInv

LEMMA SubmitInv ==
    ASSUME CodesInv, NEW r \in Requests, NEW c \in Challenges, C!Submit(r, c)
    PROVE  CodesInv'
<1> DEFINE row == [C!Idle EXCEPT !.pc = "find", !.at = moment, !.challenge = c]
<1>1. row \in C!RequestRow /\ row.pc = "find" /\ row.challenge = c
  BY DEF C!Idle, C!RequestRow, CodesInv, C!TypeOK
<1>2. asker' = [asker EXCEPT ![r] = row] /\ UNCHANGED <<moment, challenge, opened, failures, before, deaths>>
  BY DEF C!Submit
<1> HIDE DEF row
<1>3. QED BY <1>1, <1>2, AskerStep DEF CodesInv, C!TypeOK

LEMMA CompareInv ==
    ASSUME CodesInv, NEW r \in Requests, C!Compare(r)
    PROVE  CodesInv'
<1>1. PICK next \in {"fail", "attempt", "consume"} : asker' = [asker EXCEPT ![r].pc = next]
  BY DEF C!Compare
<1> DEFINE row == [asker[r] EXCEPT !.pc = next]
<1>2. asker[r] \in C!RequestRow /\ asker[r].challenge \in Challenges
  BY DEF CodesInv, C!TypeOK, IInv, NamesInv, C!Compare
<1>3. row \in C!RequestRow /\ row.pc = next /\ row.challenge = asker[r].challenge
  BY <1>2 DEF C!RequestRow
<1>4. asker' = [asker EXCEPT ![r] = row] /\ UNCHANGED <<moment, challenge, opened, failures, before, deaths>>
  BY <1>1, <1>2 DEF C!Compare, CodesInv, C!TypeOK
<1> HIDE DEF row
<1>5. QED BY <1>2, <1>3, <1>4, AskerStep DEF CodesInv, C!TypeOK

\* A verification writes one live challenge, and its own row.
LEMMA ChallengeStep ==
    ASSUME CodesInv, NEW r \in Requests, NEW next \in {"fail", "succeed"}, NEW row \in C!ChallengeRow,
           asker[r].challenge \in Challenges, C!Live(asker[r].challenge),
           asker' = [asker EXCEPT ![r].pc = next],
           challenge' = [challenge EXCEPT ![asker[r].challenge] = row],
           UNCHANGED <<moment, failures, before, deaths>>,
           row.account = challenge[asker[r].challenge].account,
           row.st = "consumed" => row.attempts < MaxAttempts,
           row.st # "none",
           opened' = [opened EXCEPT ![asker[r].challenge] = IF row.st = "consumed" THEN 1 ELSE 0]
    PROVE  CodesInv'
<1> DEFINE c == asker[r].challenge
<1>1. \A d \in Challenges : challenge'[d] = IF d = c THEN row ELSE challenge[d]
  BY DEF CodesInv, C!TypeOK
<1>2. /\ asker[r] \in C!RequestRow /\ [asker[r] EXCEPT !.pc = next] \in C!RequestRow
      /\ [asker[r] EXCEPT !.pc = next].pc = next /\ [asker[r] EXCEPT !.pc = next].challenge = c
  BY DEF CodesInv, C!TypeOK, C!RequestRow
<1>3. \A s \in Requests : asker'[s] = IF s = r THEN [asker[r] EXCEPT !.pc = next] ELSE asker[s]
  BY DEF CodesInv, C!TypeOK
<1>4. C!TypeOK'
  <2>1. asker' \in [Requests -> C!RequestRow]
    BY <1>2, <1>3 DEF CodesInv, C!TypeOK
  <2>2. QED BY <2>1 DEF CodesInv, C!TypeOK
<1>5. NamesInv'
  BY <1>2, <1>3 DEF CodesInv, IInv, NamesInv
<1>6. challenge[c].account # NoOne
  BY DEF CodesInv, IInv, RowInv, C!Live
<1>7. \A a : C!Of(a)' = C!Of(a)
  BY <1>1 DEF C!Of
<1>8. \A d \in Challenges : C!Live(d)' => C!Live(d)
  BY <1>1 DEF C!Live
<1>9. AskInv'
  <2> SUFFICES ASSUME NEW s \in Requests, s # r
               PROVE  /\ asker[s].pc \in {"supersede", "insert"} =>
                            asker[s].old \subseteq C!Of(asker[s].account)'
                      /\ asker[s].pc = "insert" => \A d \in asker[s].old : C!Live(d)' => d \in asker[s].seen
    BY <1>2, <1>3 DEF AskInv
  <2>1. asker[s].old \subseteq Challenges
    BY DEF CodesInv, C!TypeOK, C!RequestRow
  <2>2. QED BY <2>1, <1>7, <1>8 DEF CodesInv, IInv, AskInv
<1>10. BeforeInv'
  <2>1. \A e \in Challenges : before[e] \subseteq Challenges
    BY DEF CodesInv, C!TypeOK
  <2>2. QED BY <2>1, <1>1, <1>6, <1>8 DEF CodesInv, IInv, BeforeInv
<1>11. RowInv'
  BY <1>1, <1>6 DEF CodesInv, IInv, RowInv
<1>12. C!OneSessionPerCode'
  BY <1>1 DEF CodesInv, C!TypeOK, IInv, C!OneSessionPerCode
<1>13. C!ConsumedWithinLimit'
  BY <1>1 DEF CodesInv, IInv, C!ConsumedWithinLimit
<1>14. QED BY <1>4, <1>5, <1>9, <1>10, <1>11, <1>12, <1>13 DEF CodesInv, IInv

LEMMA RecordAttemptInv ==
    ASSUME CodesInv, NEW r \in Requests, C!RecordAttempt(r)
    PROVE  CodesInv'
<1> DEFINE c == asker[r].challenge
<1>1. /\ asker[r] \in C!RequestRow /\ asker[r].pc = "attempt" /\ c \in Challenges
      /\ asker' = [asker EXCEPT ![r].pc = "fail"]
      /\ UNCHANGED <<moment, opened, failures, before, deaths>>
  BY DEF C!RecordAttempt, CodesInv, C!TypeOK, IInv, NamesInv
<1>2. CASE C!LiveAt(c, asker[r].at)
  <2> DEFINE row == [challenge[c] EXCEPT !.attempts = @ + 1]
  <2>1. challenge[c] \in C!ChallengeRow /\ challenge[c].st = "live"
    BY <1>1, <1>2 DEF CodesInv, C!TypeOK, C!LiveAt, C!Live
  <2>2. row \in C!ChallengeRow /\ row.account = challenge[c].account /\ row.st = "live"
    BY <2>1 DEF C!ChallengeRow
  <2>3. challenge' = [challenge EXCEPT ![c] = row]
    BY <1>1, <1>2 DEF C!RecordAttempt, CodesInv, C!TypeOK
  <2>4. opened' = [opened EXCEPT ![c] = IF row.st = "consumed" THEN 1 ELSE 0]
    BY <1>1, <2>1, <2>2 DEF CodesInv, C!TypeOK, IInv, C!OneSessionPerCode
  <2> HIDE DEF row
  <2>5. QED BY <1>1, <1>2, <2>2, <2>3, <2>4, ChallengeStep DEF C!LiveAt
<1>3. CASE ~C!LiveAt(c, asker[r].at)
  <2> DEFINE row == [asker[r] EXCEPT !.pc = "fail"]
  <2>1. row \in C!RequestRow /\ row.pc = "fail" /\ row.challenge = c
    BY <1>1 DEF C!RequestRow
  <2>2. asker' = [asker EXCEPT ![r] = row] /\ challenge' = challenge
    BY <1>1, <1>3 DEF C!RecordAttempt, CodesInv, C!TypeOK
  <2> HIDE DEF row
  <2>3. QED BY <1>1, <2>1, <2>2, AskerStep DEF CodesInv, C!TypeOK
<1>4. QED BY <1>2, <1>3

LEMMA ConsumeInv ==
    ASSUME CodesInv, NEW r \in Requests, C!Consume(r)
    PROVE  CodesInv'
<1> DEFINE c == asker[r].challenge
<1>1. /\ asker[r] \in C!RequestRow /\ c \in Challenges
      /\ UNCHANGED <<moment, failures, before, deaths>>
  BY DEF C!Consume, CodesInv, C!TypeOK, IInv, NamesInv
<1>2. CASE C!Consumable(c, asker[r].at)
  <2> DEFINE row == [challenge[c] EXCEPT !.st = "consumed"]
  <2>1. challenge[c] \in C!ChallengeRow /\ challenge[c].st = "live" /\ C!Live(c)
    BY <1>1, <1>2 DEF CodesInv, C!TypeOK, C!Consumable, C!LiveAt, C!Live
  <2>2. /\ row \in C!ChallengeRow /\ row.account = challenge[c].account /\ row.st = "consumed"
        /\ row.attempts < MaxAttempts
    BY <2>1, <1>2 DEF C!ChallengeRow, C!Consumable
  <2>3. challenge' = [challenge EXCEPT ![c] = row] /\ asker' = [asker EXCEPT ![r].pc = "succeed"]
    BY <1>1, <1>2 DEF C!Consume, CodesInv, C!TypeOK
  <2>4. opened' = [opened EXCEPT ![c] = 1]
    BY <1>1, <1>2, <2>1 DEF C!Consume, CodesInv, C!TypeOK, IInv, C!OneSessionPerCode
  <2> HIDE DEF row
  <2>5. QED BY <1>1, <2>1, <2>2, <2>3, <2>4, ChallengeStep
<1>3. CASE ~C!Consumable(c, asker[r].at)
  BY <1>1, <1>3, EndInv DEF C!Consume, CodesInv, C!TypeOK
<1>4. QED BY <1>2, <1>3

LEMMA RecordFailureInv ==
    ASSUME CodesInv, NEW r \in Requests, C!RecordFailure(r) \/ C!RecordSuccess(r) \/ C!Die(r)
    PROVE  CodesInv'
<1>1. /\ asker' = [asker EXCEPT ![r] = C!Idle] /\ UNCHANGED <<challenge, opened, before, moment>>
      /\ failures' \in [Challenges -> Nat] /\ deaths' \in Nat
  BY DEF C!RecordFailure, C!RecordSuccess, C!Die, CodesInv, C!TypeOK
<1>2. QED BY <1>1, EndInv DEF CodesInv, C!TypeOK

-----------------------------------------------------------------------------
LEMMA CodesNext == CodesInv /\ [C!Next]_(C!vars) => CodesInv'
<1> SUFFICES ASSUME CodesInv, [C!Next]_(C!vars) PROVE CodesInv'
  OBVIOUS
<1>1. ASSUME NEW r \in Requests, C!Issue(r) PROVE CodesInv'
  BY <1>1, AskForCodeInv, FindSupersededInv, IssueCodeInv DEF C!Issue
<1>2. ASSUME NEW r \in Requests, C!Verify(r) PROVE CodesInv'
  BY <1>2, SubmitInv, CompareInv, RecordAttemptInv, RecordFailureInv, ConsumeInv DEF C!Verify
<1>3. ASSUME NEW r \in Requests, C!Die(r) PROVE CodesInv'
  BY <1>3, RecordFailureInv
<1>4. CASE C!Tick
  <2>1. moment' \in Nat /\ UNCHANGED <<challenge, opened, failures, asker, before, deaths>>
    BY <1>4 DEF C!Tick, CodesInv, C!TypeOK
  <2>2. QED
    BY <2>1 DEF CodesInv, C!TypeOK, IInv, NamesInv, AskInv, C!Of, BeforeInv, RowInv, C!OneSessionPerCode,
                C!ConsumedWithinLimit, C!Live
<1>5. CASE UNCHANGED C!vars
  BY <1>5 DEF C!vars, CodesInv, C!TypeOK, IInv, NamesInv, AskInv, C!Of, BeforeInv, RowInv,
              C!OneSessionPerCode, C!ConsumedWithinLimit, C!Live
<1>6. QED BY <1>1, <1>2, <1>3, <1>4, <1>5 DEF C!Next

\* What is not a step of the codes leaves them alone.
LEMMA CodeSteps == [MCNext]_<<part, vars, codeVars, loginVars>> => [C!Next]_(C!vars)
<1>1. CASE MCNext
  BY <1>1 DEF MCNext, codeVars, C!vars
<1>2. CASE UNCHANGED <<part, vars, codeVars, loginVars>>
  BY <1>2 DEF codeVars, C!vars
<1>3. QED BY <1>1, <1>2

\* The codes and every part beside them keep the invariant.
THEOREM CodesInvariant == MCSpec => []CodesInv
<1>1. MCInit => CodesInv
  BY CodesInit DEF MCInit
<1>2. CodesInv /\ [MCNext]_<<part, vars, codeVars, loginVars>> => CodesInv'
  BY CodeSteps, CodesNext
<1>3. QED BY <1>1, <1>2, PTL DEF MCSpec

\* Every variable of the codes keeps its type.
THEOREM CodesTyped == MCSpec => []C!TypeOK
BY CodesInvariant, PTL DEF CodesInv

\* However many verifications run, a code creates exactly the one session its
\* consumption is recorded with.
THEOREM SignsInOnce == MCSpec => []OneSessionPerCode
<1>1. CodesInv => OneSessionPerCode
  BY DEF CodesInv, IInv, OneSessionPerCode
<1>2. QED BY <1>1, CodesInvariant, PTL

\* No code is consumed past its limit of wrong attempts.
THEOREM WithinLimit == MCSpec => []ConsumedWithinLimit
<1>1. CodesInv => ConsumedWithinLimit
  BY DEF CodesInv, IInv, ConsumedWithinLimit
<1>2. QED BY <1>1, CodesInvariant, PTL

\* Once a newer code is on record, what was on record when it was asked for is
\* not live.
THEOREM NewerWins == MCSpec => []NewerCodeWins
<1>1. CodesInv => NewerCodeWins
  BY DEF CodesInv, IInv, BeforeInv, NewerCodeWins, C!NewerCodeWins
<1>2. QED BY <1>1, CodesInvariant, PTL
-----------------------------------------------------------------------------
(* The sessions. *)

\* A request names what it works on; what it is told of a session that was over
\* when it came it is told again by one of the rows it has still to read; and
\* past the session's row it came within the idle lifetime of the last use.
RequestSound(r) ==
    /\ req[r].pc \in {"find", "account", "touch", "reject", "confirm"} =>
          /\ req[r].session \in SessionIds
          /\ session[req[r].session].st # "none"
          /\ req[r].account = session[req[r].session].account
    /\ req[r].pc \in {"presented", "insert", "revoke"} => req[r].account \in Accounts
    /\ req[r].pc = "find" /\ over[r] =>
          \/ ~Live(req[r].session)
          \/ account[req[r].account].disabled
          \/ PastAbsolute(req[r].session, req[r].at)
    /\ req[r].pc = "account" /\ over[r] => account[req[r].account].disabled
    /\ req[r].pc = "touch" => ~over[r]
    /\ req[r].pc \in {"account", "touch"} => req[r].at < lastUse[req[r].session] + IdleLife

\* A session is of an account, and its touches are uses of it.
SessionSound(s) ==
    session[s].st # "none" => session[s].account \in Accounts /\ session[s].seen <= lastUse[s]

Revoking(a) == \E r \in Requests : req[r].pc = "revoke" /\ req[r].account = a
Ending(s) == \E r \in Requests : req[r].pc \in {"confirm", "reject"} /\ req[r].session = s

\* What keeps a live session on an account that has changed: a request that is
\* about to end it, or one that died before it could.  A sign-in looks at its
\* account once more, but not at the role: of that only the change itself
\* takes care.
Stands(s) ==
    Live(s) =>
        /\ account[session[s].account].disabled =>
              session[s].account \in cut \/ Revoking(session[s].account) \/ Ending(s)
        /\ account[session[s].account].role # session[s].role =>
              session[s].account \in cut \/ Revoking(session[s].account)

Inv ==
    /\ TypeOK
    /\ \A r \in Requests : RequestSound(r)
    /\ \A s \in SessionIds : SessionSound(s) /\ Stands(s)

-----------------------------------------------------------------------------
\* A step of one request: rows of sessions and accounts only get older.
LEMMA RequestStep ==
    ASSUME Inv, NEW r \in Requests, NEW row \in RequestRow,
           req' = [req EXCEPT ![r] = row], TypeOK',
           \A q \in Requests \ {r} : over'[q] = over[q],
           \A a \in Accounts : account[a].disabled => account'[a].disabled,
           \A s \in SessionIds : session[s].st # "none" =>
               /\ session'[s].st # "none"
               /\ session'[s].account = session[s].account
               /\ session'[s].created = session[s].created
               /\ session'[s].st = "live" => session[s].st = "live"
               /\ lastUse[s] <= lastUse'[s],
           RequestSound(r)',
           \A s \in SessionIds : SessionSound(s)' /\ Stands(s)'
    PROVE  Inv'
<1>1. ASSUME NEW q \in Requests \ {r} PROVE RequestSound(q)'
  <2> DEFINE s == req[q].session
  <2>1. req'[q] = req[q] /\ over'[q] = over[q] /\ req[q] \in RequestRow /\ req[q].at \in Nat
    BY DEF Inv, TypeOK, RequestRow
  <2>2. RequestSound(q)
    BY DEF Inv
  <2>3. CASE req[q].pc \in {"find", "account", "touch", "reject", "confirm"}
    <3>1. /\ s \in SessionIds /\ session[s].st # "none" /\ req[q].account = session[s].account
          /\ req[q].account \in Accounts
      BY <2>2, <2>3 DEF RequestSound, Inv, SessionSound
    <3>2. /\ session'[s].st # "none" /\ session'[s].account = session[s].account
          /\ session'[s].created = session[s].created
          /\ session'[s].st = "live" => session[s].st = "live"
          /\ lastUse[s] \in Nat /\ lastUse'[s] \in Nat /\ lastUse[s] <= lastUse'[s]
          /\ account[req[q].account].disabled => account'[req[q].account].disabled
      BY <3>1 DEF Inv, TypeOK
    <3>3. /\ req[q].pc = "find" /\ over[q] =>
                \/ ~Live(s)'
                \/ account'[req[q].account].disabled
                \/ PastAbsolute(s, req[q].at)'
      BY <2>2, <3>2 DEF RequestSound, Live, PastAbsolute
    <3>4. req[q].pc \in {"account", "touch"} => req[q].at < lastUse'[s] + IdleLife
      <4>1. req[q].pc \in {"account", "touch"} => req[q].at < lastUse[s] + IdleLife
        BY <2>2 DEF RequestSound
      <4>2. IdleLife \in Nat
        BY SessionsAssumption
      <4>3. QED BY ONLY <2>1, <3>2, <4>1, <4>2
    <3>5. QED BY <2>1, <2>2, <2>3, <3>1, <3>2, <3>3, <3>4 DEF RequestSound, Live, PastAbsolute
  <2>4. CASE req[q].pc \notin {"find", "account", "touch", "reject", "confirm"}
    BY <2>1, <2>2, <2>4 DEF RequestSound
  <2>5. QED BY <2>3, <2>4
<1>2. QED BY <1>1 DEF Inv

\* What a request was about to end is ended, or somebody else is about to.
LEMMA StandsKept ==
    ASSUME Inv, NEW r \in Requests, NEW s \in SessionIds,
           \A q \in Requests \ {r} : req'[q] = req[q],
           \A a \in Accounts : (account'[a].disabled => account[a].disabled)
                               /\ account'[a].role = account[a].role,
           cut \subseteq cut',
           session'[s].st = "live" =>
               /\ session[s].st = "live" /\ session'[s].account = session[s].account
               /\ session'[s].role = session[s].role
               /\ req[r].pc = "revoke" /\ req[r].account = session[s].account =>
                     session[s].account \in cut'
               /\ req[r].pc \in {"confirm", "reject"} /\ req[r].session = s =>
                     \/ ~account[session[s].account].disabled
                     \/ session[s].account \in cut'
                     \/ Ending(s)'
    PROVE  Stands(s)'
<1> SUFFICES ASSUME session'[s].st = "live" PROVE Stands(s)'
  BY DEF Stands, Live
<1>1. Stands(s) /\ session[s].account \in Accounts
  BY DEF Inv, SessionSound
<1>2. Revoking(session[s].account) => Revoking(session[s].account)' \/ session[s].account \in cut'
  BY DEF Revoking
<1>3. Ending(s) => \/ Ending(s)'
                   \/ ~account[session[s].account].disabled
                   \/ session[s].account \in cut'
  BY DEF Ending
<1>4. QED BY <1>1, <1>2, <1>3 DEF Stands, Live, Revoking

LEMMA RevokedIs ==
    ASSUME Inv, NEW S
    PROVE  /\ Revoked(S) \in [SessionIds -> SessionRow]
           /\ \A s \in SessionIds :
                 /\ Revoked(S)[s].account = session[s].account
                 /\ Revoked(S)[s].created = session[s].created
                 /\ Revoked(S)[s].seen = session[s].seen
                 /\ Revoked(S)[s].role = session[s].role
                 /\ session[s].st # "none" => Revoked(S)[s].st # "none"
                 /\ Revoked(S)[s].st = "live" => session[s].st = "live" /\ s \notin S
                 /\ session[s].st = "none" => Revoked(S)[s].st = "none"
<1>1. ASSUME NEW s \in SessionIds
      PROVE  /\ Revoked(S)[s] \in SessionRow
             /\ Revoked(S)[s].account = session[s].account
             /\ Revoked(S)[s].created = session[s].created
             /\ Revoked(S)[s].seen = session[s].seen
             /\ Revoked(S)[s].role = session[s].role
             /\ session[s].st # "none" => Revoked(S)[s].st # "none"
             /\ Revoked(S)[s].st = "live" => session[s].st = "live" /\ s \notin S
             /\ session[s].st = "none" => Revoked(S)[s].st = "none"
  <2>1. session[s] \in SessionRow
    BY DEF Inv, TypeOK
  <2>2. CASE s \in S /\ Live(s)
    <3>1. Revoked(S)[s] = [session[s] EXCEPT !.st = "revoked"]
      BY <2>2 DEF Revoked
    <3>2. QED BY <2>1, <2>2, <3>1 DEF SessionRow, Live
  <2>3. CASE ~(s \in S /\ Live(s))
    <3>1. Revoked(S)[s] = session[s]
      BY <2>3 DEF Revoked
    <3>2. QED BY <2>1, <2>3, <3>1 DEF SessionRow, Live
  <2>4. QED BY <2>2, <2>3
<1>2. DOMAIN Revoked(S) = SessionIds /\ Revoked(S) = [s \in SessionIds |-> Revoked(S)[s]]
  BY DEF Revoked
<1>3. QED BY <1>1, <1>2

\* What a request was to do of a session it has done, or leaves to another.
LetGo(r, s) ==
    session'[s].st = "live" =>
        /\ req[r].pc = "revoke" /\ req[r].account = session[s].account =>
              session[s].account \in cut'
        /\ req[r].pc \in {"confirm", "reject"} /\ req[r].session = s =>
              \/ ~account[session[s].account].disabled
              \/ session[s].account \in cut'
              \/ Ending(s)'

\* Sessions end and nothing else becomes of them.
OnlyEnds ==
    /\ session' \in [SessionIds -> SessionRow]
    /\ \A s \in SessionIds :
          /\ session'[s].account = session[s].account
          /\ session'[s].created = session[s].created
          /\ session'[s].seen = session[s].seen
          /\ session'[s].role = session[s].role
          /\ session[s].st # "none" => session'[s].st # "none"
          /\ session'[s].st = "live" => session[s].st = "live"
          /\ session[s].st = "none" => session'[s].st = "none"

LEMMA RevokedEnds ==
    ASSUME Inv, NEW S, session' \in {session, Revoked(S)}
    PROVE  OnlyEnds
<1>1. CASE session' = session
  BY <1>1 DEF Inv, TypeOK, OnlyEnds
<1>2. CASE session' = Revoked(S)
  BY <1>2, RevokedIs DEF OnlyEnds
<1>3. QED BY <1>1, <1>2

\* A step of one request that at most ends sessions.
LEMMA QuietStep ==
    ASSUME Inv, NEW r \in Requests, NEW row \in RequestRow,
           req' = [req EXCEPT ![r] = row],
           UNCHANGED <<now, account, changes, lastUse, over>>,
           cut \subseteq cut', cut' \subseteq Accounts,
           OnlyEnds, RequestSound(r)', \A s \in SessionIds : LetGo(r, s)
    PROVE  Inv'
<1>1. /\ session' \in [SessionIds -> SessionRow]
      /\ \A s \in SessionIds :
            /\ session'[s].account = session[s].account
            /\ session'[s].created = session[s].created
            /\ session'[s].seen = session[s].seen
            /\ session'[s].role = session[s].role
            /\ session[s].st # "none" => session'[s].st # "none"
            /\ session'[s].st = "live" => session[s].st = "live"
            /\ session[s].st = "none" => session'[s].st = "none"
  BY DEF OnlyEnds
<1>2. TypeOK'
  BY <1>1 DEF Inv, TypeOK
<1>3. ASSUME NEW s \in SessionIds PROVE SessionSound(s)' /\ Stands(s)'
  <2>1. SessionSound(s)'
    BY <1>1 DEF Inv, SessionSound
  <2>2. \A q \in Requests \ {r} : req'[q] = req[q]
    BY DEF Inv, TypeOK
  <2>3. Stands(s)'
    BY <1>1, <2>2, StandsKept DEF LetGo
  <2>4. QED BY <2>1, <2>3
<1>4. \A s \in SessionIds : lastUse[s] <= lastUse'[s]
  BY DEF Inv, TypeOK
<1>5. QED BY <1>1, <1>2, <1>3, <1>4, RequestStep

-----------------------------------------------------------------------------
LEMMA Typed ==
    ASSUME Inv, NEW r \in Requests
    PROVE  /\ req[r] \in RequestRow /\ Idle \in RequestRow /\ RequestSound(r)
           /\ req[r].at \in Nat /\ req[r].seen \in Nat /\ req \in [Requests -> RequestRow]
           /\ cut \subseteq Accounts /\ now \in Nat
BY DEF Inv, TypeOK, RequestRow, Idle

\* A request that is done, and has no session or account to see to any more.
LEMMA DoneStep ==
    ASSUME Inv, NEW r \in Requests, Done(r), UNCHANGED <<now, account, changes, history>>,
           NEW S, session' \in {session, Revoked(S)},
           req[r].pc = "revoke" => \A s \in OwnedBy(req[r].account) : session'[s].st # "live",
           req[r].pc \in {"confirm", "reject"} =>
               \/ session'[req[r].session].st # "live"
               \/ ~account[req[r].account].disabled
    PROVE  Inv'
<1>1. req' = [req EXCEPT ![r] = Idle] /\ Idle.pc = "idle"
  BY DEF Done, Idle
<1>2. req'[r].pc = "idle"
  BY <1>1, Typed
<1>3. RequestSound(r)'
  BY <1>2 DEF RequestSound
<1>4. UNCHANGED <<now, account, changes, lastUse, over>> /\ cut' = cut
  BY DEF history
<1>5. ASSUME NEW s \in SessionIds, session'[s].st = "live"
      PROVE  /\ req[r].pc = "revoke" => req[r].account # session[s].account
             /\ req[r].pc \in {"confirm", "reject"} /\ req[r].session = s =>
                   ~account[session[s].account].disabled
  BY <1>5, Typed DEF OwnedBy, RequestSound
<1>6. \A s \in SessionIds : LetGo(r, s)
  BY <1>5 DEF LetGo
<1>7. Idle \in RequestRow /\ cut \subseteq cut' /\ cut' \subseteq Accounts
  BY <1>4, Typed
<1>8. OnlyEnds
  BY RevokedEnds
<1>9. QED BY <1>1, <1>3, <1>4, <1>6, <1>7, <1>8, QuietStep

LEMMA EndStep ==
    ASSUME Inv, NEW r \in Requests,
           Reject(r) \/ Serve(r) \/ Logout(r) \/ RevokeAll(r)
           \/ (\E b \in Accounts : RevokeSessions(r, b))
    PROVE  Inv'
<1>1. CASE Reject(r)
  <2>1. req[r].pc = "reject" /\ Done(r) /\ session' = Revoked({req[r].session})
        /\ UNCHANGED <<now, account, changes, history>>
    BY <1>1 DEF Reject
  <2>2. req[r].session \in SessionIds
    BY <2>1, Typed DEF RequestSound
  <2>3. session'[req[r].session].st # "live"
    BY <2>1, <2>2, RevokedIs
  <2>4. QED BY <2>1, <2>3, DoneStep
<1>2. CASE Serve(r)
  <2>1. req[r].pc \in {"granted", "failed"} /\ Done(r) /\ session' = session
        /\ UNCHANGED <<now, account, changes, history>>
    BY <1>2 DEF Serve
  <2>2. QED BY <2>1, DoneStep
<1>3. CASE Logout(r)
  <2>1. req[r].pc = "granted" /\ Done(r) /\ session' = Revoked({req[r].session})
        /\ UNCHANGED <<now, account, changes, history>>
    BY <1>3 DEF Logout
  <2>2. QED BY <2>1, DoneStep
<1>4. CASE RevokeAll(r)
  <2>1. req[r].pc = "revoke" /\ Done(r) /\ session' = Revoked(OwnedBy(req[r].account))
        /\ UNCHANGED <<now, account, changes, history>>
    BY <1>4 DEF RevokeAll
  <2>2. \A s \in OwnedBy(req[r].account) : session'[s].st # "live"
    BY <2>1, RevokedIs DEF OwnedBy
  <2>3. QED BY <2>1, <2>2, DoneStep
<1>5. ASSUME NEW b \in Accounts, RevokeSessions(r, b) PROVE Inv'
  <2>1. req[r].pc = "granted" /\ Done(r) /\ session' = Revoked(OwnedBy(b) \ {req[r].session})
        /\ UNCHANGED <<now, account, changes, history>>
    BY <1>5 DEF RevokeSessions, IsAdministrator
  <2>2. QED BY <2>1, DoneStep
<1>6. QED BY <1>1, <1>2, <1>3, <1>4, <1>5

LEMMA ArriveStep ==
    ASSUME Inv, NEW r \in Requests, NEW s \in SessionIds, Arrive(r, s)
    PROVE  Inv'
<1> DEFINE row == [Idle EXCEPT !.pc = "find", !.at = now, !.session = s,
                               !.account = session[s].account]
<1>1. req[r].pc = "idle" /\ session[s].st # "none" /\ req' = [req EXCEPT ![r] = row]
      /\ over' = [over EXCEPT ![r] = Over(s)]
      /\ UNCHANGED <<now, account, session, changes, lastUse, cut>>
  BY DEF Arrive
<1>2. session[s].account \in Accounts /\ session[s] \in SessionRow
  BY <1>1 DEF Inv, SessionSound, TypeOK
<1>3. row \in RequestRow /\ row.pc = "find" /\ row.session = s /\ row.at = now
      /\ row.account = session[s].account
  BY <1>2, Typed DEF Idle, RequestRow
<1> HIDE DEF row
<1>4. Over(s) \in BOOLEAN
  BY <1>2 DEF Over, Live, PastAbsolute, Inv, TypeOK, AccountRow
<1>5. over' \in [Requests -> BOOLEAN] /\ over'[r] = Over(s)
      /\ \A q \in Requests \ {r} : over'[q] = over[q]
  BY <1>1, <1>4 DEF Inv, TypeOK
<1>6. TypeOK'
  BY <1>1, <1>3, <1>5, Typed DEF Inv, TypeOK
<1>7. req'[r] = row /\ \A q \in Requests \ {r} : req'[q] = req[q]
  BY <1>1, Typed
<1>8. RequestSound(r)'
  BY <1>1, <1>2, <1>3, <1>5, <1>7 DEF RequestSound, Over, Live, PastAbsolute
<1>9. ASSUME NEW t \in SessionIds PROVE SessionSound(t)' /\ Stands(t)'
  <2>1. SessionSound(t)'
    BY <1>1 DEF Inv, SessionSound
  <2>2. Stands(t)'
    BY <1>1, <1>7, StandsKept
  <2>3. QED BY <2>1, <2>2
<1>10. \A t \in SessionIds : lastUse[t] <= lastUse'[t]
  BY <1>1 DEF Inv, TypeOK
<1>11. QED BY <1>1, <1>3, <1>5, <1>6, <1>8, <1>9, <1>10, RequestStep

LEMMA ReadStep ==
    ASSUME Inv, NEW r \in Requests, Find(r) \/ ReadAccount(r)
    PROVE  Inv'
<1> DEFINE s == req[r].session
<1>1. CASE Find(r)
  <2>1. req[r].pc = "find" /\ UNCHANGED <<now, account, session, changes, lastUse, over, cut>>
    BY <1>1 DEF Find, history
  <2>2. /\ s \in SessionIds /\ session[s].st # "none" /\ req[r].account = session[s].account
        /\ session[s].seen \in Nat /\ lastUse[s] \in Nat /\ session[s].seen <= lastUse[s]
    BY <2>1, Typed DEF RequestSound, Inv, TypeOK, SessionRow, SessionSound
  <2>3. CASE ~Live(s)
    <3>1. Done(r) /\ UNCHANGED history /\ session' \in {session, Revoked({})}
      BY <1>1, <2>1, <2>3 DEF Find
    <3>2. QED BY <2>1, <3>1, DoneStep
  <2>4. CASE Live(s)
    <3> DEFINE next == IF PastAbsolute(s, req[r].at) \/ PastIdle(session[s].seen, req[r].at)
                       THEN "reject" ELSE "account"
               row == [req[r] EXCEPT !.seen = session[s].seen, !.pc = next]
    <3>1. req' = [req EXCEPT ![r] = row]
      <4>1. req' = [req EXCEPT ![r].seen = session[s].seen, ![r].pc = next]
        BY <1>1, <2>4 DEF Find
      <4>2. QED BY <4>1, Typed DEF RequestRow
    <3>2. /\ next \in {"reject", "account"}
          /\ next = "account" => ~PastAbsolute(s, req[r].at) /\ ~PastIdle(session[s].seen, req[r].at)
      OBVIOUS
    <3> HIDE DEF next
    <3>3. row \in RequestRow /\ row.pc = next /\ row.session = s /\ row.at = req[r].at
          /\ row.account = req[r].account
      BY <2>2, <3>2, Typed DEF RequestRow
    <3> HIDE DEF row
    <3>4. next = "account" => req[r].at < lastUse[s] + IdleLife
      <4>1. IdleLife \in Nat /\ req[r].at \in Nat
        BY Typed, SessionsAssumption
      <4>2. next = "account" => ~(session[s].seen + IdleLife <= req[r].at)
        BY <3>2 DEF PastIdle
      <4>3. QED BY ONLY <2>2, <4>1, <4>2
    <3>5. next = "account" /\ over[r] => account[req[r].account].disabled
      BY <2>1, <2>4, <3>2, Typed DEF RequestSound
    <3>6. req'[r] = row
      BY <3>1, Typed
    <3>7. RequestSound(r)'
      BY <2>1, <2>2, <3>2, <3>3, <3>4, <3>5, <3>6 DEF RequestSound, Live, PastAbsolute
    <3>8. cut \subseteq cut' /\ cut' \subseteq Accounts /\ OnlyEnds
      BY <2>1, Typed, RevokedEnds
    <3>9. \A t \in SessionIds : LetGo(r, t)
      BY <2>1 DEF LetGo
    <3>10. QED BY <2>1, <3>1, <3>3, <3>7, <3>8, <3>9, QuietStep
  <2>5. QED BY <2>3, <2>4
<1>2. CASE ReadAccount(r)
  <2> DEFINE stale == req[r].at - req[r].seen >= TouchInterval
             next == IF ~Passes(req[r].account, req[r].at) THEN "reject"
                     ELSE IF stale THEN "touch" ELSE "granted"
             row == [req[r] EXCEPT !.pc = next, !.role = account[req[r].account].role]
  <2>1. req[r].pc = "account" /\ UNCHANGED <<now, account, session, changes, over, cut>>
    BY <1>2 DEF ReadAccount
  <2>2. /\ s \in SessionIds /\ session[s].st # "none" /\ req[r].account = session[s].account
        /\ req[r].account \in Accounts /\ account[req[r].account] \in AccountRow
    BY <2>1, Typed DEF RequestSound, Inv, TypeOK, SessionSound
  <2>3. req' = [req EXCEPT ![r] = row]
    <3>1. req' = [req EXCEPT ![r].pc = next, ![r].role = account[req[r].account].role]
      BY <1>2 DEF ReadAccount
    <3>2. QED BY <3>1, Typed DEF RequestRow
  <2>4. IF next = "granted" THEN Used(r) ELSE UNCHANGED lastUse
    BY <1>2 DEF ReadAccount
  <2>5. /\ next \in {"reject", "touch", "granted"}
        /\ next # "reject" => ~account[req[r].account].disabled
    BY DEF Passes
  <2> HIDE DEF next
  <2>6. row \in RequestRow /\ row.pc = next /\ row.session = s /\ row.at = req[r].at
        /\ row.account = req[r].account
    BY <2>2, <2>5, Typed DEF RequestRow, AccountRow
  <2> HIDE DEF row
  <2>7. lastUse' \in [SessionIds -> Nat] /\ \A t \in SessionIds : lastUse[t] <= lastUse'[t]
    <3>1. lastUse \in [SessionIds -> Nat] /\ req[r].at \in Nat
      BY Typed DEF Inv, TypeOK
    <3>2. CASE next = "granted"
      <4>1. lastUse' = [lastUse EXCEPT ![s] = IF req[r].at > @ THEN req[r].at ELSE @]
        BY <2>4, <3>2 DEF Used
      <4>2. QED BY ONLY <2>2, <3>1, <4>1
    <3>3. CASE next # "granted"
      BY <2>4, <3>1, <3>3
    <3>4. QED BY <3>2, <3>3
  <2>8. req'[r] = row /\ \A q \in Requests \ {r} : req'[q] = req[q]
    BY <2>3, Typed
  <2>9. TypeOK'
    BY <2>1, <2>3, <2>6, <2>7 DEF Inv, TypeOK
  <2>10. RequestSound(r)'
    <3>1. next = "touch" => lastUse'[s] = lastUse[s]
      BY <2>4
    <3>2. RequestSound(r)
      BY Typed
    <3>3. QED BY <2>1, <2>2, <2>5, <2>6, <2>8, <3>1, <3>2 DEF RequestSound
  <2>11. ASSUME NEW t \in SessionIds PROVE SessionSound(t)' /\ Stands(t)'
    <3>1. SessionSound(t)'
      <4>1. session[t].st # "none" => /\ session[t].account \in Accounts
                                      /\ session[t].seen <= lastUse[t] /\ session[t].seen \in Nat
        BY DEF Inv, SessionSound, TypeOK, SessionRow
      <4>2. lastUse[t] \in Nat /\ lastUse'[t] \in Nat /\ lastUse[t] <= lastUse'[t]
        BY <2>7 DEF Inv, TypeOK
      <4>3. QED BY <2>1, <4>1, <4>2 DEF SessionSound
    <3>2. Stands(t)'
      BY <2>1, <2>8, StandsKept
    <3>3. QED BY <3>1, <3>2
  <2>12. QED BY <2>1, <2>3, <2>6, <2>7, <2>9, <2>10, <2>11, RequestStep
<1>3. QED BY <1>1, <1>2

LEMMA TouchStep ==
    ASSUME Inv, NEW r \in Requests, Touch(r)
    PROVE  Inv'
<1> DEFINE s == req[r].session
<1>1. req[r].pc = "touch" /\ UNCHANGED <<now, account, changes, over, cut>>
  BY DEF Touch
<1>2. /\ s \in SessionIds /\ session[s].st # "none" /\ session[s] \in SessionRow
      /\ req[r].at \in Nat /\ lastUse \in [SessionIds -> Nat]
      /\ session \in [SessionIds -> SessionRow]
  BY <1>1, Typed DEF RequestSound, Inv, TypeOK
<1>3. CASE /\ session' = session /\ lastUse' = lastUse
           /\ req' = [req EXCEPT ![r].pc = "failed"]
  <2> DEFINE row == [req[r] EXCEPT !.pc = "failed"]
  <2>1. req' = [req EXCEPT ![r] = row]
    BY <1>3, Typed DEF RequestRow
  <2>2. row \in RequestRow /\ row.pc = "failed"
    BY Typed DEF RequestRow
  <2> HIDE DEF row
  <2>3. req'[r] = row
    BY <2>1, Typed
  <2>4. RequestSound(r)'
    BY <2>2, <2>3 DEF RequestSound
  <2>5. \A t \in SessionIds : LetGo(r, t)
    BY <1>1 DEF LetGo
  <2>6. OnlyEnds /\ cut \subseteq cut' /\ cut' \subseteq Accounts
    BY <1>1, <1>3, Typed, RevokedEnds
  <2>7. UNCHANGED <<now, account, changes, lastUse, over>>
    BY <1>1, <1>3
  <2>8. QED BY <2>1, <2>2, <2>4, <2>5, <2>6, <2>7, QuietStep
<1>4. CASE /\ session' = [session EXCEPT ![s].seen = req[r].at]
           /\ req' = [req EXCEPT ![r].pc = "granted"] /\ Used(r)
  <2> DEFINE row == [req[r] EXCEPT !.pc = "granted"]
  <2>1. req' = [req EXCEPT ![r] = row]
    BY <1>4, Typed DEF RequestRow
  <2>2. row \in RequestRow /\ row.pc = "granted"
    BY Typed DEF RequestRow
  <2> HIDE DEF row
  <2>3. req'[r] = row /\ \A q \in Requests \ {r} : req'[q] = req[q]
    BY <2>1, Typed
  <2>4. RequestSound(r)'
    BY <2>2, <2>3 DEF RequestSound
  <2>5. /\ lastUse' \in [SessionIds -> Nat] /\ req[r].at <= lastUse'[s]
        /\ \A t \in SessionIds : lastUse[t] <= lastUse'[t]
    <3>1. lastUse' = [lastUse EXCEPT ![s] = IF req[r].at > @ THEN req[r].at ELSE @]
      BY <1>4 DEF Used
    <3>2. QED BY ONLY <1>2, <3>1
  <2>6. /\ session' \in [SessionIds -> SessionRow]
        /\ session'[s].seen = req[r].at
        /\ \A t \in SessionIds :
              /\ session'[t].account = session[t].account
              /\ session'[t].created = session[t].created
              /\ session'[t].role = session[t].role
              /\ session'[t].st = session[t].st
              /\ t # s => session'[t] = session[t]
    <3> DEFINE new == [session[s] EXCEPT !.seen = req[r].at]
    <3>1. session' = [session EXCEPT ![s] = new]
      BY <1>2, <1>4
    <3>2. new \in SessionRow /\ new.seen = req[r].at /\ new.account = session[s].account
          /\ new.created = session[s].created /\ new.role = session[s].role
          /\ new.st = session[s].st
      BY <1>2 DEF SessionRow
    <3> HIDE DEF new
    <3>3. QED BY <1>2, <3>1, <3>2
  <2>7. TypeOK'
    BY <1>1, <2>1, <2>2, <2>5, <2>6, Typed DEF Inv, TypeOK
  <2>8. ASSUME NEW t \in SessionIds PROVE SessionSound(t)' /\ Stands(t)'
    <3>1. SessionSound(t)'
      <4>1. session[t].st # "none" => /\ session[t].account \in Accounts
                                      /\ session[t].seen <= lastUse[t] /\ session[t].seen \in Nat
        BY DEF Inv, SessionSound, TypeOK, SessionRow
      <4>2. lastUse[t] \in Nat /\ lastUse'[t] \in Nat /\ lastUse[t] <= lastUse'[t]
        BY <2>5 DEF Inv, TypeOK
      <4>3. CASE t = s
        BY <2>5, <2>6, <4>1, <4>3 DEF SessionSound
      <4>4. CASE t # s
        BY <2>6, <4>1, <4>2, <4>4 DEF SessionSound
      <4>5. QED BY <4>3, <4>4
    <3>2. Stands(t)'
      BY <1>1, <2>3, <2>6, StandsKept
    <3>3. QED BY <3>1, <3>2
  <2>9. QED BY <1>1, <2>1, <2>2, <2>4, <2>5, <2>6, <2>7, <2>8, RequestStep
<1>5. QED BY <1>3, <1>4 DEF Touch

\* The change of an account, and a request that knows what it has to end.
LEMMA ChangeStep ==
    ASSUME Inv, NEW r \in Requests, NEW b \in Accounts, NEW row \in AccountRow,
           Change(r, b, row), req[r].pc = "granted", UNCHANGED <<now, history>>,
           account[b].disabled => row.disabled
    PROVE  Inv'
<1> DEFINE new == [req[r] EXCEPT !.pc = "revoke", !.account = b, !.session = NoOne]
<1>1. /\ account' = [account EXCEPT ![b] = row] /\ session' = session /\ changes' = changes + 1
      /\ UNCHANGED <<now, lastUse, over, cut>>
  BY DEF Change, history
<1>2. req' = [req EXCEPT ![r] = new]
  <2>1. req' = [req EXCEPT ![r].pc = "revoke", ![r].account = b, ![r].session = NoOne]
    BY DEF Change
  <2>2. QED BY <2>1, Typed DEF RequestRow
<1>3. new \in RequestRow /\ new.pc = "revoke" /\ new.account = b
  BY Typed DEF RequestRow
<1> HIDE DEF new
<1>4. req'[r] = new /\ \A q \in Requests \ {r} : req'[q] = req[q]
  BY <1>2, Typed
<1>5. account' \in [Accounts -> AccountRow] /\ account'[b] = row
      /\ \A a \in Accounts \ {b} : account'[a] = account[a]
  BY <1>1 DEF Inv, TypeOK
<1>6. TypeOK'
  BY <1>1, <1>2, <1>3, <1>5, Typed DEF Inv, TypeOK
<1>7. RequestSound(r)'
  BY <1>3, <1>4 DEF RequestSound
<1>8. ASSUME NEW s \in SessionIds PROVE SessionSound(s)' /\ Stands(s)'
  <2>1. SessionSound(s)'
    BY <1>1 DEF Inv, SessionSound
  <2>2. CASE session[s].account = b
    <3>1. Revoking(b)'
      BY <1>3, <1>4 DEF Revoking
    <3>2. QED BY <1>1, <2>1, <2>2, <3>1 DEF Stands
  <2>3. CASE session[s].account # b /\ Live(s)
    <3>1. session[s].account \in Accounts \ {b} /\ Stands(s)
      BY <2>3 DEF Inv, SessionSound, Live
    <3>2. \A a \in Accounts : Revoking(a) => Revoking(a)'
      BY <1>3, <1>4 DEF Revoking
    <3>3. Ending(s) => Ending(s)'
      BY <1>4 DEF Ending
    <3>4. account'[session[s].account] = account[session[s].account]
      BY <1>5, <3>1
    <3>5. QED BY <1>1, <2>1, <2>3, <3>1, <3>2, <3>3, <3>4 DEF Stands, Live, Revoking
  <2>4. CASE ~Live(s)
    BY <1>1, <2>1, <2>4 DEF Stands, Live
  <2>5. QED BY <2>2, <2>3, <2>4
<1>9. \A a \in Accounts : account[a].disabled => account'[a].disabled
  BY <1>5
<1>10. \A s \in SessionIds : lastUse[s] <= lastUse'[s]
  BY <1>1 DEF Inv, TypeOK
<1>11. QED BY <1>1, <1>2, <1>3, <1>6, <1>7, <1>8, <1>9, <1>10, RequestStep

LEMMA AdministerStep ==
    ASSUME Inv, NEW r \in Requests, NEW b \in Accounts,
           \/ Disable(r, b)
           \/ (\E role \in Roles, e \in Expiries \cup {Never} : AssignRole(r, b, role, e))
           \/ (\E e \in Expiries \cup {Never} : SetExpiry(r, b, e))
    PROVE  Inv'
<1>1. account[b] \in AccountRow /\ account \in [Accounts -> AccountRow]
  BY DEF Inv, TypeOK
<1>2. CASE Disable(r, b)
  <2> DEFINE row == [account[b] EXCEPT !.disabled = TRUE]
  <2>1. row \in AccountRow /\ row.disabled
    BY <1>1 DEF AccountRow
  <2>2. Change(r, b, row) /\ req[r].pc = "granted" /\ UNCHANGED <<now, history>>
    BY <1>2 DEF Disable, IsAdministrator
  <2> HIDE DEF row
  <2>3. QED BY <2>1, <2>2, ChangeStep
<1>3. ASSUME NEW role \in Roles, NEW e \in Expiries \cup {Never}, AssignRole(r, b, role, e)
      PROVE  Inv'
  <2> DEFINE row == [account[b] EXCEPT !.role = role, !.expires = e]
  <2>1. row \in AccountRow /\ row.disabled = account[b].disabled
    BY <1>1 DEF AccountRow
  <2>2. Change(r, b, row) /\ req[r].pc = "granted" /\ UNCHANGED <<now, history>>
    BY <1>3 DEF AssignRole, IsAdministrator
  <2> HIDE DEF row
  <2>3. QED BY <2>1, <2>2, ChangeStep
<1>4. ASSUME NEW e \in Expiries \cup {Never}, SetExpiry(r, b, e)
      PROVE  Inv'
  <2> DEFINE row == [account[b] EXCEPT !.expires = e]
  <2>1. row \in AccountRow /\ row.disabled = account[b].disabled /\ row.role = account[b].role
    BY <1>1 DEF AccountRow
  <2>2. /\ account' = [account EXCEPT ![b] = row] /\ changes' = changes + 1 /\ Done(r)
        /\ req[r].pc = "granted" /\ UNCHANGED <<now, session, lastUse, over, cut>>
    BY <1>4, <1>1 DEF SetExpiry, IsAdministrator, history
  <2> HIDE DEF row
  <2>3. account' \in [Accounts -> AccountRow]
        /\ \A a \in Accounts : /\ account'[a].disabled = account[a].disabled
                               /\ account'[a].role = account[a].role
    BY <1>1, <2>1, <2>2
  <2>4. req' = [req EXCEPT ![r] = Idle] /\ Idle.pc = "idle" /\ Idle \in RequestRow
    BY <2>2, Typed DEF Done, Idle
  <2>5. req'[r].pc = "idle" /\ \A q \in Requests \ {r} : req'[q] = req[q]
    BY <2>4, Typed
  <2>6. TypeOK'
    BY <2>2, <2>3, <2>4, Typed DEF Inv, TypeOK
  <2>7. RequestSound(r)'
    BY <2>5 DEF RequestSound
  <2>8. ASSUME NEW s \in SessionIds PROVE SessionSound(s)' /\ Stands(s)'
    <3>1. SessionSound(s)'
      BY <2>2 DEF Inv, SessionSound
    <3>2. Stands(s)'
      BY <2>2, <2>3, <2>5, StandsKept
    <3>3. QED BY <3>1, <3>2
  <2>9. \A s \in SessionIds : lastUse[s] <= lastUse'[s]
    BY <2>2 DEF Inv, TypeOK
  <2>10. QED BY <2>2, <2>3, <2>4, <2>6, <2>7, <2>8, <2>9, RequestStep
<1>5. QED BY <1>2, <1>3, <1>4

LEMMA InsertStep ==
    ASSUME Inv, NEW r \in Requests, Insert(r)
    PROVE  Inv'
<1>1. /\ req[r].pc = "insert" /\ UNCHANGED <<now, account, changes, over, cut>>
      /\ req[r].account \in Accounts
  BY Typed DEF Insert, RequestSound
<1>2. CASE Done(r) /\ UNCHANGED <<session, lastUse>>
  <2>1. UNCHANGED <<now, account, changes, history>> /\ session' \in {session, Revoked({})}
    BY <1>1, <1>2 DEF history
  <2>2. QED BY <1>1, <1>2, <2>1, DoneStep
<1>3. ASSUME NEW s \in SessionIds, session[s].st = "none",
             session' = [session EXCEPT ![s] =
                 [account |-> req[r].account, created |-> req[r].at, seen |-> req[r].at,
                  st |-> "live", role |-> account[req[r].account].role]],
             lastUse' = [lastUse EXCEPT ![s] = req[r].at],
             req' = [req EXCEPT ![r].pc = "confirm", ![r].session = s]
      PROVE  Inv'
  <2> DEFINE row == [req[r] EXCEPT !.pc = "confirm", !.session = s]
             new == [account |-> req[r].account, created |-> req[r].at, seen |-> req[r].at,
                     st |-> "live", role |-> account[req[r].account].role]
             a == req[r].account
  <2>1. req' = [req EXCEPT ![r] = row]
    BY <1>3, Typed DEF RequestRow
  <2>2. row \in RequestRow /\ row.pc = "confirm" /\ row.session = s /\ row.account = a
    BY Typed DEF RequestRow
  <2>3. /\ new \in SessionRow /\ new.account = a /\ new.seen = req[r].at /\ new.st = "live"
        /\ new.role = account[a].role
    BY <1>1, Typed DEF SessionRow, Inv, TypeOK, AccountRow
  <2>4. session' = [session EXCEPT ![s] = new]
    BY <1>3
  <2> HIDE DEF row, new
  <2>5. /\ session' \in [SessionIds -> SessionRow] /\ session'[s] = new
        /\ \A t \in SessionIds \ {s} : session'[t] = session[t]
    BY <2>3, <2>4 DEF Inv, TypeOK
  <2>6. /\ lastUse' \in [SessionIds -> Nat] /\ lastUse'[s] = req[r].at
        /\ \A t \in SessionIds \ {s} : lastUse'[t] = lastUse[t]
    BY <1>3, Typed DEF Inv, TypeOK
  <2>7. req'[r] = row /\ \A q \in Requests \ {r} : req'[q] = req[q]
    BY <2>1, Typed
  <2>8. TypeOK'
    BY <1>1, <2>1, <2>2, <2>5, <2>6, Typed DEF Inv, TypeOK
  <2>9. RequestSound(r)'
    BY <2>2, <2>3, <2>5, <2>7 DEF RequestSound
  <2>10. ASSUME NEW t \in SessionIds PROVE SessionSound(t)' /\ Stands(t)'
    <3>1. CASE t = s
      <4>1. SessionSound(t)'
        BY <1>1, <2>3, <2>5, <2>6, <3>1, Typed DEF SessionSound
      <4>2. Ending(s)'
        BY <2>2, <2>7 DEF Ending
      <4>3. account'[a].role = session'[s].role /\ session'[s].account = a
        BY <1>1, <2>3, <2>5
      <4>4. QED BY <3>1, <4>1, <4>2, <4>3 DEF Stands
    <3>2. CASE t # s
      <4>1. SessionSound(t)'
        BY <2>5, <2>6, <3>2 DEF Inv, SessionSound
      <4>2. session'[t] = session[t]
        BY <2>5, <3>2
      <4>3. Stands(t)'
        BY <1>1, <2>7, <4>2, StandsKept
      <4>4. QED BY <4>1, <4>3
    <3>3. QED BY <3>1, <3>2
  <2>11. ASSUME NEW t \in SessionIds, session[t].st # "none"
         PROVE  session'[t] = session[t] /\ lastUse[t] <= lastUse'[t]
    <3>1. t # s
      BY <1>3, <2>11
    <3>2. QED BY <2>5, <2>6, <3>1 DEF Inv, TypeOK
  <2>12. QED BY <1>1, <2>1, <2>2, <2>8, <2>9, <2>10, <2>11, RequestStep
<1>4. QED BY <1>1, <1>2, <1>3 DEF Insert

LEMMA EnterStep ==
    ASSUME Inv, NEW r \in Requests, Enter(r)
    PROVE  Inv'
<1>1. ASSUME NEW a \in Accounts, NEW s \in SessionIds \cup {NoOne}, SignIn(r, a, s)
      PROVE  Inv'
  <2> DEFINE row == [Idle EXCEPT !.pc = "presented", !.at = now, !.session = s, !.account = a]
  <2>1. /\ req[r].pc = "idle" /\ req' = [req EXCEPT ![r] = row]
        /\ UNCHANGED <<now, account, session, changes, lastUse, over, cut>>
    BY <1>1 DEF SignIn, history
  <2>2. row \in RequestRow /\ row.pc = "presented" /\ row.account = a
    BY Typed DEF Idle, RequestRow
  <2> HIDE DEF row
  <2>3. req'[r] = row
    BY <2>1, Typed
  <2>4. RequestSound(r)'
    BY <2>2, <2>3 DEF RequestSound
  <2>5. \A t \in SessionIds : LetGo(r, t)
    BY <2>1 DEF LetGo
  <2>6. OnlyEnds /\ cut \subseteq cut' /\ cut' \subseteq Accounts
    BY <2>1, Typed, RevokedEnds
  <2>7. QED BY <2>1, <2>2, <2>4, <2>5, <2>6, QuietStep
<1>2. CASE Supersede(r)
  <2> DEFINE row == [req[r] EXCEPT !.pc = "insert", !.session = NoOne]
  <2>1. /\ req[r].pc = "presented" /\ session' = Revoked({req[r].session})
        /\ UNCHANGED <<now, account, changes, lastUse, over, cut>>
    BY <1>2 DEF Supersede, history
  <2>2. req' = [req EXCEPT ![r] = row]
    <3>1. req' = [req EXCEPT ![r].pc = "insert", ![r].session = NoOne]
      BY <1>2 DEF Supersede
    <3>2. QED BY <3>1, Typed DEF RequestRow
  <2>3. row \in RequestRow /\ row.pc = "insert" /\ row.account = req[r].account
    BY Typed DEF RequestRow
  <2> HIDE DEF row
  <2>4. req'[r] = row
    BY <2>2, Typed
  <2>5. RequestSound(r)'
    BY <2>1, <2>3, <2>4, Typed DEF RequestSound
  <2>6. \A t \in SessionIds : LetGo(r, t)
    BY <2>1 DEF LetGo
  <2>7. OnlyEnds /\ cut \subseteq cut' /\ cut' \subseteq Accounts
    BY <2>1, Typed, RevokedEnds
  <2>8. QED BY <2>1, <2>2, <2>3, <2>5, <2>6, <2>7, QuietStep
<1>3. CASE Confirm(r)
  <2>1. req[r].pc = "confirm" /\ UNCHANGED <<now, account, session, changes, history>>
    BY <1>3 DEF Confirm
  <2>2. CASE Usable(req[r].account, req[r].at)
    <3>1. Done(r) /\ ~account[req[r].account].disabled
      BY <1>3, <2>2 DEF Confirm, Usable
    <3>2. session' \in {session, Revoked({})}
      BY <2>1
    <3>3. QED BY <2>1, <3>1, <3>2, DoneStep
  <2>3. CASE ~Usable(req[r].account, req[r].at)
    <3> DEFINE row == [req[r] EXCEPT !.pc = "reject"]
    <3>1. req' = [req EXCEPT ![r] = row]
      <4>1. req' = [req EXCEPT ![r].pc = "reject"]
        BY <1>3, <2>3 DEF Confirm
      <4>2. QED BY <4>1, Typed DEF RequestRow
    <3>2. /\ row \in RequestRow /\ row.pc = "reject" /\ row.account = req[r].account
          /\ row.session = req[r].session
      BY Typed DEF RequestRow
    <3> HIDE DEF row
    <3>3. req'[r] = row
      BY <3>1, Typed
    <3>4. RequestSound(r)'
      BY <2>1, <3>2, <3>3, Typed DEF RequestSound
    <3>5. \A t \in SessionIds : req[r].session = t => Ending(t)'
      BY <3>2, <3>3 DEF Ending
    <3>6. \A t \in SessionIds : LetGo(r, t)
      BY <2>1, <3>5 DEF LetGo
    <3>7. OnlyEnds /\ cut \subseteq cut' /\ cut' \subseteq Accounts
      BY <2>1, Typed, RevokedEnds DEF history
    <3>8. UNCHANGED <<now, account, changes, lastUse, over>>
      BY <2>1 DEF history
    <3>9. QED BY <3>1, <3>2, <3>4, <3>6, <3>7, <3>8, QuietStep
  <2>4. QED BY <2>2, <2>3
<1>4. CASE Insert(r)
  BY <1>4, InsertStep
<1>5. QED BY <1>1, <1>2, <1>3, <1>4 DEF Enter

LEMMA DieStep ==
    ASSUME Inv, NEW r \in Requests, Die(r)
    PROVE  Inv'
<1>1. /\ Done(r) /\ UNCHANGED <<now, account, session, changes, lastUse, over>>
      /\ cut' = IF req[r].pc \in {"revoke", "confirm", "reject"} THEN cut \cup {req[r].account}
               ELSE cut
  BY DEF Die
<1>2. req' = [req EXCEPT ![r] = Idle] /\ Idle.pc = "idle" /\ Idle \in RequestRow
  BY <1>1, Typed DEF Done, Idle
<1>3. req'[r].pc = "idle"
  BY <1>2, Typed
<1>4. RequestSound(r)'
  BY <1>3 DEF RequestSound
<1>5. req[r].pc \in {"revoke", "confirm", "reject"} => req[r].account \in Accounts
  BY Typed DEF RequestSound, Inv, SessionSound
<1>6. OnlyEnds /\ cut \subseteq cut' /\ cut' \subseteq Accounts
  BY <1>1, <1>5, Typed, RevokedEnds
<1>7. \A t \in SessionIds : LetGo(r, t)
  BY <1>1, Typed DEF LetGo, RequestSound
<1>8. QED BY <1>1, <1>2, <1>4, <1>6, <1>7, QuietStep

LEMMA StillStep ==
    ASSUME Inv, now' \in Nat, UNCHANGED <<account, session, req, changes, lastUse, over, cut>>
    PROVE  Inv'
<1>1. TypeOK'
  BY DEF Inv, TypeOK
<1>2. ASSUME NEW r \in Requests PROVE RequestSound(r)'
  BY DEF Inv, RequestSound, Live, PastAbsolute
<1>3. ASSUME NEW s \in SessionIds PROVE SessionSound(s)' /\ Stands(s)'
  BY DEF Inv, SessionSound, Stands, Live, Revoking, Ending
<1>4. QED BY <1>1, <1>2, <1>3 DEF Inv

LEMMA InitInv == ASSUME Init PROVE Inv
<1>1. /\ account = [a \in Accounts |-> [role |-> FirstRole[a], disabled |-> FALSE, expires |-> Never]]
      /\ session = [s \in SessionIds |-> Absent] /\ req = [r \in Requests |-> Idle]
      /\ now = 0 /\ changes = 0 /\ cut = {}
      /\ lastUse = [s \in SessionIds |-> 0] /\ over = [r \in Requests |-> FALSE]
  BY DEF Init
<1>2. Absent \in SessionRow /\ Absent.st = "none" /\ Idle \in RequestRow /\ Idle.pc = "idle"
  BY DEF Absent, SessionRow, Idle, RequestRow
<1>3. ASSUME NEW a \in Accounts
      PROVE  [role |-> FirstRole[a], disabled |-> FALSE, expires |-> Never] \in AccountRow
  BY SessionsAssumption DEF AccountRow
<1>4. TypeOK
  BY <1>1, <1>2, <1>3 DEF TypeOK
<1>5. ASSUME NEW r \in Requests PROVE RequestSound(r)
  BY <1>1, <1>2 DEF RequestSound
<1>6. ASSUME NEW s \in SessionIds PROVE SessionSound(s) /\ Stands(s)
  BY <1>1, <1>2 DEF SessionSound, Stands, Live
<1>7. QED BY <1>4, <1>5, <1>6 DEF Inv

LEMMA StepInv == ASSUME Inv, [Next]_vars PROVE Inv'
<1>1. CASE UNCHANGED vars
  BY <1>1, StillStep DEF vars, Inv, TypeOK
<1>2. CASE Tick
  BY <1>2, StillStep DEF Tick, history, Inv, TypeOK
<1>3. ASSUME NEW r \in Requests, Authenticate(r) \/ Administer(r) \/ Enter(r) \/ Die(r)
      PROVE  Inv'
  <2>1. CASE Authenticate(r)
    BY <2>1, ArriveStep, ReadStep, TouchStep, EndStep DEF Authenticate
  <2>2. CASE Administer(r)
    BY <2>2, AdministerStep, EndStep DEF Administer
  <2>3. QED BY <1>3, <2>1, <2>2, EnterStep, DieStep
<1>4. QED BY <1>1, <1>2, <1>3 DEF Next

\* Whoever is let in was let in by its own step, and the invariant tells what
\* that step knew.
LEMMA LetIn ==
    ASSUME Inv, [Next]_vars, NEW r \in Requests,
           req[r].pc # "granted", req'[r].pc = "granted"
    PROVE  ~over[r] /\ req[r].at < lastUse[req[r].session] + IdleLife
<1>1. PICK q \in Requests : Authenticate(q) \/ Administer(q) \/ Enter(q) \/ Die(q)
  BY DEF Next, vars, Tick
<1>2. ReadAccount(q) \/ Touch(q) \/ (\A t \in Requests : req'[t].pc = "granted" => req[t].pc = "granted")
  <2>1. CASE Done(q)
    BY <2>1, Typed DEF Done, Idle
  <2>2. ASSUME NEW row \in RequestRow, row.pc # "granted", req' = [req EXCEPT ![q] = row]
        PROVE  \A t \in Requests : req'[t].pc = "granted" => req[t].pc = "granted"
    BY <2>2, Typed
  <2>3. ASSUME NEW pc \in {"reject", "account", "revoke", "presented", "insert", "confirm"},
               req'[q].pc = pc, \A t \in Requests \ {q} : req'[t] = req[t]
        PROVE  \A t \in Requests : req'[t].pc = "granted" => req[t].pc = "granted"
    BY <2>3
  <2>4. CASE Authenticate(q)
    <3>1. ASSUME NEW s \in SessionIds, Arrive(q, s)
          PROVE  req'[q].pc = "find" /\ \A t \in Requests \ {q} : req'[t] = req[t]
      BY <3>1, Typed DEF Arrive, Idle
    <3>2. CASE Find(q)
      <4>1. CASE Live(req[q].session)
        <5>1. PICK pc \in {"reject", "account"} :
                  req' = [req EXCEPT ![q].seen = session[req[q].session].seen, ![q].pc = pc]
          BY <3>2, <4>1 DEF Find
        <5>2. req'[q].pc = pc /\ \A t \in Requests \ {q} : req'[t] = req[t]
          BY <5>1, Typed DEF RequestRow
        <5>3. QED BY <2>3, <5>2
      <4>2. CASE ~Live(req[q].session)
        BY <2>1, <3>2, <4>2 DEF Find
      <4>3. QED BY <4>1, <4>2
    <3>3. CASE Reject(q) \/ Serve(q) \/ Logout(q)
      BY <2>1, <3>3 DEF Reject, Serve, Logout
    <3>4. ASSUME NEW s \in SessionIds, Arrive(q, s)
          PROVE  \A t \in Requests : req'[t].pc = "granted" => req[t].pc = "granted"
      BY <3>1, <3>4
    <3>5. QED BY <2>1, <2>4, <3>2, <3>3, <3>4 DEF Authenticate
  <2>5. CASE Administer(q)
    <3>1. ASSUME NEW b \in Accounts, NEW row, Change(q, b, row)
          PROVE  req'[q].pc = "revoke" /\ \A t \in Requests \ {q} : req'[t] = req[t]
      BY <3>1, Typed DEF Change, RequestRow
    <3>2. ASSUME NEW b \in Accounts, Disable(q, b) PROVE \E row : Change(q, b, row)
      BY <3>2 DEF Disable
    <3>3. ASSUME NEW b \in Accounts, NEW role, NEW e, AssignRole(q, b, role, e)
          PROVE  \E row : Change(q, b, row)
      BY <3>3 DEF AssignRole
    <3>4. ASSUME NEW b \in Accounts, NEW e, SetExpiry(q, b, e) PROVE Done(q)
      BY <3>4 DEF SetExpiry
    <3>5. ASSUME NEW b \in Accounts, RevokeSessions(q, b) PROVE Done(q)
      BY <3>5 DEF RevokeSessions
    <3>6. RevokeAll(q) => Done(q)
      BY DEF RevokeAll
    <3>7. Done(q) \/ \E b \in Accounts : \E row : Change(q, b, row)
      BY <2>5, <3>2, <3>3, <3>4, <3>5, <3>6 DEF Administer
    <3>8. QED BY <2>1, <2>3, <3>1, <3>7
  <2>6. CASE Enter(q)
    <3>1. ASSUME NEW a \in Accounts, NEW s \in SessionIds \cup {NoOne}, SignIn(q, a, s)
          PROVE  req'[q].pc = "presented" /\ \A t \in Requests \ {q} : req'[t] = req[t]
      BY <3>1, Typed DEF SignIn, Idle
    <3>2. Supersede(q) => req'[q].pc = "insert" /\ \A t \in Requests \ {q} : req'[t] = req[t]
      BY Typed DEF Supersede, RequestRow
    <3>3. Insert(q) => \/ Done(q)
                       \/ req'[q].pc = "confirm" /\ \A t \in Requests \ {q} : req'[t] = req[t]
      BY Typed DEF Insert, RequestRow
    <3>4. Confirm(q) => \/ Done(q)
                        \/ req'[q].pc = "reject" /\ \A t \in Requests \ {q} : req'[t] = req[t]
      BY Typed DEF Confirm, RequestRow
    <3>5. QED BY <2>1, <2>3, <2>6, <3>1, <3>2, <3>3, <3>4 DEF Enter
  <2>7. CASE Die(q)
    BY <2>1, <2>7 DEF Die
  <2>8. QED BY <1>1, <2>4, <2>5, <2>6, <2>7
<1>3. ReadAccount(q) \/ Touch(q)
  BY <1>2
<1>4. q = r
  <2>1. \A t \in Requests \ {q} : req'[t] = req[t]
    BY <1>3, Typed DEF ReadAccount, Touch
  <2>2. QED BY <2>1
<1>5. CASE ReadAccount(r)
  <2>1. Passes(req[r].account, req[r].at) /\ req[r].pc = "account"
    <3>1. req[r].pc = "account" /\ req'[r].pc = IF ~Passes(req[r].account, req[r].at) THEN "reject"
              ELSE IF req[r].at - req[r].seen >= TouchInterval THEN "touch" ELSE "granted"
      BY <1>5, Typed DEF ReadAccount, RequestRow
    <3>2. QED BY <3>1
  <2>2. QED BY <2>1, Typed DEF RequestSound, Passes
<1>6. CASE Touch(r)
  BY <1>6, Typed DEF Touch, RequestSound
<1>7. QED BY <1>3, <1>4, <1>5, <1>6

-----------------------------------------------------------------------------
\* Every state is well formed.
THEOREM TypeCorrect == Spec => []TypeOK
<1>1. Init => Inv
  BY InitInv
<1>2. Inv /\ [Next]_vars => Inv'
  BY StepInv
<1>3. Inv => TypeOK
  BY DEF Inv
<1>4. QED BY <1>1, <1>2, <1>3, PTL DEF Spec

\* A live session stands on its account as it is, or a request that is under
\* way will end it, or died: for any number of administrators, sign-ins and
\* sessions at once (verifyOtp, setAccountDisabled, assignRole).
THEOREM Standing == Spec => []StandsOnItsAccount
<1>1. Init => Inv
  BY InitInv
<1>2. Inv /\ [Next]_vars => Inv'
  BY StepInv
<1>3. Inv => StandsOnItsAccount
  BY DEF Inv, StandsOnItsAccount, Stands, Revoking, Ending
<1>4. QED BY <1>1, <1>2, <1>3, PTL DEF Spec

\* What has ended lets nobody in, whatever races with the request: for every
\* lifetime, every touch interval and any number of requests (authenticate).
THEOREM EndedStaysOut == Spec => EndedLetsNobodyIn
<1>1. Init => Inv
  BY InitInv
<1>2. Inv /\ [Next]_vars => Inv'
  BY StepInv
<1>3. Inv /\ [Next]_vars =>
          [\A r \in Requests : req[r].pc # "granted" /\ req'[r].pc = "granted" =>
              ~over[r] /\ req[r].at < lastUse[req[r].session] + IdleLife]_vars
  BY LetIn
<1>4. QED BY <1>1, <1>2, <1>3, PTL DEF Spec, EndedLetsNobodyIn
-----------------------------------------------------------------------------
(* The logins. *)

GP == INSTANCE LoginProofs WITH
    now <- clock, account <- holder, changes <- upsets,
    Requests <- {1, 2, 3}, Processes <- {1}, Users <- {"ann"}, Networks <- {"net"},
    Shared <- TRUE, AccountLimit <- 1, NetworkLimit <- 3, Window <- 1, MaxConcurrent <- 1,
    MaxWaiting <- 1, MaxTime <- 1, MaxLogins <- 4, MaxChanges <- 0

TP == INSTANCE LoginProofs WITH
    now <- clock, account <- holder, changes <- upsets,
    Requests <- {1, 2, 3}, Processes <- {1}, Users <- {"ann"}, Networks <- {"net"},
    Shared <- TRUE, AccountLimit <- 1, NetworkLimit <- 2, Window <- 1, MaxConcurrent <- 1,
    MaxWaiting <- 1, MaxTime <- 0, MaxLogins <- 2, MaxChanges <- 1

MP == INSTANCE LoginProofs WITH
    now <- clock, account <- holder, changes <- upsets,
    Requests <- {1, 2, 3}, Processes <- {1}, Users <- {"ann"}, Networks <- {"net"},
    Shared <- FALSE, AccountLimit <- 1, NetworkLimit <- 2, Window <- 1, MaxConcurrent <- 1,
    MaxWaiting <- 1, MaxTime <- 0, MaxLogins <- 2, MaxChanges <- 1

\* Three logins are a finite number of them.
LEMMA ThreeLogins == IsFiniteSet({1, 2, 3})
<1>1. IsFiniteSet({}) BY FS_EmptySet
<1>2. IsFiniteSet({1}) BY <1>1, FS_AddElement
<1>3. IsFiniteSet({1, 2}) BY <1>2, FS_AddElement, {1, 2} = {1} \cup {2}
<1> QED BY <1>3, FS_AddElement, {1, 2, 3} = {1, 2} \cup {3}

\* The module of the run and the one of the proofs are the same.
LEMMA GuessingSame ==
    /\ GP!LoginParameters
    /\ Guessing!Init <=> GP!Init
    /\ [Guessing!Next]_(Guessing!vars) <=> [GP!Next]_(GP!vars)
    /\ GP!TypeOK => Guessing!TypeOK
    /\ GP!GateHolds => Guessing!GateHolds
    /\ GP!SessionEarned => Guessing!SessionEarned
    /\ GP!GuessesBounded => Guessing!GuessesBounded
<1>1. GP!LoginParameters
  BY ThreeLogins DEF GP!LoginParameters, GP!IsFiniteSet, IsFiniteSet
<1>2. Guessing!Init <=> GP!Init
  BY DEF
      GP!Init, GP!Keys, GP!NoBucket, GP!OpenGate, GP!Idle, GP!Resting, Guessing!Init,
      Guessing!Keys, Guessing!NoBucket, Guessing!OpenGate, Guessing!Idle, Guessing!Resting
<1>3. GP!Next <=> Guessing!Next
  BY DEF
      GP!Next, GP!SignIn, GP!Arrive, GP!CheckNetwork, GP!CheckAccount, GP!CheckHere,
      GP!Find, GP!Enter, GP!Verify, GP!Fail, GP!Succeed, GP!Issue, GP!Lose, GP!Resume,
      GP!Restart, GP!Provision, GP!Disable, GP!FindExisting, GP!Insert, GP!Rotate,
      GP!Revoke, GP!Tick, GP!Keys, GP!NoBucket, GP!OpenGate, GP!Idle, GP!Within,
      GP!Bumped, GP!Locked, GP!Done, GP!Quiet, GP!Full, GP!Matches, GP!Released,
      GP!FreePlace, GP!Accepted, GP!Resting, Guessing!Next, Guessing!SignIn,
      Guessing!Arrive, Guessing!CheckNetwork, Guessing!CheckAccount, Guessing!CheckHere,
      Guessing!Find, Guessing!Enter, Guessing!Verify, Guessing!Fail, Guessing!Succeed,
      Guessing!Issue, Guessing!Lose, Guessing!Resume, Guessing!Restart,
      Guessing!Provision, Guessing!Disable, Guessing!FindExisting, Guessing!Insert,
      Guessing!Rotate, Guessing!Revoke, Guessing!Tick, Guessing!Keys, Guessing!NoBucket,
      Guessing!OpenGate, Guessing!Idle, Guessing!Within, Guessing!Bumped, Guessing!Locked,
      Guessing!Done, Guessing!Quiet, Guessing!Full, Guessing!Matches, Guessing!Released,
      Guessing!FreePlace, Guessing!Accepted, Guessing!Resting
<1>4. GP!vars = Guessing!vars /\ GP!vars' = Guessing!vars'
  BY DEF GP!vars, Guessing!vars
<1>5. GP!TypeOK => Guessing!TypeOK
  BY DEF
      GP!TypeOK, GP!Keys, GP!Account, GP!Bucket, GP!Gate, GP!Row, GP!Issued, GP!Operation,
      Guessing!TypeOK, Guessing!Keys, Guessing!Account, Guessing!Bucket, Guessing!Gate,
      Guessing!Row, Guessing!Issued, Guessing!Operation
<1>6. GP!GateHolds => Guessing!GateHolds
  BY DEF GP!GateHolds, Guessing!GateHolds, GP!Running, Guessing!Running, GP!Cardinality,
         Guessing!Cardinality, GP!ToSet, Guessing!ToSet
<1>7. /\ GP!SessionEarned => Guessing!SessionEarned
      /\ GP!GuessesBounded => Guessing!GuessesBounded
  BY DEF GP!SessionEarned, Guessing!SessionEarned, GP!GuessesBounded, Guessing!GuessesBounded,
         GP!Cardinality, Guessing!Cardinality
<1> QED BY <1>1, <1>2, <1>3, <1>4, <1>5, <1>6, <1>7

\* The module of the run and the one of the proofs are the same.
LEMMA TablesSame ==
    /\ TP!LoginParameters
    /\ Guessing!Init <=> TP!Init
    /\ [Tables!Next]_(Tables!vars) <=> [TP!Next]_(TP!vars)
    /\ TP!TypeOK => Tables!TypeOK
    /\ TP!GateHolds => Tables!GateHolds
    /\ TP!SessionEarned => Guessing!SessionEarned
    /\ TP!GuessesBounded => Guessing!GuessesBounded
<1>1. TP!LoginParameters
  BY ThreeLogins DEF TP!LoginParameters, TP!IsFiniteSet, IsFiniteSet
<1>2. Guessing!Init <=> TP!Init
  BY DEF
      TP!Init, TP!Keys, TP!NoBucket, TP!OpenGate, TP!Idle, TP!Resting, Guessing!Init,
      Guessing!Keys, Guessing!NoBucket, Guessing!OpenGate, Guessing!Idle, Guessing!Resting
<1>3. TP!Next <=> Tables!Next
  BY DEF
      TP!Next, TP!SignIn, TP!Arrive, TP!CheckNetwork, TP!CheckAccount, TP!CheckHere,
      TP!Find, TP!Enter, TP!Verify, TP!Fail, TP!Succeed, TP!Issue, TP!Lose, TP!Resume,
      TP!Restart, TP!Provision, TP!Disable, TP!FindExisting, TP!Insert, TP!Rotate,
      TP!Revoke, TP!Tick, TP!Keys, TP!NoBucket, TP!OpenGate, TP!Idle, TP!Within,
      TP!Bumped, TP!Locked, TP!Done, TP!Quiet, TP!Full, TP!Matches, TP!Released,
      TP!FreePlace, TP!Accepted, TP!Resting, Tables!Next, Tables!SignIn, Tables!Arrive,
      Tables!CheckNetwork, Tables!CheckAccount, Tables!CheckHere, Tables!Find,
      Tables!Enter, Tables!Verify, Tables!Fail, Tables!Succeed, Tables!Issue, Tables!Lose,
      Tables!Resume, Tables!Restart, Tables!Provision, Tables!Disable,
      Tables!FindExisting, Tables!Insert, Tables!Rotate, Tables!Revoke, Tables!Tick,
      Tables!Keys, Tables!NoBucket, Tables!OpenGate, Tables!Idle, Tables!Within,
      Tables!Bumped, Tables!Locked, Tables!Done, Tables!Quiet, Tables!Full,
      Tables!Matches, Tables!Released, Tables!FreePlace, Tables!Accepted, Tables!Resting
<1>4. TP!vars = Tables!vars /\ TP!vars' = Tables!vars'
  BY DEF TP!vars, Tables!vars
<1>5. TP!TypeOK => Tables!TypeOK
  BY DEF
      TP!TypeOK, TP!Keys, TP!Account, TP!Bucket, TP!Gate, TP!Row, TP!Issued, TP!Operation,
      Tables!TypeOK, Tables!Keys, Tables!Account, Tables!Bucket, Tables!Gate, Tables!Row,
      Tables!Issued, Tables!Operation
<1>6. TP!GateHolds => Tables!GateHolds
  BY DEF TP!GateHolds, Tables!GateHolds, TP!Running, Tables!Running, TP!Cardinality,
         Tables!Cardinality, TP!ToSet, Tables!ToSet
<1>7. /\ TP!SessionEarned => Guessing!SessionEarned
      /\ TP!GuessesBounded => Guessing!GuessesBounded
  BY DEF TP!SessionEarned, Guessing!SessionEarned, TP!GuessesBounded, Guessing!GuessesBounded,
         TP!Cardinality, Guessing!Cardinality
<1> QED BY <1>1, <1>2, <1>3, <1>4, <1>5, <1>6, <1>7

\* The module of the run and the one of the proofs are the same.
LEMMA MemorySame ==
    /\ MP!LoginParameters
    /\ Guessing!Init <=> MP!Init
    /\ [Memory!Next]_(Memory!vars) <=> [MP!Next]_(MP!vars)
    /\ MP!TypeOK => Memory!TypeOK
    /\ MP!GateHolds => Memory!GateHolds
    /\ MP!SessionEarned => Guessing!SessionEarned
    /\ MP!GuessesBounded => Guessing!GuessesBounded
<1>1. MP!LoginParameters
  BY ThreeLogins DEF MP!LoginParameters, MP!IsFiniteSet, IsFiniteSet
<1>2. Guessing!Init <=> MP!Init
  BY DEF
      MP!Init, MP!Keys, MP!NoBucket, MP!OpenGate, MP!Idle, MP!Resting, Guessing!Init,
      Guessing!Keys, Guessing!NoBucket, Guessing!OpenGate, Guessing!Idle, Guessing!Resting
<1>3. MP!Next <=> Memory!Next
  BY DEF
      MP!Next, MP!SignIn, MP!Arrive, MP!CheckNetwork, MP!CheckAccount, MP!CheckHere,
      MP!Find, MP!Enter, MP!Verify, MP!Fail, MP!Succeed, MP!Issue, MP!Lose, MP!Resume,
      MP!Restart, MP!Provision, MP!Disable, MP!FindExisting, MP!Insert, MP!Rotate,
      MP!Revoke, MP!Tick, MP!Keys, MP!NoBucket, MP!OpenGate, MP!Idle, MP!Within,
      MP!Bumped, MP!Locked, MP!Done, MP!Quiet, MP!Full, MP!Matches, MP!Released,
      MP!FreePlace, MP!Accepted, MP!Resting, Memory!Next, Memory!SignIn, Memory!Arrive,
      Memory!CheckNetwork, Memory!CheckAccount, Memory!CheckHere, Memory!Find,
      Memory!Enter, Memory!Verify, Memory!Fail, Memory!Succeed, Memory!Issue, Memory!Lose,
      Memory!Resume, Memory!Restart, Memory!Provision, Memory!Disable,
      Memory!FindExisting, Memory!Insert, Memory!Rotate, Memory!Revoke, Memory!Tick,
      Memory!Keys, Memory!NoBucket, Memory!OpenGate, Memory!Idle, Memory!Within,
      Memory!Bumped, Memory!Locked, Memory!Done, Memory!Quiet, Memory!Full,
      Memory!Matches, Memory!Released, Memory!FreePlace, Memory!Accepted, Memory!Resting
<1>4. MP!vars = Memory!vars /\ MP!vars' = Memory!vars'
  BY DEF MP!vars, Memory!vars
<1>5. MP!TypeOK => Memory!TypeOK
  BY DEF
      MP!TypeOK, MP!Keys, MP!Account, MP!Bucket, MP!Gate, MP!Row, MP!Issued, MP!Operation,
      Memory!TypeOK, Memory!Keys, Memory!Account, Memory!Bucket, Memory!Gate, Memory!Row,
      Memory!Issued, Memory!Operation
<1>6. MP!GateHolds => Memory!GateHolds
  BY DEF MP!GateHolds, Memory!GateHolds, MP!Running, Memory!Running, MP!Cardinality,
         Memory!Cardinality, MP!ToSet, Memory!ToSet
<1>7. /\ MP!SessionEarned => Guessing!SessionEarned
      /\ MP!GuessesBounded => Guessing!GuessesBounded
  BY DEF MP!SessionEarned, Guessing!SessionEarned, MP!GuessesBounded, Guessing!GuessesBounded,
         MP!Cardinality, Guessing!Cardinality
<1> QED BY <1>1, <1>2, <1>3, <1>4, <1>5, <1>6, <1>7

\* The logins of the part a behaviour picked keep the invariant of every login.
LoginsInv ==
    /\ part = "guessing" => GP!Inv
    /\ part = "tables" => TP!Inv
    /\ part = "memory" => MP!Inv

LEMMA LoginsInit == MCInit => LoginsInv
<1> SUFFICES ASSUME MCInit PROVE LoginsInv
  OBVIOUS
<1>1. part \in ByPassword => Guessing!Init
  BY DEF MCInit
<1>2. ASSUME part = "guessing" PROVE GP!Inv
  <2>1. GP!Init /\ GP!LoginParameters BY <1>1, <1>2, GuessingSame DEF ByPassword
  <2> QED BY <2>1, GP!InitInv
<1>3. ASSUME part = "tables" PROVE TP!Inv
  <2>1. TP!Init /\ TP!LoginParameters BY <1>1, <1>3, TablesSame DEF ByPassword
  <2> QED BY <2>1, TP!InitInv
<1>4. ASSUME part = "memory" PROVE MP!Inv
  <2>1. MP!Init /\ MP!LoginParameters BY <1>1, <1>4, MemorySame DEF ByPassword
  <2> QED BY <2>1, MP!InitInv
<1> QED BY <1>2, <1>3, <1>4 DEF LoginsInv

LEMMA LoginsStep == LoginsInv /\ [MCNext]_<<part, vars, codeVars, loginVars>> => LoginsInv'
<1> SUFFICES ASSUME LoginsInv, [MCNext]_<<part, vars, codeVars, loginVars>> PROVE LoginsInv'
  OBVIOUS
<1>1. part' = part
  BY DEF MCNext
<1>2. ASSUME part = "guessing" PROVE GP!Inv'
  <2>1. [Guessing!Next]_(Guessing!vars)
    <3>1. CASE MCNext BY <1>2, <3>1 DEF MCNext
    <3>2. CASE UNCHANGED <<part, vars, codeVars, loginVars>> BY <3>2 DEF loginVars, Guessing!vars
    <3> QED BY <3>1, <3>2
  <2>2. GP!LoginParameters /\ GP!Inv /\ [GP!Next]_(GP!vars)
    BY <2>1, <1>2, GuessingSame DEF LoginsInv
  <2> QED BY <2>2, GP!StepInv
<1>3. ASSUME part = "tables" PROVE TP!Inv'
  <2>1. [Tables!Next]_(Tables!vars)
    <3>1. CASE MCNext BY <1>3, <3>1 DEF MCNext
    <3>2. CASE UNCHANGED <<part, vars, codeVars, loginVars>> BY <3>2 DEF loginVars, Tables!vars
    <3> QED BY <3>1, <3>2
  <2>2. TP!LoginParameters /\ TP!Inv /\ [TP!Next]_(TP!vars)
    BY <2>1, <1>3, TablesSame DEF LoginsInv
  <2> QED BY <2>2, TP!StepInv
<1>4. ASSUME part = "memory" PROVE MP!Inv'
  <2>1. [Memory!Next]_(Memory!vars)
    <3>1. CASE MCNext BY <1>4, <3>1 DEF MCNext
    <3>2. CASE UNCHANGED <<part, vars, codeVars, loginVars>> BY <3>2 DEF loginVars, Memory!vars
    <3> QED BY <3>1, <3>2
  <2>2. MP!LoginParameters /\ MP!Inv /\ [MP!Next]_(MP!vars)
    BY <2>1, <1>4, MemorySame DEF LoginsInv
  <2> QED BY <2>2, MP!StepInv
<1> QED BY <1>1, <1>2, <1>3, <1>4 DEF LoginsInv

LEMMA LoginsSound == C!TypeOK /\ LoginsInv => SignInsSound
<1> SUFFICES ASSUME C!TypeOK, LoginsInv PROVE SignInsSound
  OBVIOUS
<1>1. ASSUME part = "guessing"
      PROVE  Guessing!TypeOK /\ Guessing!GateHolds /\ Guessing!SessionEarned /\ Guessing!GuessesBounded
  <2>1. GP!TypeOK /\ GP!GateHolds /\ GP!GuessesBounded /\ GP!SessionEarned
    BY <1>1, GuessingSame, GP!InvSound DEF LoginsInv
  <2> QED BY <2>1, GuessingSame
<1>2. ASSUME part = "tables"
      PROVE  Tables!TypeOK /\ Tables!GateHolds /\ Guessing!SessionEarned /\ Guessing!GuessesBounded
  <2>1. TP!TypeOK /\ TP!GateHolds /\ TP!GuessesBounded /\ TP!SessionEarned
    BY <1>2, TablesSame, TP!InvSound DEF LoginsInv
  <2> QED BY <2>1, TablesSame
<1>3. ASSUME part = "memory"
      PROVE  Memory!TypeOK /\ Memory!GateHolds /\ Guessing!SessionEarned /\ Guessing!GuessesBounded
  <2>1. MP!TypeOK /\ MP!GateHolds /\ MP!GuessesBounded /\ MP!SessionEarned
    BY <1>3, MemorySame, MP!InvSound DEF LoginsInv
  <2> QED BY <2>1, MemorySame
<1> QED BY <1>1, <1>2, <1>3 DEF SignInsSound, ByPassword

\* Codes and logins are well formed, gates and limits hold, and a session by
\* password was earned, in each part of the run (login, VerificationGate,
\* LoginThrottle).
THEOREM SignInsAreSound == MCSpec => []SignInsSound
<1>1. MCInit => LoginsInv
  BY LoginsInit
<1>2. LoginsInv /\ [MCNext]_<<part, vars, codeVars, loginVars>> => LoginsInv'
  BY LoginsStep
<1>3. C!TypeOK /\ LoginsInv => SignInsSound
  BY LoginsSound
<1> QED BY <1>1, <1>2, <1>3, CodesTyped, PTL DEF MCSpec
=============================================================================
