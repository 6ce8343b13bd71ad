----------------------------- MODULE OneTimeCode -----------------------------
(***************************************************************************)
(* One-time sign-in codes: requestOtp and verifyOtp up to the session they *)
(* create (apps/dashboard/src/server/auth/session.ts) over the challenges  *)
(* of packages/database/src/dashboard-auth.ts and migration 0011, and the  *)
(* failure count of a challenge (PostgresLoginThrottle).                   *)
(*                                                                         *)
(* A request for a code supersedes the account's live codes and inserts    *)
(* its own in one transaction at READ COMMITTED: the UPDATE sees the codes *)
(* committed when it began, and its effect appears with the insert.  A     *)
(* verification reads the challenge, compares, and consumes it with its    *)
(* session in one transaction, whose UPDATE tests everything again.  Any   *)
(* number of requests run beside each other; each works with the instant   *)
(* it took when it arrived.  The limits of a network source only refuse.   *)
(***************************************************************************)
EXTENDS Integers, FiniteSets

CONSTANTS
    Accounts,
    Challenges,     \* challenge ids, each naming one code
    Requests,       \* requests running at once
    NoOne,          \* no account, no challenge
    Life,           \* OTP_LIFETIME_SECONDS, in ticks
    MaxAttempts,    \* OTP_MAX_ATTEMPTS
    FailureLimit,   \* ACCOUNT_FAILURE_LIMIT
    MaxTime,        \* bound: the clock stops here
    MaxDeaths       \* bound: requests that die

VARIABLES
    now,
    challenge,  \* otp_challenges
    session,    \* how many sessions a challenge has created
    failures,   \* login_throttle_buckets of `otp-verify:<challenge>`
    req,        \* the requests, of both kinds
    before,     \* history: the codes on record when a code was asked for
    deaths

vars == <<now, challenge, session, failures, req, before, deaths>>

-----------------------------------------------------------------------------
Absent == [account |-> NoOne, expires |-> 0, st |-> "none", attempts |-> 0]

ChallengeRow == [account : Accounts \cup {NoOne}, expires : Nat,
                 st : {"none", "live", "consumed", "superseded"}, attempts : Nat]

Idle == [pc |-> "idle", at |-> 0, account |-> NoOne, challenge |-> NoOne, seen |-> {}, old |-> {}]

RequestRow == [pc : {"idle", "supersede", "insert", "find", "attempt", "fail", "consume",
                     "succeed"},
               at : Nat, account : Accounts \cup {NoOne}, challenge : Challenges \cup {NoOne},
               seen : SUBSET Challenges, old : SUBSET Challenges]

TypeOK ==
    /\ now \in Nat
    /\ challenge \in [Challenges -> ChallengeRow]
    /\ session \in [Challenges -> Nat]
    /\ failures \in [Challenges -> Nat]
    /\ req \in [Requests -> RequestRow]
    /\ before \in [Challenges -> SUBSET Challenges]
    /\ deaths \in Nat

Init ==
    /\ now = 0
    /\ challenge = [c \in Challenges |-> Absent]
    /\ session = [c \in Challenges |-> 0]
    /\ failures = [c \in Challenges |-> 0]
    /\ req = [r \in Requests |-> Idle]
    /\ before = [c \in Challenges |-> {}]
    /\ deaths = 0

Of(a) == {c \in Challenges : challenge[c].account = a}

\* consumed_at IS NULL AND superseded_at IS NULL.
Live(c) == challenge[c].st = "live"

\* findLiveOtpChallenge, and the WHERE of every UPDATE by id.
LiveAt(c, at) == Live(c) /\ challenge[c].expires > at

\* Mutant: a code somebody has tried stays.
ToSupersedeUntried(a) == {c \in Of(a) : Live(c) /\ challenge[c].attempts = 0}

\* The rows the first UPDATE of issueOtpChallenge finds.
ToSupersede(a) == {c \in Of(a) : Live(c)}

\* Mutant: the limit was tested when the code was compared.
ConsumableUnlimited(c, at) == LiveAt(c, at)

\* The WHERE of consumeOtpChallengeAndCreateSession.
Consumable(c, at) == LiveAt(c, at) /\ challenge[c].attempts < MaxAttempts

-----------------------------------------------------------------------------
(* requestOtp, for a usable account; any other gets an id that names no row. *)

AskForCode(r, a) ==
    /\ req[r].pc = "idle"
    /\ req' = [req EXCEPT ![r] = [Idle EXCEPT !.pc = "supersede", !.at = now, !.account = a,
                                              !.old = Of(a)]]
    /\ UNCHANGED <<now, challenge, session, failures, before, deaths>>

\* The UPDATE begins, over what is committed.
FindSuperseded(r) ==
    /\ req[r].pc = "supersede"
    /\ req' = [req EXCEPT ![r].pc = "insert", ![r].seen = ToSupersede(req[r].account)]
    /\ UNCHANGED <<now, challenge, session, failures, before, deaths>>

\* INSERT and COMMIT under a fresh id.  A row another transaction has ended
\* meanwhile no longer satisfies the UPDATE and is left as it is.
IssueCode(r) ==
    /\ req[r].pc = "insert"
    /\ \E c \in Challenges :
          /\ challenge[c].st = "none"
          /\ challenge' = [d \in Challenges |->
                IF d = c THEN [account |-> req[r].account, expires |-> req[r].at + Life,
                               st |-> "live", attempts |-> 0]
                ELSE IF d \in req[r].seen /\ Live(d) THEN [challenge[d] EXCEPT !.st = "superseded"]
                ELSE challenge[d]]
          /\ before' = [before EXCEPT ![c] = req[r].old]
    /\ req' = [req EXCEPT ![r] = Idle]
    /\ UNCHANGED <<now, session, failures, deaths>>

-----------------------------------------------------------------------------
(* verifyOtp. *)

\* The browser's pending cookie names the challenge; the throttle lets it in.
Submit(r, c) ==
    /\ req[r].pc = "idle"
    /\ challenge[c].st # "none"
    /\ failures[c] < FailureLimit
    /\ req' = [req EXCEPT ![r] = [Idle EXCEPT !.pc = "find", !.at = now, !.challenge = c]]
    /\ UNCHANGED <<now, challenge, session, failures, before, deaths>>

\* The live challenge is read and the code compared: right or wrong.
Compare(r) ==
    LET c == req[r].challenge IN
    /\ req[r].pc = "find"
    /\ \E next \in IF ~LiveAt(c, req[r].at) THEN {"fail"}
                   ELSE IF challenge[c].attempts >= MaxAttempts THEN {"attempt"}
                   ELSE {"attempt", "consume"} :
          req' = [req EXCEPT ![r].pc = next]
    /\ UNCHANGED <<now, challenge, session, failures, before, deaths>>

\* recordOtpChallengeAttempt, if the challenge is still live.
RecordAttempt(r) ==
    LET c == req[r].challenge IN
    /\ req[r].pc = "attempt"
    /\ challenge' = IF LiveAt(c, req[r].at) THEN [challenge EXCEPT ![c].attempts = @ + 1]
                    ELSE challenge
    /\ req' = [req EXCEPT ![r].pc = "fail"]
    /\ UNCHANGED <<now, session, failures, before, deaths>>

\* throttle.recordFailure; the window outlives the code.
RecordFailure(r) ==
    /\ req[r].pc = "fail"
    /\ failures' = [failures EXCEPT ![req[r].challenge] = @ + 1]
    /\ req' = [req EXCEPT ![r] = Idle]
    /\ UNCHANGED <<now, challenge, session, before, deaths>>

\* Mutant: the session is created whether or not the UPDATE found its row.
ConsumeAnyway(r) ==
    LET c == req[r].challenge IN
    /\ req[r].pc = "consume"
    /\ challenge' = [challenge EXCEPT ![c].st = IF Consumable(c, req[r].at) THEN "consumed" ELSE @]
    /\ session' = [session EXCEPT ![c] = @ + 1]
    /\ req' = [req EXCEPT ![r].pc = "succeed"]
    /\ UNCHANGED <<now, failures, before, deaths>>

\* One transaction: the challenge is consumed and its session inserted, or the
\* UPDATE finds no row and neither happens (code_already_used).
Consume(r) ==
    LET c == req[r].challenge IN
    /\ req[r].pc = "consume"
    /\ \/ /\ Consumable(c, req[r].at)
          /\ challenge' = [challenge EXCEPT ![c].st = "consumed"]
          /\ session' = [session EXCEPT ![c] = @ + 1]
          /\ req' = [req EXCEPT ![r].pc = "succeed"]
       \/ /\ ~Consumable(c, req[r].at)
          /\ req' = [req EXCEPT ![r] = Idle]
          /\ UNCHANGED <<challenge, session>>
    /\ UNCHANGED <<now, failures, before, deaths>>

\* Mutant: a success takes one failure back.
RecordSuccessOnce(r) ==
    /\ req[r].pc = "succeed"
    /\ failures' = [failures EXCEPT ![req[r].challenge] = @ - 1]
    /\ req' = [req EXCEPT ![r] = Idle]
    /\ UNCHANGED <<now, challenge, session, before, deaths>>

\* throttle.recordSuccess clears the count.
RecordSuccess(r) ==
    /\ req[r].pc = "succeed"
    /\ failures' = [failures EXCEPT ![req[r].challenge] = 0]
    /\ req' = [req EXCEPT ![r] = Idle]
    /\ UNCHANGED <<now, challenge, session, before, deaths>>

\* The request dies; a transaction that had not committed leaves nothing.
Die(r) ==
    /\ req[r].pc # "idle"
    /\ deaths < MaxDeaths
    /\ deaths' = deaths + 1
    /\ req' = [req EXCEPT ![r] = Idle]
    /\ UNCHANGED <<now, challenge, session, failures, before>>

Tick ==
    /\ now < MaxTime
    /\ now' = now + 1
    /\ UNCHANGED <<challenge, session, failures, req, before, deaths>>

-----------------------------------------------------------------------------
Issue(r) ==
    \/ \E a \in Accounts : AskForCode(r, a)
    \/ FindSuperseded(r)
    \/ IssueCode(r)

Verify(r) ==
    \/ \E c \in Challenges : Submit(r, c)
    \/ Compare(r)
    \/ RecordAttempt(r)
    \/ RecordFailure(r)
    \/ Consume(r)
    \/ RecordSuccess(r)

Next == (\E r \in Requests : Issue(r) \/ Verify(r) \/ Die(r)) \/ Tick

Spec == Init /\ [][Next]_vars

-----------------------------------------------------------------------------
(* Properties. *)

\* A code signs in once, and consuming it and creating its session are one:
\* of any number of verifications of the right code, one creates a session.
OneSessionPerCode ==
    \A c \in Challenges : session[c] = IF challenge[c].st = "consumed" THEN 1 ELSE 0

\* A code is never consumed after the allowed number of wrong attempts has been
\* recorded, also by a verification that compared it before.
ConsumedWithinLimit ==
    \A c \in Challenges : challenge[c].st = "consumed" => challenge[c].attempts < MaxAttempts

\* A newer code takes the place of the older ones: once it is on record, a code
\* that was on record when it was asked for can no longer be used.
NewerCodeWins ==
    \A c \in Challenges : \A d \in before[c] : ~Live(d)

\* The comment of issueOtpChallenge, `a reader never observes two live
\* challenges for the same account at once`.
OneLiveCode ==
    \A c, d \in Challenges :
        Live(c) /\ Live(d) /\ challenge[c].account = challenge[d].account => c = d
=============================================================================
