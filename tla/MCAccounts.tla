----------------------------- MODULE MCAccounts -----------------------------
(***************************************************************************)
(* The sessions, and the one-time codes they begin with, checked one       *)
(* beside the other.  A behaviour picks the codes, or the sessions in one  *)
(* of two bounds: two sessions over a short time, with every interleaving  *)
(* of sign-ins and changes of the accounts, or one session over a clock    *)
(* past both of its lifetimes; or one of three instances of the sign-in by *)
(* password: three logins guessing one name under a limit of one, or two   *)
(* logins beside an administrator, over the tables of all processes or     *)
(* over the memory of one.                                                 *)
(***************************************************************************)
EXTENDS Sessions, TLC

CONSTANTS h1, h2, s1, s2,
          Recipients,   \* the accounts codes are sent to
          Challenges, Life, MaxAttempts, FailureLimit, MaxMoment, MaxDeaths, c1, c2, c3

VARIABLES part,
          moment, challenge, opened, failures, asker, before, deaths,
          clock, holder, bucket, gate, login, issued, admin, logins, upsets

\* Both accounts may administer, as an administrator and its successor do.
MCFirstRole == [a \in Accounts |-> "admin"]

C == INSTANCE OneTimeCode WITH
    now <- moment, session <- opened, req <- asker,
    Accounts <- Recipients, MaxTime <- MaxMoment

ASSUME CodesAssumption ==
    /\ NoOne \notin Recipients \cup Challenges
    /\ Life \in Nat \ {0}
    /\ MaxAttempts \in Nat \ {0}
    /\ FailureLimit \in Nat
    /\ MaxMoment \in Nat
    /\ MaxDeaths \in Nat

Guessing == INSTANCE Login WITH
    now <- clock, account <- holder, changes <- upsets,
    Requests <- {1, 2, 3}, Processes <- {1}, Users <- {"ann"}, Networks <- {"net"},
    Shared <- TRUE, AccountLimit <- 1, NetworkLimit <- 3, Window <- 1, MaxConcurrent <- 1,
    MaxWaiting <- 1, MaxTime <- 1, MaxLogins <- 4, MaxChanges <- 0

Tables == INSTANCE Login WITH
    now <- clock, account <- holder, changes <- upsets,
    Requests <- {1, 2, 3}, Processes <- {1}, Users <- {"ann"}, Networks <- {"net"},
    Shared <- TRUE, AccountLimit <- 1, NetworkLimit <- 2, Window <- 1, MaxConcurrent <- 1,
    MaxWaiting <- 1, MaxTime <- 0, MaxLogins <- 2, MaxChanges <- 1

Memory == INSTANCE Login WITH
    now <- clock, account <- holder, changes <- upsets,
    Requests <- {1, 2, 3}, Processes <- {1}, Users <- {"ann"}, Networks <- {"net"},
    Shared <- FALSE, AccountLimit <- 1, NetworkLimit <- 2, Window <- 1, MaxConcurrent <- 1,
    MaxWaiting <- 1, MaxTime <- 0, MaxLogins <- 2, MaxChanges <- 1

loginVars == <<clock, holder, bucket, gate, login, issued, admin, logins, upsets>>

ByPassword == {"guessing", "tables", "memory"}

codeVars == <<moment, challenge, opened, failures, asker, before, deaths>>

\* The other parts leave the logins alone.
NoLogins ==
    /\ clock = 0 /\ holder = 0 /\ bucket = 0 /\ gate = 0 /\ login = 0 /\ issued = 0
    /\ admin = 0 /\ logins = 0 /\ upsets = 0

MCInit ==
    /\ part \in {"codes", "standing", "lifetimes"} \cup ByPassword
    /\ Init
    /\ C!Init
    /\ IF part \in ByPassword THEN Guessing!Init ELSE NoLogins
    /\ part = "guessing" => holder["ann"].st = "active"

\* A behaviour in which a request died does with one code fewer.
FewCodes == deaths > 0 => \E c \in Challenges : challenge[c] = C!Absent

\* The lifetimes are those of one session: the others are never made.
OneSession == \A s, t \in SessionIds : Absent \notin {session[s], session[t]} => s = t

MCNext ==
    /\ UNCHANGED part
    /\ \/ part = "codes" /\ C!Next /\ UNCHANGED <<vars, loginVars>>
       \/ part = "standing" /\ Next /\ UNCHANGED <<codeVars, loginVars>>
       \/ part = "lifetimes" /\ Next /\ UNCHANGED <<codeVars, loginVars>>
       \/ part = "guessing" /\ Guessing!Next /\ UNCHANGED <<vars, codeVars>>
       \/ part = "tables" /\ Tables!Next /\ UNCHANGED <<vars, codeVars>>
       \/ part = "memory" /\ Memory!Next /\ UNCHANGED <<vars, codeVars>>

MCSpec == MCInit /\ [][MCNext]_<<part, vars, codeVars, loginVars>>

\* What the run takes of these steps.
Taken ==
    /\ part = "codes" => FewCodes'
    /\ part = "standing" => now' <= 1
    /\ part = "lifetimes" => OneSession'

RunSpec == MCInit /\ [][MCNext /\ Taken]_<<part, vars, codeVars, loginVars>>

\* Of the sessions alone.
StandingSpec == MCInit /\ part = "standing" /\ [][MCNext]_<<part, vars, codeVars, loginVars>>

\* The rows of codes and logins are well formed; no process
\* verifies or queues more passwords than its gate lets it (VerificationGate);
\* a session by password comes from the password an account had when the login
\* arrived or a later one; and logins at once guess no more of a name than the
\* limit and their number (login, recordFailure).
SignInsSound ==
    /\ C!TypeOK
    /\ part = "guessing" => Guessing!TypeOK /\ Guessing!GateHolds
    /\ part = "tables" => Tables!TypeOK /\ Tables!GateHolds
    /\ part = "memory" => Memory!TypeOK /\ Memory!GateHolds
    /\ part \in ByPassword => Guessing!SessionEarned /\ Guessing!GuessesBounded

\* A code creates one session, within its attempts, and a newer one replaces
\* it (consumeOtpChallengeAndCreateSession, issueOtpChallenge).
OneSessionPerCode == C!OneSessionPerCode
ConsumedWithinLimit == C!ConsumedWithinLimit
NewerCodeWins == C!NewerCodeWins

\* Requests are interchangeable, and so are codes and accounts with a session:
\* exchanging two codes exchanges the two accounts, which no part has both of.
Exchange(c, d) == (c :> d) @@ (d :> c) @@ (h1 :> h2) @@ (h2 :> h1)
AccountSymmetry == Permutations(Requests) \cup Permutations(SessionIds) \cup {Exchange(c1, c2), Exchange(c2, c3)}
=============================================================================
