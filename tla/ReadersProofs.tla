---------------------------- MODULE ReadersProofs ----------------------------
(***************************************************************************)
(* Signup for every number of requests, addresses and handlers, every      *)
(* lifetime of a code and every limit of attempts: what it promises, and   *)
(* that its rows implement RequestLife; the publication of any revisions   *)
(* with their cards; the limiter of any keys, limit and window; and the    *)
(* pages of any people, corpora and sizes, with the editors beside them.   *)
(***************************************************************************)
EXTENDS MCReaders, FiniteSetTheorems, SequenceTheorems, TLAPS

\* A handler names the row, or the address, it works on.
NamesInv ==
    \A h \in Handlers :
        /\ handler[h].pc \in {"insert", "invite"} => handler[h].address \in Addresses
        /\ handler[h].pc \in {"wrong", "right", "deny"} =>
              handler[h].request \in Requests /\ Exists(handler[h].request)

\* No row is half absent.
AbsentInv == \A r \in Requests : ~Exists(r) => row[r] = Absent

\* The unique index signup_requests_open_address.
OneOpen == \A a \in Addresses : \A q, r \in OpenOf(a) : q = r

Inv == TypeOK /\ NamesInv /\ AbsentInv /\ OneOpen /\ SignupSound

-----------------------------------------------------------------------------
(* The trigger. *)

\* A statement that counts an attempt, verifies or decides a request that was
\* not put away is let through by the trigger.
LEMMA GuardLetsThrough ==
    ASSUME NEW old \in SignupRow, NEW new \in SignupRow, ~old.superseded, ~new.superseded,
           new.attempts >= old.attempts,
           old.verified => new.verified,
           old.decision # "none" => new.decision = old.decision /\ new.account = old.account
    PROVE  GuardAllows(old, new)
BY DEF GuardAllows

\* What the UPDATE of insertSignupRequest finds may be put away.
LEMMA GuardPutsAway ==
    ASSUME TypeOK, NEW a, NEW at, NEW q \in Supersedable(a, at)
    PROVE  /\ GuardAllows(row[q], PutAway(q))
           /\ PutAway(q) \in SignupRow
<1>1. /\ row[q] \in SignupRow /\ row[q].decision = "none"
      /\ ~row[q].superseded /\ ~row[q].verified
  BY DEF Supersedable, OpenOf, TypeOK
<1>2. /\ PutAway(q) \in SignupRow /\ PutAway(q).attempts = row[q].attempts
      /\ row[q].attempts \in Nat
  BY <1>1 DEF PutAway, SignupRow
<1>3. PutAway(q) = [row[q] EXCEPT !.superseded = TRUE]
  BY DEF PutAway
<1>4. QED BY <1>1, <1>2, <1>3 DEF GuardAllows

-----------------------------------------------------------------------------
LEMMA InitInv == Init => Inv
<1> SUFFICES ASSUME Init PROVE Inv
  OBVIOUS
<1>1. Absent \in SignupRow /\ Idle \in HandlerRow
  BY DEF Absent, SignupRow, Idle, HandlerRow
<1>2. \A r \in Requests : row[r] = Absent
  BY DEF Init
<1>3. TypeOK
  BY <1>1, <1>2 DEF Init, TypeOK, Absent
<1>4. NamesInv /\ AbsentInv
  BY <1>2 DEF Init, NamesInv, AbsentInv, Idle
<1>5. OneOpen
  <2> Absent.address = NoOne
    BY DEF Absent
  <2>1. \A r \in Requests : row[r].address = NoOne
    BY <1>2
  <2>2. \A a \in Addresses : OpenOf(a) = {}
    BY <2>1, SignupAssumption DEF OpenOf
  <2>3. QED BY <2>2 DEF OneOpen
<1>6. SignupSound
  BY <1>2 DEF Init, SignupSound, ApprovalWhole, NeverRaised, SilenceForAReason, Absent
<1>7. QED BY <1>3, <1>4, <1>5, <1>6 DEF Inv

\* A handler goes on and writes no table.
LEMMA HandlerStep ==
    ASSUME Inv, NEW h \in Handlers, NEW new \in HandlerRow,
           handler' = [handler EXCEPT ![h] = new],
           UNCHANGED <<row, account, silent, raised>>, now' \in Nat,
           new.pc \in {"insert", "invite"} => new.address \in Addresses,
           new.pc \in {"wrong", "right", "deny"} => new.request \in Requests /\ Exists(new.request)
    PROVE  Inv'
<1>1. \A g \in Handlers : handler'[g] = IF g = h THEN new ELSE handler[g]
  BY DEF Inv, TypeOK
<1>2. TypeOK'
  BY DEF Inv, TypeOK
<1>3. NamesInv'
  BY <1>1 DEF Inv, NamesInv, Exists
<1>4. AbsentInv' /\ OneOpen' /\ SignupSound'
  BY DEF Inv, AbsentInv, Exists, OneOpen, OpenOf, SignupSound, ApprovalWhole, NeverRaised,
         SilenceForAReason
<1>5. QED BY <1>2, <1>3, <1>4 DEF Inv

\* A handler ends, after a step that took no row away.
LEMMA FinishNames ==
    ASSUME Inv, NEW h \in Handlers, Finish(h), \A r \in Requests : Exists(r) => Exists(r)'
    PROVE  /\ handler' \in [Handlers -> HandlerRow]
           /\ NamesInv'
<1>1. Idle \in HandlerRow /\ Idle.pc = "idle"
  BY DEF Idle, HandlerRow
<1>2. \A g \in Handlers : handler'[g] = IF g = h THEN Idle ELSE handler[g]
  BY DEF Finish, Inv, TypeOK
<1>3. handler' \in [Handlers -> HandlerRow]
  BY <1>1 DEF Finish, Inv, TypeOK
<1>4. NamesInv'
  BY <1>1, <1>2 DEF Inv, NamesInv
<1>5. QED BY <1>3, <1>4

\* A row that stays where it is, or is verified or denied.
Onwards(old, new) ==
    /\ ~old.superseded /\ ~new.superseded
    /\ new.address = old.address /\ new.account = old.account
    /\ new.attempts >= old.attempts
    /\ old.verified => new.verified
    /\ new.decision = old.decision \/ (old.decision = "none" /\ new.decision = "denied")
    /\ new.decision # "none" => new.verified

\* The columns recordSignupAttempt, verifySignupRequest and decideSignupRequest set.
LEMMA Counted ==
    ASSUME NEW old \in SignupRow, ~old.superseded, old.decision # "none" => old.verified,
           NEW new, new = [old EXCEPT !.attempts = @ + 1]
    PROVE  new \in SignupRow /\ Onwards(old, new)
<1>1. new \in SignupRow /\ ~new.superseded
  BY DEF SignupRow
<1>2. new.address = old.address /\ new.account = old.account /\ new.decision = old.decision
  BY DEF SignupRow
<1>3. new.attempts >= old.attempts /\ new.verified = old.verified
  BY DEF SignupRow
<1>4. QED BY <1>1, <1>2, <1>3 DEF Onwards

LEMMA Verified ==
    ASSUME NEW old \in SignupRow, ~old.superseded, old.decision = "none",
           NEW new, new = [old EXCEPT !.verified = TRUE]
    PROVE  new \in SignupRow /\ Onwards(old, new)
<1>1. new \in SignupRow /\ ~new.superseded
  BY DEF SignupRow
<1>2. new.address = old.address /\ new.account = old.account /\ new.decision = old.decision
  BY DEF SignupRow
<1>3. new.attempts >= old.attempts /\ new.verified
  BY DEF SignupRow
<1>4. QED BY <1>1, <1>2, <1>3 DEF Onwards

LEMMA Denied ==
    ASSUME NEW old \in SignupRow, ~old.superseded, old.decision = "none", old.verified,
           NEW new, new = [old EXCEPT !.decision = "denied"]
    PROVE  new \in SignupRow /\ Onwards(old, new)
BY DEF SignupRow, Onwards

LEMMA Approved ==
    ASSUME NEW old \in SignupRow, ~old.superseded, old.decision = "none", old.verified,
           NEW new, new = [old EXCEPT !.decision = "approved", !.account = TRUE]
    PROVE  /\ new \in SignupRow /\ GuardAllows(old, new)
           /\ new.address = old.address /\ ~new.superseded /\ new.account
           /\ new.decision = "approved" /\ new.verified
<1>1. new \in SignupRow
  BY DEF SignupRow
<1>2. new.attempts >= old.attempts /\ new.address = old.address
  BY DEF SignupRow
<1>3. new.decision = "approved" /\ new.account
  BY DEF SignupRow
<1>4. ~new.superseded /\ new.verified
  BY DEF SignupRow
<1>5. QED BY <1>1, <1>2, <1>3, <1>4, GuardLetsThrough

\* It keeps every promise.
LEMMA UpdateStep ==
    ASSUME Inv, NEW h \in Handlers, Finish(h), NEW r \in Requests, Exists(r),
           NEW new \in SignupRow, Update(r, new), Onwards(row[r], new),
           UNCHANGED <<now, account, silent>>
    PROVE  Inv'
<1>0. row[r] \in SignupRow /\ GuardAllows(row[r], new)
  BY GuardLetsThrough DEF Onwards, Inv, TypeOK
<1>1. /\ raised' = raised
      /\ row' = [row EXCEPT ![r] = new]
  BY <1>0 DEF Update, Inv, TypeOK
<1>2. \A q \in Requests : row'[q] = IF q = r THEN new ELSE row[q]
  BY <1>1 DEF Inv, TypeOK
<1>3. \A q \in Requests : row'[q].address = row[q].address
  BY <1>2 DEF Onwards
<1>4. /\ handler' \in [Handlers -> HandlerRow]
      /\ NamesInv'
  BY <1>3, FinishNames DEF Exists
<1>5. row' \in [Requests -> SignupRow]
  BY <1>1 DEF Inv, TypeOK
<1>6. TypeOK'
  BY <1>1, <1>2, <1>4, <1>5 DEF Inv, TypeOK, SignupRow, Onwards
<1>7. AbsentInv'
  BY <1>2 DEF Inv, AbsentInv, Exists, Onwards
<1>8. \A q \in Requests : row'[q].decision = "none" /\ ~row'[q].superseded =>
                          row[q].decision = "none" /\ ~row[q].superseded
  BY <1>2 DEF Onwards
<1>9. \A a \in Addresses : OpenOf(a)' \subseteq OpenOf(a)
  BY <1>3, <1>8 DEF OpenOf
<1>10. OneOpen'
  BY <1>9 DEF Inv, OneOpen
<1>11. ApprovalWhole'
  BY <1>2 DEF Inv, SignupSound, ApprovalWhole, TypeOK, Onwards
<1>12. SignupSound'
  BY <1>1, <1>11 DEF Inv, SignupSound, NeverRaised, SilenceForAReason
<1>13. QED BY <1>4, <1>6, <1>7, <1>10, <1>12 DEF Inv

\* A handler that found nothing to write ends.
LEMMA EndInv ==
    ASSUME Inv, NEW h \in Handlers, Finish(h), UNCHANGED <<now, row, account, silent, raised>>
    PROVE  Inv'
<1>1. Idle \in HandlerRow /\ Idle.pc = "idle"
  BY DEF Idle, HandlerRow
<1>2. QED BY <1>1, HandlerStep DEF Finish, Inv, TypeOK

-----------------------------------------------------------------------------
\* The row insertSignupRequest writes.
LEMMA NewRow ==
    ASSUME NEW a \in Addresses, NEW until \in Nat, NEW new,
           new = [Absent EXCEPT !.address = a, !.expires = until]
    PROVE  /\ new \in SignupRow /\ new.address = a /\ new.decision = "none"
           /\ ~new.verified /\ ~new.account /\ ~new.superseded
BY DEF Absent, SignupRow

LEMMA InsertRequestInv ==
    ASSUME Inv, NEW h \in Handlers, NEW r \in Requests, InsertRequest(h, r)
    PROVE  Inv'
<1> DEFINE a == handler[h].address
           at == handler[h].at
           dead == Supersedable(a, at)
           new == [Absent EXCEPT !.address = a, !.expires = at + Life]
<1>1. /\ a \in Addresses /\ at \in Nat /\ ~Exists(r) /\ Finish(h)
      /\ UNCHANGED <<now, account>>
  BY DEF InsertRequest, Inv, NamesInv, TypeOK, HandlerRow
<1>2. dead \subseteq OpenOf(a) /\ OpenOf(a) \subseteq Requests
  BY DEF Supersedable, OpenOf
<1>3. \A q \in dead : GuardAllows(row[q], PutAway(q)) /\ PutAway(q) \in SignupRow
  BY GuardPutsAway DEF Inv
<1>4. CASE OpenOf(a) \ dead = {}
  <2>1. raised' = raised /\ UNCHANGED silent
    BY <1>3, <1>4 DEF InsertRequest, Inv, TypeOK
  <2>2. row' = [q \in Requests |-> IF q = r THEN new ELSE IF q \in dead THEN PutAway(q) ELSE row[q]]
    BY <1>4, <2>1 DEF InsertRequest
  <2>3. /\ new \in SignupRow /\ new.address = a /\ new.decision = "none"
        /\ ~new.verified /\ ~new.account /\ ~new.superseded
    <3>1. at + Life \in Nat
      BY <1>1, SignupAssumption
    <3>2. QED BY <1>1, <3>1, NewRow
  <2> HIDE DEF new, dead
  <2>4. \A q \in dead : /\ PutAway(q).address = a /\ row[q].address = a
                        /\ PutAway(q).decision = "none" /\ PutAway(q).superseded
                        /\ ~PutAway(q).verified /\ ~PutAway(q).account
                        /\ row[q].decision = "none" /\ ~row[q].account
    BY <1>2 DEF dead, Supersedable, OpenOf, PutAway, Inv, TypeOK, SignupRow
  <2>5. row' \in [Requests -> SignupRow]
    BY <1>3, <2>2, <2>3 DEF Inv, TypeOK
  <2>6. \A q \in Requests : Exists(q) => Exists(q)'
    BY <1>1, <2>2, <2>3, <2>4, SignupAssumption DEF Exists
  <2>7. handler' \in [Handlers -> HandlerRow] /\ NamesInv'
    BY <1>1, <2>6, FinishNames
  <2>8. \A q \in Requests : /\ row'[q].decision # "none" => row'[q].verified
                            /\ row'[q].account => row'[q].decision = "approved"
                            /\ row'[q].superseded => ~row'[q].verified /\ row'[q].decision = "none"
    BY <2>2, <2>3, <2>4 DEF Inv, TypeOK
  <2>9. TypeOK'
    BY <1>1, <2>1, <2>5, <2>7, <2>8 DEF Inv, TypeOK
  <2>10. AbsentInv'
    BY <1>1, <2>2, <2>3, <2>4, SignupAssumption DEF Inv, AbsentInv, Exists
  <2>11. \A b \in Addresses, q \in Requests \ {r} :
             q \in OpenOf(b)' => q \in OpenOf(b) /\ q \notin dead
    BY <2>2, <2>4 DEF OpenOf
  <2>12. \A b \in Addresses : OpenOf(b)' \subseteq Requests
    BY DEF OpenOf
  <2>13. \A b \in Addresses : r \in OpenOf(b)' => b = a
    BY <2>2, <2>3 DEF OpenOf
  <2>14. OneOpen'
    <3> SUFFICES ASSUME NEW b \in Addresses, NEW p \in OpenOf(b)', NEW q \in OpenOf(b)'
                 PROVE  p = q
      BY DEF OneOpen
    <3>1. CASE b = a
      BY <1>4, <2>11, <2>12, <3>1
    <3>2. CASE b # a
      BY <2>11, <2>12, <2>13, <3>2 DEF Inv, OneOpen
    <3>3. QED BY <3>1, <3>2
  <2>15. ApprovalWhole'
    <3>1. row[r].decision = "none" /\ ~row[r].account
      BY <1>1 DEF Inv, AbsentInv, Absent
    <3>2. QED BY <1>1, <2>2, <2>3, <2>4, <3>1 DEF Inv, SignupSound, ApprovalWhole
  <2>16. SignupSound'
    BY <2>1, <2>15 DEF Inv, SignupSound, NeverRaised, SilenceForAReason
  <2>17. QED BY <2>7, <2>9, <2>10, <2>14, <2>16 DEF Inv
<1>5. CASE OpenOf(a) \ dead # {}
  <2>1. PICK q \in OpenOf(a) : q \notin dead
    BY <1>5
  <2>2. ~(~row[q].verified /\ row[q].expires <= at)
    BY <2>1 DEF Supersedable
  <2>3. silent' = silent
    BY <1>5, <2>1, <2>2 DEF InsertRequest, Inv, TypeOK
  <2>4. QED BY <1>1, <1>5, <2>3, EndInv DEF InsertRequest
<1>6. QED BY <1>4, <1>5

-----------------------------------------------------------------------------
\* The handlers that read first.
LEMMA AskForAccessInv ==
    ASSUME Inv, NEW h \in Handlers, NEW a \in Addresses, AskForAccess(h, a)
    PROVE  Inv'
<1> DEFINE new == [Idle EXCEPT !.pc = "insert", !.at = now, !.address = a]
<1>1. now \in Nat /\ now' \in Nat
  BY DEF AskForAccess, Inv, TypeOK
<1>2. new \in HandlerRow /\ new.pc = "insert" /\ new.address = a
  BY <1>1 DEF Idle, HandlerRow
<1>3. handler' = [handler EXCEPT ![h] = new] /\ UNCHANGED <<row, account, silent, raised>>
  BY DEF AskForAccess
<1> HIDE DEF new
<1>4. QED BY <1>1, <1>2, <1>3, HandlerStep

LEMMA ReadForInvitationInv ==
    ASSUME Inv, NEW h \in Handlers, NEW a \in Addresses, ReadForInvitation(h, a)
    PROVE  Inv'
<1> DEFINE new == [Idle EXCEPT !.pc = "invite", !.address = a]
<1>1. now' \in Nat
  BY DEF ReadForInvitation, Inv, TypeOK
<1>2. new \in HandlerRow /\ new.pc = "invite" /\ new.address = a
  BY DEF Idle, HandlerRow
<1>3. handler' = [handler EXCEPT ![h] = new] /\ UNCHANGED <<row, account, silent, raised>>
  BY DEF ReadForInvitation
<1> HIDE DEF new
<1>4. QED BY <1>1, <1>2, <1>3, HandlerStep

LEMMA PresentCodeInv ==
    ASSUME Inv, NEW h \in Handlers, NEW r \in Requests, PresentCode(h, r)
    PROVE  Inv'
<1>1. PICK pc \in {"wrong", "right"} :
          handler' = [handler EXCEPT ![h] = [Idle EXCEPT !.pc = pc, !.at = now, !.request = r]]
  BY DEF PresentCode
<1> DEFINE new == [Idle EXCEPT !.pc = pc, !.at = now, !.request = r]
<1>2. now \in Nat /\ now' \in Nat /\ Exists(r)
  BY DEF PresentCode, Comparable, Inv, TypeOK
<1>3. new \in HandlerRow /\ new.pc = pc /\ new.request = r
  BY <1>2 DEF Idle, HandlerRow
<1>4. handler' = [handler EXCEPT ![h] = new] /\ UNCHANGED <<row, account, silent, raised>>
  BY <1>1 DEF PresentCode
<1> HIDE DEF new
<1>5. QED BY <1>2, <1>3, <1>4, HandlerStep

LEMMA ReadForDenialInv ==
    ASSUME Inv, NEW h \in Handlers, NEW r \in Requests, ReadForDenial(h, r)
    PROVE  Inv'
<1> DEFINE new == [Idle EXCEPT !.pc = "deny", !.request = r]
<1>1. now' \in Nat /\ Exists(r)
  BY DEF ReadForDenial, Inv, TypeOK
<1>2. new \in HandlerRow /\ new.pc = "deny" /\ new.request = r
  BY DEF Idle, HandlerRow
<1>3. handler' = [handler EXCEPT ![h] = new] /\ UNCHANGED <<row, account, silent, raised>>
  BY DEF ReadForDenial
<1> HIDE DEF new
<1>4. QED BY <1>1, <1>2, <1>3, HandlerStep

-----------------------------------------------------------------------------
\* The handlers that write the row they read.
LEMMA WrongCodeInv ==
    ASSUME Inv, NEW h \in Handlers, WrongCode(h)
    PROVE  Inv'
<1> DEFINE r == handler[h].request
           new == [row[r] EXCEPT !.attempts = @ + 1]
<1>1. r \in Requests /\ Exists(r) /\ Finish(h) /\ UNCHANGED <<now, account, silent>>
  BY DEF WrongCode, Inv, NamesInv
<1>2. CASE Countable(r)
  <2>1. /\ row[r] \in SignupRow /\ ~row[r].superseded /\ Update(r, new)
        /\ row[r].decision # "none" => row[r].verified
    BY <1>1, <1>2 DEF WrongCode, Countable, Inv, TypeOK
  <2>2. new \in SignupRow /\ Onwards(row[r], new)
    BY <2>1, Counted
  <2> HIDE DEF new, r
  <2>3. QED BY <1>1, <2>1, <2>2, UpdateStep
<1>3. CASE ~Countable(r)
  BY <1>1, <1>3, EndInv DEF WrongCode
<1>4. QED BY <1>2, <1>3

LEMMA RightCodeInv ==
    ASSUME Inv, NEW h \in Handlers, RightCode(h)
    PROVE  Inv'
<1> DEFINE r == handler[h].request
           new == [row[r] EXCEPT !.verified = TRUE]
           due == ~row[r].verified /\ row[r].decision = "none" /\ ~row[r].superseded
<1>1. r \in Requests /\ Exists(r) /\ Finish(h) /\ UNCHANGED <<now, account, silent>>
  BY DEF RightCode, Inv, NamesInv
<1>2. CASE due
  <2>1. row[r] \in SignupRow /\ ~row[r].superseded /\ row[r].decision = "none" /\ Update(r, new)
    BY <1>1, <1>2 DEF RightCode, Inv, TypeOK
  <2>2. new \in SignupRow /\ Onwards(row[r], new)
    BY <2>1, Verified
  <2> HIDE DEF new, r
  <2>3. QED BY <1>1, <2>1, <2>2, UpdateStep
<1>3. CASE ~due
  BY <1>1, <1>3, EndInv DEF RightCode
<1>4. QED BY <1>2, <1>3

LEMMA DenyInv ==
    ASSUME Inv, NEW h \in Handlers, Deny(h)
    PROVE  Inv'
<1> DEFINE r == handler[h].request
           new == [row[r] EXCEPT !.decision = "denied"]
<1>1. r \in Requests /\ Exists(r) /\ Finish(h) /\ UNCHANGED <<now, account, silent>>
  BY DEF Deny, Inv, NamesInv
<1>2. CASE Pending(r)
  <2>1. /\ row[r] \in SignupRow /\ ~row[r].superseded /\ row[r].verified
        /\ row[r].decision = "none" /\ Update(r, new)
    BY <1>1, <1>2 DEF Deny, Pending, Inv, TypeOK
  <2>2. new \in SignupRow /\ Onwards(row[r], new)
    BY <2>1, Denied
  <2> HIDE DEF new, r
  <2>3. QED BY <1>1, <2>1, <2>2, UpdateStep
<1>3. CASE ~Pending(r)
  BY <1>1, <1>3, EndInv DEF Deny
<1>4. QED BY <1>2, <1>3

-----------------------------------------------------------------------------
\* The accounts.
LEMMA ApproveInv ==
    ASSUME Inv, NEW r \in Requests, Approve(r)
    PROVE  Inv'
<1> DEFINE new == [row[r] EXCEPT !.decision = "approved", !.account = TRUE]
           a == row[r].address
<1>1. /\ row[r] \in SignupRow /\ row[r].verified /\ row[r].decision = "none"
      /\ ~row[r].superseded /\ Update(r, new) /\ account[a] = NoOne
      /\ account' = [account EXCEPT ![a] = r] /\ UNCHANGED <<now, handler, silent>>
  BY DEF Approve, Pending, Free, Inv, TypeOK
<1>2. Exists(r)
  BY <1>1 DEF Inv, AbsentInv, Absent
<1>3. a \in Addresses
  BY <1>1, <1>2 DEF Exists, SignupRow
<1>4. /\ new \in SignupRow /\ new.address = a /\ ~new.superseded /\ new.account
      /\ new.decision = "approved" /\ new.verified
  BY <1>1, Approved
<1>5. GuardAllows(row[r], new)
  BY <1>1, Approved
<1> HIDE DEF new
<1>6. raised' = raised /\ row' = [row EXCEPT ![r] = new]
  BY <1>1, <1>5 DEF Update, Inv, TypeOK
<1>7. \A q \in Requests : row'[q] = IF q = r THEN new ELSE row[q]
  BY <1>6 DEF Inv, TypeOK
<1>8. \A b \in Addresses : account'[b] = IF b = a THEN r ELSE account[b]
  BY <1>1 DEF Inv, TypeOK
<1>9. TypeOK'
  <2>1. row' \in [Requests -> SignupRow] /\ account' \in [Addresses -> Requests \cup {NoOne, "invited"}]
    BY <1>1, <1>3, <1>4, <1>6 DEF Inv, TypeOK
  <2>2. \A q \in Requests : /\ row'[q].decision # "none" => row'[q].verified
                            /\ row'[q].account => row'[q].decision = "approved"
                            /\ row'[q].superseded => ~row'[q].verified /\ row'[q].decision = "none"
    BY <1>4, <1>7 DEF Inv, TypeOK
  <2>3. QED BY <1>1, <1>6, <2>1, <2>2 DEF Inv, TypeOK
<1>10. \A q \in Requests : row'[q].address = row[q].address
  BY <1>4, <1>7
<1>11. NamesInv' /\ AbsentInv'
  BY <1>1, <1>2, <1>7, <1>10 DEF Inv, NamesInv, AbsentInv, Exists
<1>12. \A b \in Addresses : OpenOf(b)' \subseteq OpenOf(b)
  BY <1>4, <1>7 DEF OpenOf
<1>13. OneOpen'
  BY <1>12 DEF Inv, OneOpen
<1>14. ApprovalWhole'
  <2> SUFFICES ASSUME NEW q \in Requests
               PROVE  (row[q].decision = "approved" <=>
                          row[q].account /\ account[row[q].address] = q)'
    BY DEF ApprovalWhole
  <2>1. CASE q = r
    BY <1>3, <1>4, <1>7, <1>8, <2>1
  <2>2. CASE q # r
    <3>1. row'[q] = row[q]
      BY <1>7, <2>2
    <3>2. row[q].decision = "approved" <=> row[q].account /\ account[row[q].address] = q
      BY DEF Inv, SignupSound, ApprovalWhole
    <3>3. CASE row[q].decision = "approved"
      <4>1. /\ row[q].account /\ account[row[q].address] = q
            /\ row[q] \in SignupRow
        BY <3>2, <3>3 DEF Inv, TypeOK
      <4>2. row[q].address \in Addresses
        BY <4>1, <3>3 DEF Inv, AbsentInv, Exists, Absent, SignupRow
      <4>3. row[q].address # a
        BY <1>1, <4>1, SignupAssumption
      <4>4. QED BY <1>8, <3>1, <3>3, <4>1, <4>2, <4>3
    <3>4. CASE row[q].decision # "approved"
      BY <3>1, <3>4 DEF Inv, TypeOK
    <3>5. QED BY <3>3, <3>4
  <2>3. QED BY <2>1, <2>2
<1>15. SignupSound'
  BY <1>1, <1>6, <1>14 DEF Inv, SignupSound, NeverRaised, SilenceForAReason
<1>16. QED BY <1>9, <1>11, <1>13, <1>15 DEF Inv

LEMMA InviteInv ==
    ASSUME Inv, NEW h \in Handlers, Invite(h)
    PROVE  Inv'
<1> DEFINE a == handler[h].address
<1>1. a \in Addresses /\ Finish(h) /\ UNCHANGED <<now, row, silent, raised>>
  BY DEF Invite, Inv, NamesInv
<1>2. CASE Free(a)
  <2>1. account' = [account EXCEPT ![a] = "invited"] /\ account[a] = NoOne
    BY <1>2 DEF Invite, Free
  <2>2. handler' \in [Handlers -> HandlerRow] /\ NamesInv'
    BY <1>1, FinishNames DEF Exists
  <2>3. TypeOK'
    BY <1>1, <2>1, <2>2 DEF Inv, TypeOK
  <2>4. AbsentInv' /\ OneOpen'
    BY <1>1 DEF Inv, AbsentInv, OneOpen, OpenOf, Exists
  <2>5. ApprovalWhole'
    <3> SUFFICES ASSUME NEW q \in Requests
                 PROVE  (row[q].decision = "approved" <=>
                            row[q].account /\ account[row[q].address] = q)'
      BY DEF ApprovalWhole
    <3>1. row'[q] = row[q] /\ (row[q].account => row[q].decision = "approved")
      BY <1>1 DEF Inv, TypeOK
    <3>2. CASE row[q].decision = "approved"
      <4>1. /\ row[q].account /\ account[row[q].address] = q /\ row[q] \in SignupRow
        BY <3>2 DEF Inv, TypeOK, SignupSound, ApprovalWhole
      <4>2. row[q].address \in Addresses
        BY <4>1, <3>2 DEF Inv, AbsentInv, Exists, Absent, SignupRow
      <4>3. row[q].address # a
        BY <2>1, <4>1, SignupAssumption
      <4>4. account'[row[q].address] = q
        BY <2>1, <4>1, <4>2, <4>3 DEF Inv, TypeOK
      <4>5. QED BY <3>1, <3>2, <4>1, <4>4
    <3>3. CASE row[q].decision # "approved"
      BY <3>1, <3>3
    <3>4. QED BY <3>2, <3>3
  <2>6. SignupSound'
    BY <1>1, <2>5 DEF Inv, SignupSound, NeverRaised, SilenceForAReason
  <2>7. QED BY <2>2, <2>3, <2>4, <2>6 DEF Inv
<1>3. CASE ~Free(a)
  BY <1>1, <1>3, EndInv DEF Invite
<1>4. QED BY <1>2, <1>3

-----------------------------------------------------------------------------
LEMMA NextInv == Inv /\ [Next]_vars => Inv'
<1> SUFFICES ASSUME Inv, [Next]_vars PROVE Inv'
  OBVIOUS
<1>1. ASSUME NEW h \in Handlers, NEW a \in Addresses, AskForAccess(h, a) \/ ReadForInvitation(h, a)
      PROVE  Inv'
  BY <1>1, AskForAccessInv, ReadForInvitationInv
<1>2. ASSUME NEW h \in Handlers, NEW r \in Requests,
             InsertRequest(h, r) \/ PresentCode(h, r) \/ ReadForDenial(h, r)
      PROVE  Inv'
  BY <1>2, InsertRequestInv, PresentCodeInv, ReadForDenialInv
<1>3. ASSUME NEW h \in Handlers, WrongCode(h) \/ RightCode(h) \/ Deny(h) \/ Invite(h) \/ Die(h)
      PROVE  Inv'
  <2>1. CASE Die(h)
    BY <2>1, EndInv DEF Die
  <2>2. QED BY <1>3, <2>1, WrongCodeInv, RightCodeInv, DenyInv, InviteInv
<1>4. ASSUME NEW r \in Requests, Approve(r) PROVE Inv'
  BY <1>4, ApproveInv
<1>5. CASE Tick
  BY <1>5 DEF Tick, Inv, TypeOK, NamesInv, AbsentInv, OneOpen, OpenOf, Exists, SignupSound,
              ApprovalWhole, NeverRaised, SilenceForAReason
<1>6. CASE UNCHANGED vars
  BY <1>6 DEF vars, Inv, TypeOK, NamesInv, AbsentInv, OneOpen, OpenOf, Exists, SignupSound,
              ApprovalWhole, NeverRaised, SilenceForAReason
<1>7. QED BY <1>1, <1>2, <1>3, <1>4, <1>5, <1>6 DEF Next

LEMMA SpecInv == Spec => []Inv
BY InitInv, NextInv, PTL DEF Spec

\* The rows of sign-up, its accounts and its handlers keep their types and the
\* CHECKs of their tables (migrations 0017 and 0019).
THEOREM TypeCorrect == Spec => []TypeOK
BY SpecInv, PTL DEF Inv

\* An approved request and its account stand or fall together beside an
\* invitation of the same address, no statement is refused by the trigger of
\* the table, and an expired code never blocks its address, for every number
\* of handlers (apps/dashboard/src/server/dal/readers.ts).
THEOREM Soundness == Spec => []RequestsSound
BY SpecInv, PTL DEF Inv, RequestsSound

-----------------------------------------------------------------------------
(* The rows implement RequestLife. *)

life == [r \in Requests |-> Lives(r)]

LEMMA OnwardIs ==
    /\ Life_!Onward["absent"] = {"requested"}
    /\ Life_!Onward["requested"] = {"verified", "superseded"}
    /\ Life_!Onward["verified"] = {"approved", "denied"}
BY DEF Life_!Onward

\* A statement that moves one row.
LEMMA OneMoves ==
    ASSUME Inv, Inv', NEW r \in Requests, \A q \in Requests \ {r} : row'[q] = row[q],
           Lives(r)' = Lives(r) \/ Lives(r)' \in Life_!Onward[Lives(r)]
    PROVE  [Life_!Next]_life
<1>1. \A q \in Requests \ {r} : Lives(q)' = Lives(q)
  BY DEF Lives, Exists
<1>2. \A q \in Requests : Lives(q)' \in Life_!Stages
  <2> SUFFICES ASSUME NEW q \in Requests PROVE Lives(q)' \in Life_!Stages
    OBVIOUS
  <2>1. row'[q].decision \in {"none", "approved", "denied"}
    BY DEF Inv, TypeOK, SignupRow
  <2>2. QED BY <2>1 DEF Lives, Life_!Stages
<1>3. life' \in [Requests -> Life_!Stages]
  BY <1>2 DEF life
<1>4. \A q \in Requests : life[q] = Lives(q) /\ life'[q] = Lives(q)'
  BY DEF life
<1>5. QED BY <1>1, <1>3, <1>4 DEF Life_!Next

\* The UPDATE of a row that goes onwards moves its life at most one stage.
LEMMA UpdateMoves ==
    ASSUME Inv, Inv', NEW r \in Requests, NEW new \in SignupRow, Exists(r),
           Update(r, new), Onwards(row[r], new),
           row[r].verified \/ new.decision = "none"
    PROVE  [Life_!Next]_life
<1>1. GuardAllows(row[r], new)
  BY GuardLetsThrough DEF Onwards, Inv, TypeOK
<1>2. \A q \in Requests : row'[q] = IF q = r THEN new ELSE row[q]
  BY <1>1 DEF Update, Inv, TypeOK
<1>3. Lives(r)' = Lives(r) \/ Lives(r)' \in Life_!Onward[Lives(r)]
  <2>1. /\ row'[r] = new /\ Exists(r)'
        /\ row[r].decision \in {"none", "approved", "denied"}
    BY <1>2 DEF Exists, Onwards, Inv, TypeOK, SignupRow
  <2>2. CASE row[r].decision # "none"
    BY <2>1, <2>2 DEF Lives, Onwards
  <2>3. CASE row[r].decision = "none" /\ row[r].verified
    BY <2>1, <2>3, OnwardIs DEF Lives, Onwards
  <2>4. CASE row[r].decision = "none" /\ ~row[r].verified
    BY <2>1, <2>4, OnwardIs DEF Lives, Onwards
  <2>5. QED BY <2>2, <2>3, <2>4
<1>4. QED BY <1>2, <1>3, OneMoves

LEMMA SameRows == row' = row => UNCHANGED life
BY DEF life, Lives, Exists

LEMMA InsertMoves ==
    ASSUME Inv, Inv', NEW h \in Handlers, NEW r \in Requests, InsertRequest(h, r)
    PROVE  [Life_!Next]_life
<1> DEFINE a == handler[h].address
           at == handler[h].at
           dead == Supersedable(a, at)
           new == [Absent EXCEPT !.address = a, !.expires = at + Life]
<1>1. a \in Addresses /\ at \in Nat /\ ~Exists(r) /\ Inv
  BY DEF InsertRequest, Inv, NamesInv, TypeOK, HandlerRow
<1>2. dead \subseteq OpenOf(a) /\ OpenOf(a) \subseteq Requests
  BY DEF Supersedable, OpenOf
<1>3. \A q \in dead : GuardAllows(row[q], PutAway(q)) /\ PutAway(q) \in SignupRow
  BY GuardPutsAway DEF Inv
<1>4. CASE OpenOf(a) \ dead = {}
  <2>1. raised' = raised
    BY <1>3, <1>4 DEF InsertRequest, Inv, TypeOK
  <2>2. row' = [q \in Requests |-> IF q = r THEN new ELSE IF q \in dead THEN PutAway(q) ELSE row[q]]
    BY <1>4, <2>1 DEF InsertRequest
  <2>3. /\ new \in SignupRow /\ new.address = a /\ new.decision = "none"
        /\ ~new.verified /\ ~new.account /\ ~new.superseded
    <3>1. at + Life \in Nat
      BY <1>1, SignupAssumption
    <3>2. QED BY <1>1, <3>1, NewRow
  <2> HIDE DEF new
  <2>4. \A q \in dead : /\ PutAway(q).address = a /\ row[q].address = a
                        /\ PutAway(q).superseded /\ row[q].decision = "none"
                        /\ ~row[q].superseded /\ ~row[q].verified
    BY <1>2 DEF Supersedable, OpenOf, PutAway, Inv, TypeOK, SignupRow
  <2>5. \A p, q \in dead : p = q
    BY <1>1, <1>2 DEF Inv, OneOpen
  <2> HIDE DEF dead
  <2>6. r \notin dead
    BY <1>1, <2>4, SignupAssumption DEF Exists
  <2>7. Lives(r) = "absent" /\ Lives(r)' = "requested"
    BY <1>1, <2>2, <2>3, SignupAssumption DEF Lives, Exists
  <2>8. \A q \in dead : Lives(q) = "requested" /\ Lives(q)' = "superseded"
    BY <1>1, <1>2, <2>2, <2>4, <2>6, SignupAssumption DEF Lives, Exists
  <2>9. \A q \in Requests \ {r} : q \notin dead => Lives(q)' = Lives(q)
    BY <2>2 DEF Lives, Exists
  <2>10. \A q \in Requests : Lives(q)' \in Life_!Stages
    <3> SUFFICES ASSUME NEW q \in Requests PROVE Lives(q)' \in Life_!Stages
      OBVIOUS
    <3>1. row'[q].decision \in {"none", "approved", "denied"}
      BY DEF Inv, TypeOK, SignupRow
    <3>2. QED BY <3>1 DEF Lives, Life_!Stages
  <2>11. /\ life' \in [Requests -> Life_!Stages]
         /\ \A q \in Requests : life[q] = Lives(q) /\ life'[q] = Lives(q)'
    BY <2>10 DEF life
  <2>12. \A q \in Requests : life'[q] = life[q] \/ life'[q] \in Life_!Onward[life[q]]
    BY <2>7, <2>8, <2>9, <2>11, OnwardIs
  <2>13. \A p, q \in Requests : p # q /\ life'[p] # life[p] /\ life'[q] # life[q] =>
            {life'[p], life'[q]} = {"superseded", "requested"}
    BY <2>5, <2>7, <2>8, <2>9, <2>11
  <2>14. QED BY <2>11, <2>12, <2>13 DEF Life_!Next
<1>5. CASE OpenOf(a) \ dead # {}
  BY <1>5, SameRows DEF InsertRequest
<1>6. QED BY <1>4, <1>5

LEMMA WriteMoves ==
    ASSUME Inv, Inv', NEW h \in Handlers, WrongCode(h) \/ RightCode(h) \/ Deny(h)
    PROVE  [Life_!Next]_life
<1> DEFINE r == handler[h].request
<1>1. r \in Requests /\ Exists(r) /\ row[r] \in SignupRow
      /\ (row[r].decision # "none" => row[r].verified)
  BY DEF WrongCode, RightCode, Deny, Inv, NamesInv, TypeOK
<1>2. CASE row' = row
  BY <1>2, SameRows
<1>3. ASSUME NEW new, Update(r, new), new \in SignupRow, Onwards(row[r], new),
             row[r].verified \/ new.decision = "none"
      PROVE  [Life_!Next]_life
  BY <1>1, <1>3, UpdateMoves
<1>4. CASE WrongCode(h) /\ row' # row
  <2> DEFINE new == [row[r] EXCEPT !.attempts = @ + 1]
  <2>1. Update(r, new) /\ ~row[r].superseded
    BY <1>4 DEF WrongCode, Countable
  <2>2. new \in SignupRow /\ Onwards(row[r], new)
    BY <1>1, <2>1, Counted
  <2>3. new.decision = row[r].decision
    BY <1>1 DEF SignupRow
  <2> HIDE DEF new
  <2>4. QED BY <1>1, <1>3, <2>1, <2>2, <2>3
<1>5. CASE RightCode(h) /\ row' # row
  <2> DEFINE new == [row[r] EXCEPT !.verified = TRUE]
  <2>1. Update(r, new) /\ ~row[r].superseded /\ row[r].decision = "none"
    BY <1>5 DEF RightCode
  <2>2. new \in SignupRow /\ Onwards(row[r], new)
    BY <1>1, <2>1, Verified
  <2>3. new.decision = row[r].decision
    BY <1>1 DEF SignupRow
  <2> HIDE DEF new
  <2>4. QED BY <1>1, <1>3, <2>1, <2>2, <2>3
<1>6. CASE Deny(h) /\ row' # row
  <2> DEFINE new == [row[r] EXCEPT !.decision = "denied"]
  <2>1. Update(r, new) /\ row[r].decision = "none" /\ row[r].verified
    BY <1>6 DEF Deny, Pending
  <2>2. ~row[r].superseded
    BY <1>1, <2>1 DEF Inv, TypeOK
  <2>3. new \in SignupRow /\ Onwards(row[r], new)
    BY <1>1, <2>1, <2>2, Denied
  <2> HIDE DEF new
  <2>4. QED BY <1>3, <2>1, <2>3
<1>7. QED BY <1>2, <1>4, <1>5, <1>6

LEMMA ApproveMoves ==
    ASSUME Inv, Inv', NEW r \in Requests, Approve(r)
    PROVE  [Life_!Next]_life
<1>1. /\ row[r] \in SignupRow /\ row[r].verified /\ row[r].decision = "none"
      /\ ~row[r].superseded
  BY DEF Approve, Pending, Inv, TypeOK
<1>2. Exists(r)
  BY <1>1 DEF Inv, AbsentInv, Absent
<1> DEFINE new == [row[r] EXCEPT !.decision = "approved", !.account = TRUE]
<1>3. Update(r, new)
  BY DEF Approve
<1>4. /\ new.address = row[r].address /\ ~new.superseded
      /\ new.decision = "approved" /\ new.verified
  BY <1>1, Approved
<1>5. GuardAllows(row[r], new)
  BY <1>1, Approved
<1> HIDE DEF new
<1>7. \A q \in Requests : row'[q] = IF q = r THEN new ELSE row[q]
  BY <1>3, <1>5 DEF Update, Inv, TypeOK
<1>8. Lives(r) = "verified" /\ Lives(r)' = "approved"
  BY <1>1, <1>2, <1>4, <1>7 DEF Lives, Exists
<1>9. QED BY <1>7, <1>8, OneMoves, OnwardIs

LEMMA StepMoves == Inv /\ Inv' /\ [Next]_vars => [Life_!Next]_life
<1> SUFFICES ASSUME Inv, Inv', [Next]_vars PROVE [Life_!Next]_life
  OBVIOUS
<1>1. ASSUME NEW h \in Handlers, NEW a \in Addresses, AskForAccess(h, a) \/ ReadForInvitation(h, a)
      PROVE  [Life_!Next]_life
  BY <1>1, SameRows DEF AskForAccess, ReadForInvitation
<1>2. ASSUME NEW h \in Handlers, NEW r \in Requests, PresentCode(h, r) \/ ReadForDenial(h, r)
      PROVE  [Life_!Next]_life
  BY <1>2, SameRows DEF PresentCode, ReadForDenial
<1>3. ASSUME NEW h \in Handlers, Invite(h) \/ Die(h) PROVE [Life_!Next]_life
  BY <1>3, SameRows DEF Invite, Die
<1>4. CASE Tick \/ UNCHANGED vars
  BY <1>4, SameRows DEF Tick, vars
<1>5. QED BY <1>1, <1>2, <1>3, <1>4, InsertMoves, WriteMoves, ApproveMoves DEF Next

\* A request moves one way through its life, decided at most once and only
\* when verified, and one that expired is put away only by the request that
\* takes its place: the rows implement RequestLife.
THEOREM Refinement == Spec => ImplementsLife
<1>1. Init => Life_!Init
  <2> SUFFICES ASSUME Init PROVE Life_!Init
    OBVIOUS
  <2> Absent.address = NoOne
    BY DEF Absent
  <2>1. \A r \in Requests : Lives(r) = "absent"
    BY DEF Init, Lives, Exists
  <2>2. QED BY <2>1 DEF Life_!Init
<1>2. Inv /\ Inv' /\ [Next]_vars => [Life_!Next]_[r \in Requests |-> Lives(r)]
  BY StepMoves DEF life
<1>3. QED BY <1>1, <1>2, SpecInv, PTL DEF Spec, ImplementsLife, Life_!Spec
-----------------------------------------------------------------------------
(* Publication and its cards. *)

\* What a request knows is what the store still bears out: the story it has a
\* card of, the revision it found, and that it noticed what is published.
RowSound(h) ==
    LET r == reader[h] IN
    /\ r.pc \in {"lock", "insert"} => r.account \in Accounts
    /\ r.pc \in {"lock", "insert", "view", "image", "store", "render", "count"} => r.story \in Stories
    /\ r.pc \in {"lock", "insert", "store", "render", "unpublish"} => r.revision \in Revisions
    /\ r.pc \in {"view", "image", "store", "render"} => card[r.story] # NoOne
    /\ r.pc \in {"page", "view", "image"} => (P!Current # NoRevision => P!Current \in r.seen)
    /\ r.pc = "text" => r.revision \in r.seen
    /\ r.pc \in {"store", "render"} => r.shows = r.revision
    /\ r.pc \in {"render", "count", "served"} => r.shows \in r.seen
    /\ r.pc = "unpublish" => r.revision < revisions

\* A request about to insert holds the lock of a story that has no card.
LockSound(h) ==
    reader[h].pc = "insert" => lock[reader[h].story] = h /\ card[reader[h].story] = NoOne

\* An image shows the revision it is stored for.
ImageSound == \A s \in Stories, n \in Revisions : image[<<s, n>>] \in {NoRevision, n}

PubInv ==
    /\ P!TypeOK /\ ImageSound /\ ~wasted
    /\ \A h \in Handlers : RowSound(h) /\ LockSound(h)

LEMMA CurrentIs ==
    ASSUME P!TypeOK
    PROVE  /\ P!Current \in Revisions \cup {NoRevision}
           /\ P!Current # NoRevision => P!Current = last.revision /\ last.revision < revisions
BY DEF P!TypeOK, P!Record, P!Current

LEMMA PubInit == P!Init => PubInv
<1> SUFFICES ASSUME P!Init PROVE PubInv
  OBVIOUS
<1>1. P!Idle \in P!HandlerRow
  BY DEF P!Idle, P!HandlerRow
<1>2. last \in P!Record /\ last.revision = NoRevision
  BY DEF P!Init, P!Record
<1>3. P!TypeOK
  BY <1>1, <1>2 DEF P!Init, P!TypeOK
<1>4. \A h \in Handlers : reader[h].pc = "idle"
  BY DEF P!Init, P!Idle
<1>5. ImageSound /\ ~wasted
  BY DEF P!Init, ImageSound
<1>6. \A h \in Handlers : RowSound(h) /\ LockSound(h)
  BY <1>4 DEF RowSound, LockSound
<1>7. QED BY <1>3, <1>5, <1>6 DEF PubInv

\* A request that takes no part in a step keeps what it knows.
LEMMA Bystander ==
    ASSUME PubInv, NEW g \in Handlers, reader'[g] = reader[g],
           P!Current' \in {P!Current, NoRevision}, revisions' >= revisions, revisions' \in Nat,
           \A s \in Stories : card[s] # NoOne => card'[s] # NoOne
    PROVE  RowSound(g)'
<1>1. reader[g] \in P!HandlerRow /\ RowSound(g) /\ revisions \in Nat
  BY DEF PubInv, P!TypeOK
<1>2. ASSUME reader[g].pc = "unpublish" PROVE reader[g].revision < revisions'
  <2>1. reader[g].revision \in Nat /\ reader[g].revision < revisions
    BY <1>1, <1>2, ReadersAssumption DEF RowSound
  <2>2. \A n \in Nat : n < revisions => n < revisions'
    BY <1>1
  <2>3. QED BY <2>1, <2>2
<1>3. QED BY <1>1, <1>2 DEF RowSound

\* Most steps write nothing but the row of one request.
Writes(h, new) ==
    /\ reader' = [reader EXCEPT ![h] = new]
    /\ UNCHANGED <<revisions, last, card, image, wasted>>

LEMMA OneRow ==
    ASSUME PubInv, NEW h \in Handlers, NEW new \in P!HandlerRow, Writes(h, new),
           lock' \in [Stories -> Handlers \cup {NoOne}],
           \A g \in Handlers \ {h} : LockSound(g)',
           views' \in [Stories -> Nat], spent' \in [Accounts -> Nat],
           RowSound(h)', LockSound(h)'
    PROVE  PubInv'
<1>1. reader' \in [Handlers -> P!HandlerRow] /\ \A g \in Handlers \ {h} : reader'[g] = reader[g]
  BY DEF PubInv, P!TypeOK, Writes
<1>2. P!TypeOK'
  BY <1>1 DEF PubInv, P!TypeOK, Writes
<1>3. P!Current' = P!Current /\ ImageSound' /\ ~wasted'
  BY DEF PubInv, P!Current, ImageSound, Writes
<1>4. ASSUME NEW g \in Handlers \ {h} PROVE RowSound(g)'
  <2>1. revisions' >= revisions /\ revisions' \in Nat
    BY DEF Writes, PubInv, P!TypeOK
  <2>2. \A s \in Stories : card[s] # NoOne => card'[s] # NoOne
    BY DEF Writes
  <2>3. QED BY <1>1, <1>3, <2>1, <2>2, Bystander
<1>5. QED BY <1>2, <1>3, <1>4 DEF PubInv

\* The locks of the others stay theirs.
LEMMA Locks ==
    ASSUME PubInv, NEW h \in Handlers, NEW new, Writes(h, new),
           \A s \in Stories : lock[s] \notin {h, NoOne} => lock'[s] = lock[s]
    PROVE  \A g \in Handlers \ {h} : LockSound(g)'
<1> SUFFICES ASSUME NEW g \in Handlers \ {h} PROVE LockSound(g)'
  OBVIOUS
<1>1. reader'[g] = reader[g] /\ card' = card
  BY DEF PubInv, P!TypeOK, Writes
<1>2. LockSound(g) /\ RowSound(g)
  BY DEF PubInv
<1>3. g # NoOne
  BY ReadersAssumption
<1>4. QED BY <1>1, <1>2, <1>3 DEF LockSound, RowSound

-----------------------------------------------------------------------------
LEMMA ReviseKeeps == ASSUME PubInv, P!Revise PROVE PubInv'
<1>1. revisions' \in Nat /\ revisions' >= revisions
  BY DEF PubInv, P!TypeOK, P!Revise
<1>2. P!Current' = P!Current /\ ImageSound' /\ ~wasted'
  BY DEF PubInv, P!Revise, P!Current, ImageSound
<1>3. last.revision # NoRevision => last.revision < revisions'
  <2>1. last.revision # NoRevision => last.revision \in Nat /\ last.revision < revisions
    BY ReadersAssumption DEF PubInv, P!TypeOK, P!Record
  <2>2. \A n \in Nat : n < revisions => n < revisions'
    BY <1>1 DEF PubInv, P!TypeOK
  <2>3. QED BY <2>1, <2>2
<1>4. P!TypeOK'
  BY <1>1, <1>3 DEF PubInv, P!TypeOK, P!Revise
<1>5. ASSUME NEW h \in Handlers PROVE RowSound(h)' /\ LockSound(h)'
  BY <1>1, <1>2, Bystander DEF PubInv, P!Revise, LockSound
<1>6. QED BY <1>2, <1>4, <1>5 DEF PubInv

LEMMA PublishKeeps == ASSUME PubInv, NEW n \in Revisions, P!Publish(n) PROVE PubInv'
<1>1. P!Idle \in P!HandlerRow
  BY DEF P!Idle, P!HandlerRow
<1>2. n < revisions /\ last' = [revision |-> n, action |-> "publish"]
  BY DEF P!Publish, P!MayPublish
<1>3. P!Current' = n /\ last' \in P!Record
  BY <1>2 DEF P!Current, P!Record
<1>4. ASSUME NEW h \in Handlers
      PROVE  /\ reader'[h] \in P!HandlerRow
             /\ reader'[h].pc = reader[h].pc
             /\ reader[h].pc # "idle" =>
                   reader'[h] = [reader[h] EXCEPT !.seen = @ \cup {n}]
  <2>1. reader[h] \in P!HandlerRow
    BY DEF PubInv, P!TypeOK
  <2>2. CASE reader[h].pc = "idle"
    BY <1>1, <2>2 DEF P!Publish, P!Idle
  <2>3. CASE reader[h].pc # "idle"
    BY <2>1, <2>3 DEF P!Publish, P!HandlerRow
  <2>4. QED BY <2>2, <2>3
<1>5. P!TypeOK'
  BY <1>2, <1>3, <1>4 DEF PubInv, P!TypeOK, P!Publish
<1>6. ASSUME NEW h \in Handlers PROVE RowSound(h)' /\ LockSound(h)'
  <2>1. RowSound(h) /\ LockSound(h) /\ reader[h] \in P!HandlerRow
    BY DEF PubInv, P!TypeOK
  <2>2. CASE reader[h].pc = "idle"
    BY <1>4, <2>2 DEF RowSound, LockSound
  <2>3. CASE reader[h].pc # "idle"
    <3>1. /\ reader'[h].story = reader[h].story /\ reader'[h].account = reader[h].account
          /\ reader'[h].revision = reader[h].revision /\ reader'[h].shows = reader[h].shows
          /\ reader'[h].seen = reader[h].seen \cup {n}
      BY <1>4, <2>1, <2>3 DEF P!HandlerRow
    <3>2. UNCHANGED <<revisions, card, lock>>
      BY DEF P!Publish
    <3>3. QED BY <1>3, <1>4, <2>1, <3>1, <3>2 DEF RowSound, LockSound
  <2>4. QED BY <2>2, <2>3
<1>7. QED BY <1>5, <1>6 DEF PubInv, P!Publish, ImageSound

LEMMA IdleRow ==
    ASSUME NEW h \in Handlers, reader'[h] = P!Idle
    PROVE  P!Idle \in P!HandlerRow /\ RowSound(h)' /\ LockSound(h)'
BY DEF P!Idle, P!HandlerRow, RowSound, LockSound

LEMMA UnpublishKeeps == ASSUME PubInv, NEW h \in Handlers, P!Unpublish(h) PROVE PubInv'
<1>1. /\ reader[h] \in P!HandlerRow /\ reader[h].pc = "unpublish"
      /\ last' = [revision |-> reader[h].revision, action |-> "unpublish"]
      /\ reader[h].revision \in Revisions /\ reader[h].revision < revisions
  BY DEF PubInv, P!TypeOK, P!Unpublish, RowSound
<1>2. /\ reader'[h] = P!Idle /\ \A g \in Handlers \ {h} : reader'[g] = reader[g]
      /\ reader' \in [Handlers -> P!HandlerRow]
  BY DEF PubInv, P!TypeOK, P!Unpublish, P!Become, P!Idle, P!HandlerRow
<1>3. P!Current' = NoRevision /\ last' \in P!Record /\ last'.revision < revisions
  BY <1>1 DEF P!Current, P!Record
<1>4. P!TypeOK'
  BY <1>2, <1>3 DEF PubInv, P!TypeOK, P!Unpublish
<1>5. ASSUME NEW g \in Handlers \ {h} PROVE RowSound(g)' /\ LockSound(g)'
  <2>1. revisions' >= revisions /\ revisions' \in Nat /\ card' = card /\ lock' = lock
    BY DEF PubInv, P!TypeOK, P!Unpublish
  <2>2. RowSound(g)'
    BY <1>2, <1>3, <2>1, Bystander
  <2>3. QED BY <1>2, <2>1, <2>2 DEF PubInv, LockSound
<1>6. RowSound(h)' /\ LockSound(h)'
  BY <1>2, IdleRow
<1>7. ImageSound' /\ ~wasted'
  BY DEF PubInv, P!Unpublish, ImageSound
<1>8. QED BY <1>4, <1>5, <1>6, <1>7 DEF PubInv

-----------------------------------------------------------------------------
\* A step that leaves the locks alone and inserts nothing.
LEMMA QuietRow ==
    ASSUME PubInv, NEW h \in Handlers, NEW new \in P!HandlerRow, Writes(h, new),
           lock' = lock, views' \in [Stories -> Nat], spent' = spent,
           new.pc # "insert", RowSound(h)'
    PROVE  PubInv'
<1>1. reader'[h] = new
  BY DEF Writes, PubInv, P!TypeOK
<1>2. LockSound(h)'
  BY <1>1 DEF LockSound
<1>3. \A g \in Handlers \ {h} : LockSound(g)'
  BY Locks
<1>4. lock' \in [Stories -> Handlers \cup {NoOne}] /\ spent' \in [Accounts -> Nat]
  BY DEF PubInv, P!TypeOK
<1>5. QED BY <1>2, <1>3, <1>4, OneRow

LEMMA ToIdle ==
    ASSUME PubInv, NEW h \in Handlers, Writes(h, P!Idle), UNCHANGED <<lock, views, spent>>
    PROVE  PubInv'
<1>1. reader'[h] = P!Idle
  BY DEF Writes, PubInv, P!TypeOK
<1>2. P!Idle \in P!HandlerRow /\ RowSound(h)'
  BY <1>1, IdleRow
<1>3. P!Idle.pc # "insert" /\ views' \in [Stories -> Nat]
  BY DEF P!Idle, PubInv, P!TypeOK
<1>4. QED BY <1>2, <1>3, QuietRow

\* The steps of a page, and the first of the other requests.
LEMMA ReadForUnpublishKeeps ==
    ASSUME PubInv, NEW h \in Handlers, P!ReadForUnpublish(h) PROVE PubInv'
<1> DEFINE new == [P!Idle EXCEPT !.pc = "unpublish", !.revision = P!Current]
<1>1. P!Current \in Revisions /\ P!Current < revisions
  BY CurrentIs DEF PubInv, P!ReadForUnpublish
<1>2. new \in P!HandlerRow /\ new.pc = "unpublish" /\ new.revision = P!Current
  BY <1>1 DEF P!Idle, P!HandlerRow
<1>3. Writes(h, new) /\ UNCHANGED <<lock, views, spent>>
  BY DEF P!ReadForUnpublish, P!Become, Writes
<1> HIDE DEF new
<1>4. reader'[h] = new /\ revisions' = revisions /\ views' \in [Stories -> Nat]
  BY <1>3 DEF Writes, PubInv, P!TypeOK
<1>5. RowSound(h)'
  BY <1>1, <1>2, <1>4 DEF RowSound
<1>6. QED BY <1>2, <1>3, <1>4, <1>5, QuietRow

LEMMA OpenPageKeeps == ASSUME PubInv, NEW h \in Handlers, P!OpenPage(h) PROVE PubInv'
<1> DEFINE new == [P!Idle EXCEPT !.pc = "page", !.seen = P!Shown]
<1>1. P!Shown \subseteq Revisions /\ (P!Current # NoRevision => P!Current \in P!Shown)
  BY CurrentIs DEF PubInv, P!Shown
<1>2. new \in P!HandlerRow /\ new.pc = "page" /\ new.seen = P!Shown
  BY <1>1 DEF P!Idle, P!HandlerRow
<1>3. Writes(h, new) /\ UNCHANGED <<lock, views, spent>>
  BY DEF P!OpenPage, P!Become, Writes
<1> HIDE DEF new
<1>4. reader'[h] = new /\ P!Current' = P!Current /\ views' \in [Stories -> Nat]
  BY <1>3 DEF Writes, PubInv, P!TypeOK, P!Current
<1>5. RowSound(h)'
  BY <1>1, <1>2, <1>4 DEF RowSound
<1>6. QED BY <1>2, <1>3, <1>4, <1>5, QuietRow

LEMMA ReadCurrentKeeps == ASSUME PubInv, NEW h \in Handlers, P!ReadCurrent(h) PROVE PubInv'
<1> DEFINE new == [reader[h] EXCEPT !.pc = "text", !.revision = P!Current]
<1>1. reader[h] \in P!HandlerRow /\ RowSound(h) /\ reader[h].pc = "page"
  BY DEF PubInv, P!TypeOK, P!ReadCurrent
<1>2. CASE P!Current = NoRevision
  BY <1>2, ToIdle DEF P!ReadCurrent, P!Become, Writes
<1>3. CASE P!Current # NoRevision
  <2>1. P!Current \in Revisions /\ P!Current \in reader[h].seen
    BY <1>1, <1>3, CurrentIs DEF PubInv, RowSound
  <2>2. new \in P!HandlerRow /\ new.pc = "text" /\ new.revision \in new.seen
    BY <1>1, <2>1 DEF P!HandlerRow
  <2>3. Writes(h, new) /\ UNCHANGED <<lock, views, spent>>
    BY <1>3 DEF P!ReadCurrent, P!Become, Writes
  <2> HIDE DEF new
  <2>4. reader'[h] = new /\ views' \in [Stories -> Nat]
    BY <2>3 DEF Writes, PubInv, P!TypeOK
  <2>5. RowSound(h)'
    BY <2>2, <2>4 DEF RowSound
  <2>6. QED BY <2>2, <2>3, <2>4, <2>5, QuietRow
<1>4. QED BY <1>2, <1>3

LEMMA ReadTextKeeps == ASSUME PubInv, NEW h \in Handlers, P!ReadText(h) PROVE PubInv'
<1> DEFINE new == [reader[h] EXCEPT !.pc = "served", !.shows = reader[h].revision]
<1>1. /\ reader[h] \in P!HandlerRow /\ reader[h].pc = "text"
      /\ reader[h].revision \in reader[h].seen
  BY DEF PubInv, P!TypeOK, P!ReadText, RowSound
<1>2. new \in P!HandlerRow /\ new.pc = "served" /\ new.shows \in new.seen
  BY <1>1 DEF P!HandlerRow
<1>3. Writes(h, new) /\ UNCHANGED <<lock, views, spent>>
  BY DEF P!ReadText, P!Text, P!Become, Writes
<1> HIDE DEF new
<1>4. reader'[h] = new /\ views' \in [Stories -> Nat]
  BY <1>3 DEF Writes, PubInv, P!TypeOK
<1>5. RowSound(h)'
  BY <1>2, <1>4 DEF RowSound
<1>6. QED BY <1>2, <1>3, <1>4, <1>5, QuietRow

LEMMA AnswerKeeps == ASSUME PubInv, NEW h \in Handlers, P!Answer(h) PROVE PubInv'
BY ToIdle DEF P!Answer, P!Become, Writes

\* The steps of a card.
LEMMA ResolvedIs ==
    ASSUME P!TypeOK, NEW s, P!Resolved(s) # NoRevision
    PROVE  P!Resolved(s) = P!Current /\ P!Current # NoRevision /\ P!Current \in Revisions
BY CurrentIs DEF P!Resolved

LEMMA AskForCardKeeps ==
    ASSUME PubInv, NEW h \in Handlers, NEW s \in Stories, NEW a \in Accounts, P!AskForCard(h, s, a)
    PROVE  PubInv'
<1> DEFINE new == [P!Idle EXCEPT !.pc = "lock", !.story = s, !.account = a,
                                 !.revision = P!Resolved(s), !.seen = P!Shown]
<1>1. P!Resolved(s) \in Revisions /\ P!Shown \subseteq Revisions
  BY ResolvedIs, CurrentIs DEF PubInv, P!AskForCard, P!Shown
<1>2. /\ new \in P!HandlerRow /\ new.pc = "lock" /\ new.story = s /\ new.account = a
      /\ new.revision \in Revisions
  BY <1>1 DEF P!Idle, P!HandlerRow
<1>3. Writes(h, new) /\ UNCHANGED <<lock, views, spent>>
  BY DEF P!AskForCard, P!Become, Writes
<1> HIDE DEF new
<1>4. reader'[h] = new /\ views' \in [Stories -> Nat]
  BY <1>3 DEF Writes, PubInv, P!TypeOK
<1>5. RowSound(h)'
  BY <1>2, <1>4 DEF RowSound
<1>6. QED BY <1>2, <1>3, <1>4, <1>5, QuietRow

\* The step that takes the lock, where the limit is spent.
LEMMA DecideCardKeeps == ASSUME PubInv, NEW h \in Handlers, P!DecideCard(h) PROVE PubInv'
<1> DEFINE s == reader[h].story
           new == [reader[h] EXCEPT !.pc = "insert"]
<1>1. /\ reader[h] \in P!HandlerRow /\ reader[h].pc = "lock" /\ s \in Stories
      /\ reader[h].account \in Accounts /\ reader[h].revision \in Revisions /\ lock[s] = NoOne
  BY DEF PubInv, P!TypeOK, P!DecideCard, P!LockFree, RowSound
<1>2. spent' \in [Accounts -> Nat]
  BY <1>1 DEF P!DecideCard, PubInv, P!TypeOK
<1>3. views' \in [Stories -> Nat] /\ lock \in [Stories -> Handlers \cup {NoOne}]
  BY DEF P!DecideCard, PubInv, P!TypeOK
<1>4. CASE P!Become(h, P!Idle) /\ UNCHANGED lock
  <2>1. Writes(h, P!Idle)
    BY <1>4 DEF P!DecideCard, P!Become, Writes
  <2>2. reader'[h] = P!Idle
    BY <2>1 DEF Writes, PubInv, P!TypeOK
  <2>3. P!Idle \in P!HandlerRow /\ RowSound(h)' /\ LockSound(h)'
    BY <2>2, IdleRow
  <2>4. \A g \in Handlers \ {h} : LockSound(g)'
    BY <1>4, <2>1, Locks
  <2>5. QED BY <1>2, <1>3, <1>4, <2>1, <2>3, <2>4, OneRow
<1>5. CASE ~P!Made(h) /\ P!Step(h, "insert") /\ lock' = [lock EXCEPT ![s] = h]
  <2>1. card[s] = NoOne
    BY <1>5 DEF P!Made
  <2>2. /\ new \in P!HandlerRow /\ new.pc = "insert" /\ new.story = s
        /\ new.account \in Accounts /\ new.revision \in Revisions
    BY <1>1 DEF P!HandlerRow
  <2>3. Writes(h, new)
    BY <1>5 DEF P!DecideCard, P!Step, P!Become, Writes
  <2> HIDE DEF new
  <2>4. reader'[h] = new /\ card' = card /\ lock'[s] = h
    BY <1>1, <1>3, <1>5, <2>3 DEF Writes, PubInv, P!TypeOK
  <2>5. RowSound(h)'
    BY <1>1, <2>2, <2>4 DEF RowSound
  <2>6. LockSound(h)'
    BY <2>1, <2>2, <2>4 DEF LockSound
  <2>7. \A t \in Stories : lock[t] \notin {h, NoOne} => lock'[t] = lock[t]
    BY <1>1, <1>3, <1>5
  <2>8. \A g \in Handlers \ {h} : LockSound(g)'
    BY <2>3, <2>7, Locks
  <2>9. lock' \in [Stories -> Handlers \cup {NoOne}]
    BY <1>1, <1>3, <1>5
  <2>10. QED BY <1>2, <1>3, <2>2, <2>3, <2>5, <2>6, <2>8, <2>9, OneRow
<1>6. QED BY <1>4, <1>5 DEF P!DecideCard

LEMMA InsertCardKeeps == ASSUME PubInv, NEW h \in Handlers, P!InsertCard(h) PROVE PubInv'
<1> DEFINE s == reader[h].story
           new == [reader[h] EXCEPT !.pc = "store", !.shows = reader[h].revision]
<1>1. /\ reader[h] \in P!HandlerRow /\ reader[h].pc = "insert" /\ s \in Stories
      /\ reader[h].account \in Accounts /\ reader[h].revision \in Revisions
      /\ lock[s] = h /\ card[s] = NoOne
  BY DEF PubInv, P!TypeOK, P!InsertCard, RowSound, LockSound
<1>2. /\ card' = [card EXCEPT ![s] = reader[h].account] /\ reader' = [reader EXCEPT ![h] = new]
      /\ lock' = [lock EXCEPT ![s] = NoOne] /\ UNCHANGED <<revisions, last, views, image, spent, wasted>>
  BY <1>1 DEF P!InsertCard, P!Become
<1>3. /\ new \in P!HandlerRow /\ new.pc = "store" /\ new.story = s /\ new.revision \in Revisions
      /\ new.shows = new.revision
  BY <1>1 DEF P!HandlerRow
<1> HIDE DEF new
<1>4. card' \in [Stories -> Accounts \cup {NoOne}] /\ card'[s] # NoOne
      /\ \A t \in Stories \ {s} : card'[t] = card[t] /\ lock'[t] = lock[t]
  BY <1>1, <1>2, ReadersAssumption DEF PubInv, P!TypeOK
<1>5. reader' \in [Handlers -> P!HandlerRow] /\ reader'[h] = new
      /\ \A g \in Handlers \ {h} : reader'[g] = reader[g]
  BY <1>2, <1>3 DEF PubInv, P!TypeOK
<1>6. lock' \in [Stories -> Handlers \cup {NoOne}]
  BY <1>1, <1>2 DEF PubInv, P!TypeOK
<1>7. \A t \in Stories : card[t] # NoOne => card'[t] # NoOne
  BY <1>1, <1>4
<1>8. P!TypeOK'
  BY <1>2, <1>4, <1>5, <1>6, <1>7 DEF PubInv, P!TypeOK
<1>9. P!Current' = P!Current /\ ImageSound' /\ ~wasted'
  BY <1>2 DEF PubInv, P!Current, ImageSound
<1>10. RowSound(h)' /\ LockSound(h)'
  BY <1>1, <1>3, <1>4, <1>5 DEF RowSound, LockSound
<1>11. ASSUME NEW g \in Handlers \ {h} PROVE RowSound(g)' /\ LockSound(g)'
  <2>1. revisions' >= revisions /\ revisions' \in Nat
    BY <1>2 DEF PubInv, P!TypeOK
  <2>2. RowSound(g)'
    BY <1>5, <1>7, <1>9, <2>1, Bystander
  <2>3. RowSound(g) /\ LockSound(g)
    BY DEF PubInv
  <2>4. LockSound(g)'
    BY <1>1, <1>4, <1>5, <2>3 DEF RowSound, LockSound
  <2>5. QED BY <2>2, <2>4
<1>12. QED BY <1>8, <1>9, <1>10, <1>11 DEF PubInv

LEMMA StoreImageKeeps == ASSUME PubInv, NEW h \in Handlers, P!StoreImage(h) PROVE PubInv'
<1> DEFINE s == reader[h].story
           n == reader[h].revision
           k == <<s, n>>
<1>1. /\ reader[h] \in P!HandlerRow /\ s \in Stories /\ n \in Revisions /\ card[s] # NoOne
      /\ reader[h].shows = n /\ (reader[h].pc = "render" => reader[h].shows \in reader[h].seen)
  BY DEF PubInv, P!TypeOK, P!StoreImage, RowSound
<1>2. /\ image' = IF image[k] = NoRevision THEN [image EXCEPT ![k] = n] ELSE image
      /\ UNCHANGED <<revisions, last, card, views, lock, spent, wasted>>
  BY <1>1 DEF P!StoreImage, P!StoreKey
<1>3. k \in Stories \X Revisions /\ image \in [Stories \X Revisions -> Revisions \cup {NoRevision}]
  BY <1>1 DEF PubInv, P!TypeOK
<1>4. /\ image' \in [Stories \X Revisions -> Revisions \cup {NoRevision}]
      /\ \A t \in Stories, m \in Revisions : image'[<<t, m>>] = image[<<t, m>>]
                                             \/ (t = s /\ m = n /\ image'[<<t, m>>] = n)
  <2>1. CASE image[k] = NoRevision
    <3>1. image' = [image EXCEPT ![k] = n]
      BY <1>2, <2>1
    <3>2. ASSUME NEW t \in Stories, NEW m \in Revisions
          PROVE  image'[<<t, m>>] = image[<<t, m>>] \/ (t = s /\ m = n /\ image'[<<t, m>>] = n)
      BY <1>3, <3>1
    <3>3. QED BY <1>1, <1>3, <3>1, <3>2
  <2>2. CASE image[k] # NoRevision
    BY <1>2, <1>3, <2>2
  <2>3. QED BY <2>1, <2>2
<1>5. ImageSound'
  BY <1>4 DEF PubInv, ImageSound
<1>6. \A t \in Stories, m \in Revisions : image'[<<t, m>>] # NoRevision => card'[t] # NoOne
  BY <1>1, <1>2, <1>4 DEF PubInv, P!TypeOK
<1>7. PICK new \in P!HandlerRow :
         /\ reader' = [reader EXCEPT ![h] = new]
         /\ new = P!Idle \/ (new.pc = "served" /\ new.shows \in new.seen)
  <2>1. CASE reader[h].pc = "store"
    <3>1. P!Idle \in P!HandlerRow
      BY DEF P!Idle, P!HandlerRow
    <3>2. QED BY <2>1, <3>1 DEF P!StoreImage, P!Become
  <2>2. CASE reader[h].pc = "render"
    <3> DEFINE served == [reader[h] EXCEPT !.pc = "served"]
    <3>1. served \in P!HandlerRow /\ served.pc = "served" /\ served.shows \in served.seen
      BY <1>1, <2>2 DEF P!HandlerRow
    <3>2. QED BY <2>2, <3>1 DEF P!StoreImage, P!Become, P!Step
  <2>3. QED BY <2>1, <2>2 DEF P!StoreImage
<1>8. reader' \in [Handlers -> P!HandlerRow] /\ reader'[h] = new
      /\ \A g \in Handlers \ {h} : reader'[g] = reader[g]
  BY <1>7 DEF PubInv, P!TypeOK
<1>9. P!TypeOK'
  BY <1>2, <1>4, <1>6, <1>8 DEF PubInv, P!TypeOK
<1>10. RowSound(h)' /\ LockSound(h)'
  <2>1. CASE new = P!Idle
    BY <1>8, <2>1, IdleRow
  <2>2. CASE new.pc = "served" /\ new.shows \in new.seen
    BY <1>8, <2>2 DEF RowSound, LockSound
  <2>3. QED BY <1>7, <2>1, <2>2
<1>11. ASSUME NEW g \in Handlers \ {h} PROVE RowSound(g)' /\ LockSound(g)'
  <2>1. revisions' >= revisions /\ revisions' \in Nat /\ P!Current' = P!Current
    BY <1>2 DEF PubInv, P!TypeOK, P!Current
  <2>2. \A t \in Stories : card[t] # NoOne => card'[t] # NoOne
    BY <1>2
  <2>3. RowSound(g)'
    BY <1>8, <2>1, <2>2, Bystander
  <2>4. QED BY <1>2, <1>8, <2>3 DEF PubInv, LockSound
<1>12. QED BY <1>2, <1>5, <1>9, <1>10, <1>11 DEF PubInv

LEMMA OpenCardKeeps ==
    ASSUME PubInv, NEW h \in Handlers, NEW s \in Stories, P!OpenCard(h, s) PROVE PubInv'
<1>1. PICK pc \in {"view", "image"} :
         P!Become(h, [P!Idle EXCEPT !.pc = pc, !.story = s, !.seen = P!Shown])
  BY DEF P!OpenCard
<1> DEFINE new == [P!Idle EXCEPT !.pc = pc, !.story = s, !.seen = P!Shown]
<1>2. P!Shown \subseteq Revisions /\ (P!Current # NoRevision => P!Current \in P!Shown)
  BY CurrentIs DEF PubInv, P!Shown
<1>3. new \in P!HandlerRow /\ new.pc = pc /\ new.story = s /\ new.seen = P!Shown
  BY <1>2 DEF P!Idle, P!HandlerRow
<1>4. Writes(h, new) /\ UNCHANGED <<lock, views, spent>>
  BY <1>1 DEF P!OpenCard, P!Become, Writes
<1> HIDE DEF new
<1>5. /\ reader'[h] = new /\ P!Current' = P!Current /\ views' \in [Stories -> Nat]
      /\ card'[s] # NoOne
  BY <1>4 DEF Writes, PubInv, P!TypeOK, P!Current, P!OpenCard
<1>6. RowSound(h)'
  BY <1>2, <1>3, <1>5 DEF RowSound
<1>7. QED BY <1>3, <1>4, <1>5, <1>6, QuietRow

\* What a card shows: the revision resolved, or the image stored for it.
LEMMA ReadCardKeeps == ASSUME PubInv, NEW h \in Handlers, P!ReadCard(h) PROVE PubInv'
<1> DEFINE s == reader[h].story
           n == P!Resolved(s)
           seen == [reader[h] EXCEPT !.revision = n, !.shows = n]
           count == [seen EXCEPT !.pc = "count"]
           render == [seen EXCEPT !.pc = "render"]
           served == [seen EXCEPT !.pc = "served", !.shows = P!Cached(s, n)]
<1>1. /\ reader[h] \in P!HandlerRow /\ reader[h].pc \in {"view", "image"}
      /\ s \in Stories /\ card[s] # NoOne
      /\ P!Current # NoRevision => P!Current \in reader[h].seen
  BY DEF PubInv, P!TypeOK, P!ReadCard, RowSound
<1>2. CASE n = NoRevision
  BY <1>2, ToIdle DEF P!ReadCard, P!Become, Writes
<1>3. CASE n # NoRevision
  <2>1. n \in Revisions /\ n \in reader[h].seen
    BY <1>1, <1>3, ResolvedIs DEF PubInv
  <2>2. P!Cached(s, n) # NoRevision => P!Cached(s, n) = n
    BY <1>1, <2>1 DEF PubInv, ImageSound, P!Cached
  <2> HIDE DEF n
  <2>3. PICK new :
           /\ P!Become(h, new)
           /\ new = count \/ new = render \/ (new = served /\ P!Cached(s, n) # NoRevision)
    <3>1. CASE reader[h].pc = "view"
      BY <1>1, <1>3, <3>1 DEF P!ReadCard, n
    <3>2. CASE reader[h].pc # "view" /\ P!Cached(s, n) = NoRevision
      BY <1>1, <1>3, <3>2 DEF P!ReadCard, n
    <3>3. CASE reader[h].pc # "view" /\ P!Cached(s, n) # NoRevision
      BY <1>1, <1>3, <3>3 DEF P!ReadCard, n
    <3>4. QED BY <3>1, <3>2, <3>3
  <2>4. /\ new \in P!HandlerRow /\ new.pc \in {"count", "render", "served"} /\ new.story = s
        /\ new.revision = n /\ new.shows = n /\ new.seen = reader[h].seen
    <3>1. CASE new = count
      BY <1>1, <2>1, <3>1 DEF P!HandlerRow
    <3>2. CASE new = render
      BY <1>1, <2>1, <3>2 DEF P!HandlerRow
    <3>3. CASE new = served /\ P!Cached(s, n) # NoRevision
      BY <1>1, <2>1, <2>2, <3>3 DEF P!HandlerRow
    <3>4. QED BY <2>3, <3>1, <3>2, <3>3
  <2>5. Writes(h, new) /\ UNCHANGED <<lock, views, spent>>
    BY <2>3 DEF P!ReadCard, P!Become, Writes
  <2> HIDE DEF count, render, served
  <2>6. reader'[h] = new /\ card' = card /\ views' \in [Stories -> Nat]
    BY <2>5 DEF Writes, PubInv, P!TypeOK
  <2>7. RowSound(h)'
    BY <1>1, <2>1, <2>4, <2>6 DEF RowSound
  <2>8. new.pc # "insert"
    BY <2>4
  <2>9. QED BY <2>4, <2>5, <2>6, <2>7, <2>8, QuietRow
<1>4. QED BY <1>2, <1>3

LEMMA CountViewKeeps == ASSUME PubInv, NEW h \in Handlers, P!CountView(h) PROVE PubInv'
<1> DEFINE new == [reader[h] EXCEPT !.pc = "served"]
<1>1. /\ reader[h] \in P!HandlerRow /\ reader[h].shows \in reader[h].seen
      /\ reader[h].story \in Stories
  BY DEF PubInv, P!TypeOK, P!CountView, RowSound
<1>2. new \in P!HandlerRow /\ new.pc = "served" /\ new.shows \in new.seen
  BY <1>1 DEF P!HandlerRow
<1>3. Writes(h, new) /\ UNCHANGED <<lock, spent>>
  BY DEF P!CountView, P!Step, P!Become, Writes
<1> HIDE DEF new
<1>4. reader'[h] = new
  BY <1>3 DEF Writes, PubInv, P!TypeOK
<1>5. views' \in [Stories -> Nat]
  BY <1>1 DEF P!CountView, PubInv, P!TypeOK
<1>6. RowSound(h)'
  BY <1>2, <1>4 DEF RowSound
<1>7. QED BY <1>2, <1>3, <1>4, <1>5, <1>6, QuietRow

LEMMA DieKeeps == ASSUME PubInv, NEW h \in Handlers, P!Die(h) PROVE PubInv'
<1>1. Writes(h, P!Idle) /\ UNCHANGED <<views, spent>>
  BY DEF P!Die, P!Become, Writes
<1>2. reader'[h] = P!Idle
  BY <1>1 DEF Writes, PubInv, P!TypeOK
<1>3. P!Idle \in P!HandlerRow /\ RowSound(h)' /\ LockSound(h)'
  BY <1>2, IdleRow
<1>4. /\ lock' \in [Stories -> Handlers \cup {NoOne}]
      /\ \A s \in Stories : lock[s] \notin {h, NoOne} => lock'[s] = lock[s]
  BY DEF P!Die, PubInv, P!TypeOK
<1>5. \A g \in Handlers \ {h} : LockSound(g)'
  BY <1>1, <1>4, Locks
<1>6. views' \in [Stories -> Nat] /\ spent' \in [Accounts -> Nat]
  BY <1>1 DEF PubInv, P!TypeOK
<1>7. QED BY <1>1, <1>3, <1>4, <1>5, <1>6, OneRow

LEMMA PubNext == PubInv /\ [P!Next]_(P!vars) => PubInv'
<1> SUFFICES ASSUME PubInv, [P!Next]_(P!vars) PROVE PubInv'
  OBVIOUS
<1>1. CASE UNCHANGED P!vars
  BY <1>1 DEF P!vars, PubInv, P!TypeOK, P!Current, ImageSound, RowSound, LockSound
<1>2. CASE P!Revise
  BY <1>2, ReviseKeeps
<1>3. CASE \E n \in Revisions : P!Publish(n)
  BY <1>3, PublishKeeps
<1>4. ASSUME NEW h \in Handlers,
             P!ReadForUnpublish(h) \/ P!Unpublish(h) \/ P!OpenPage(h) \/ P!ReadCurrent(h) \/ P!ReadText(h)
      PROVE  PubInv'
  BY <1>4, ReadForUnpublishKeeps, UnpublishKeeps, OpenPageKeeps, ReadCurrentKeeps, ReadTextKeeps
<1>5. ASSUME NEW h \in Handlers, NEW s \in Stories,
             P!OpenCard(h, s) \/ \E a \in Accounts : P!AskForCard(h, s, a)
      PROVE  PubInv'
  BY <1>5, OpenCardKeeps, AskForCardKeeps
<1>6. ASSUME NEW h \in Handlers,
             P!DecideCard(h) \/ P!InsertCard(h) \/ P!StoreImage(h) \/ P!ReadCard(h)
             \/ P!CountView(h) \/ P!Answer(h) \/ P!Die(h)
      PROVE  PubInv'
  BY <1>6, DecideCardKeeps, InsertCardKeeps, StoreImageKeeps, ReadCardKeeps, CountViewKeeps,
     AnswerKeeps, DieKeeps
<1>7. QED BY <1>1, <1>2, <1>3, <1>4, <1>5, <1>6 DEF P!Next

\* What a page, a card or an image shows was the published text at some moment of
\* its request, and no limit is spent in vain, for any number of requests, stories
\* and revisions and whatever a revision's text states (publishedOutput, makeCard,
\* cardPage, cardImage).
THEOREM Published == MCSpec => []PublicationSound
<1>1. MCInit => PubInv
  BY PubInit DEF MCInit
<1>2. PubInv /\ [MCNext]_<<part, vars, pubVars, limVars, pageVars>> => PubInv'
  BY PubNext DEF MCNext, pubVars, P!vars
<1>3. PubInv => PublicationSound
  BY DEF PubInv, PublicationSound, P!ServedWasPublished, P!NothingSpentInVain, RowSound
<1>4. QED BY <1>1, <1>2, <1>3, PTL DEF MCSpec

-----------------------------------------------------------------------------
(* The limiter.  A key has a bucket, which began at start and counted count    *)
(* requests, and a history: a, when its requests passed, r, when they were     *)
(* refused, and t, when a trip was reported.                                   *)

Times == Seq(0..MaxInstant)

\* The requests of the present window that passed, the last of the history.
PassesOf(count) == IF count <= Limit THEN count ELSE Limit

\* A window's requests came since it began; those before it came before, and no
\* more than a limit of them within a window of its beginning; and so no more
\* than twice the limit of them lie within a window of each other.
Earlier(a, start, c) ==
    /\ c <= Len(a)
    /\ \A i \in DOMAIN a :
          /\ i > Len(a) - c => a[i] >= start /\ a[i] < start + Window
          /\ i <= Len(a) - c => a[i] < start
          /\ i + Limit <= Len(a) - c => a[i] + Window <= start

Apart(a) == \A i, j \in DOMAIN a : j >= i + 2 * Limit => a[j] >= a[i] + Window

PassesSound(a, start, count) == Earlier(a, start, PassesOf(count)) /\ Apart(a)

\* A window reports a trip exactly when it has counted past the limit.
TripsSound(t, start, count) ==
    /\ \A m \in DOMAIN t : t[m] < start + Window
    /\ count <= Limit => \A m \in DOMAIN t : t[m] < start
    /\ count > Limit => \E m \in DOMAIN t : t[m] >= start

Past(s, clock) == \A i \in DOMAIN s : s[i] <= clock

LEMMA Appended ==
    ASSUME NEW a \in Times, NEW x \in 0..MaxInstant
    PROVE  /\ Append(a, x) \in Times /\ Len(a) \in Nat /\ Len(Append(a, x)) = Len(a) + 1
           /\ DOMAIN a = 1..Len(a) /\ DOMAIN Append(a, x) = 1..(Len(a) + 1)
           /\ Append(a, x)[Len(a) + 1] = x
           /\ \A i \in 1..Len(a) : Append(a, x)[i] = a[i] /\ a[i] \in Nat
<1> DEFINE S == 0..MaxInstant
<1>1. S \subseteq Nat /\ a \in Seq(S) /\ x \in S
  BY DEF Times
<1> HIDE DEF S
<1>2. /\ Append(a, x) \in Seq(S) /\ Len(a) \in Nat /\ Len(Append(a, x)) = Len(a) + 1
      /\ DOMAIN a = 1..Len(a) /\ DOMAIN Append(a, x) = 1..(Len(a) + 1)
      /\ Append(a, x)[Len(a) + 1] = x
  BY <1>1
<1>3. \A i \in 1..Len(a) : Append(a, x)[i] = a[i] /\ a[i] \in S
  BY <1>1
<1>4. QED BY <1>1, <1>2, <1>3 DEF Times, S

LEMMA Entries == ASSUME NEW a \in Times PROVE \A i \in DOMAIN a : a[i] \in Nat
<1> DEFINE S == 0..MaxInstant
<1>1. S \subseteq Nat /\ a \in Seq(S)
  BY DEF Times
<1> HIDE DEF S
<1>2. DOMAIN a = 1..Len(a)
  BY <1>1
<1>3. \A i \in 1..Len(a) : a[i] \in S
  BY <1>1, ElementOfSeq
<1>4. QED BY <1>1, <1>2, <1>3

\* The request that opens a window passes.
LEMMA OpensSound ==
    ASSUME NEW a \in Times, NEW clock \in 0..MaxInstant, Apart(a),
           \A i \in DOMAIN a : a[i] < clock,
           \A i \in DOMAIN a : i + Limit <= Len(a) => a[i] + Window <= clock
    PROVE  PassesSound(Append(a, clock), clock, 1)
<1> DEFINE n == Len(a)
           z == Append(a, clock)
<1>1. /\ n \in Nat /\ Len(z) = n + 1 /\ DOMAIN a = 1..n /\ DOMAIN z = 1..(n + 1) /\ z[n + 1] = clock
      /\ \A i \in 1..n : z[i] = a[i] /\ a[i] \in Nat
  BY Appended
<1>2. Limit \in Nat \ {0} /\ Window \in Nat \ {0} /\ clock \in Nat /\ PassesOf(1) = 1
  BY ReadersAssumption DEF PassesOf
<1> HIDE DEF z, n
<1>3. ASSUME NEW i \in 1..(n + 1)
      PROVE  /\ i > n => z[i] >= clock /\ z[i] < clock + Window
             /\ i <= n => z[i] < clock
             /\ i + Limit <= n => z[i] + Window <= clock
  <2>1. CASE i = n + 1
    BY <1>1, <1>2, <2>1
  <2>2. CASE i \in 1..n
    BY <1>1, <1>2, <2>2 DEF n
  <2>3. QED BY <1>1, <2>1, <2>2
<1>4. Earlier(z, clock, 1)
  BY <1>1, <1>3 DEF Earlier
<1>5. ASSUME NEW i \in 1..(n + 1), NEW j \in 1..(n + 1), j >= i + 2 * Limit
      PROVE  z[j] >= z[i] + Window
  <2>1. i \in 1..n /\ (j \in 1..n \/ j = n + 1)
    BY <1>1, <1>2, <1>5
  <2>2. CASE j \in 1..n
    BY <1>1, <1>5, <2>1, <2>2 DEF Apart
  <2>3. CASE j = n + 1
    BY <1>1, <1>2, <1>3, <1>5, <2>1, <2>3
  <2>4. QED BY <2>1, <2>2, <2>3
<1>6. Apart(z)
  BY <1>1, <1>5 DEF Apart
<1>7. QED BY <1>2, <1>4, <1>6 DEF PassesSound, z

\* A window past its end leaves everything it let through before the clock.
LEMMA WindowOver ==
    ASSUME NEW a \in Times, NEW start \in Nat, NEW count \in Nat, NEW clock \in 0..MaxInstant,
           PassesSound(a, start, count), clock - start >= Window
    PROVE  /\ \A i \in DOMAIN a : a[i] < clock
           /\ \A i \in DOMAIN a : i + Limit <= Len(a) => a[i] + Window <= clock
<1> DEFINE n == Len(a)
           c == PassesOf(count)
<1>1. /\ n \in Nat /\ DOMAIN a = 1..n /\ \A i \in 1..n : a[i] \in Nat
  BY Appended
<1>2. Limit \in Nat \ {0} /\ Window \in Nat \ {0} /\ clock \in Nat /\ c \in Nat /\ c <= Limit
  BY ReadersAssumption DEF PassesOf
<1>3. \A i \in 1..n : /\ i > n - c => a[i] >= start /\ a[i] < start + Window
                      /\ i <= n - c => a[i] < start
  BY <1>1 DEF PassesSound, Earlier
<1> HIDE DEF n, c
<1>4. ASSUME NEW i \in 1..n PROVE a[i] < clock /\ (i + Limit <= n => a[i] + Window <= clock)
  <2>1. a[i] \in Nat /\ (i > n - c \/ i <= n - c)
    BY <1>1, <1>2
  <2>2. CASE i > n - c
    BY <1>1, <1>2, <1>3, <2>1, <2>2
  <2>3. CASE i <= n - c
    BY <1>1, <1>2, <1>3, <2>1, <2>3
  <2>4. QED BY <2>1, <2>2, <2>3
<1>5. QED BY <1>1, <1>4 DEF n

\* One more request of a window below its limit passes.
LEMMA PassesOn ==
    ASSUME NEW a \in Times, NEW start \in Nat, NEW count \in Nat, NEW clock \in 0..MaxInstant,
           PassesSound(a, start, count), start <= clock, clock - start < Window, count + 1 <= Limit
    PROVE  PassesSound(Append(a, clock), start, count + 1)
<1> DEFINE n == Len(a)
           z == Append(a, clock)
<1>1. /\ n \in Nat /\ Len(z) = n + 1 /\ DOMAIN a = 1..n /\ DOMAIN z = 1..(n + 1) /\ z[n + 1] = clock
      /\ \A i \in 1..n : z[i] = a[i] /\ a[i] \in Nat
  BY Appended
<1>2. /\ Limit \in Nat \ {0} /\ Window \in Nat \ {0} /\ clock \in Nat
      /\ PassesOf(count) = count /\ PassesOf(count + 1) = count + 1
  BY ReadersAssumption DEF PassesOf
<1>3. /\ count <= n /\ Apart(a)
      /\ \A i \in 1..n : /\ i > n - count => a[i] >= start /\ a[i] < start + Window
                         /\ i <= n - count => a[i] < start
                         /\ i + Limit <= n - count => a[i] + Window <= start
  BY <1>1, <1>2 DEF PassesSound, Earlier
<1> HIDE DEF z, n
<1>4. ASSUME NEW i \in 1..(n + 1)
      PROVE  /\ i > n - count => z[i] >= start /\ z[i] < start + Window
             /\ i <= n - count => z[i] < start
             /\ i + Limit <= n - count => z[i] + Window <= start
  <2>1. CASE i = n + 1
    BY <1>1, <1>2, <2>1
  <2>2. CASE i \in 1..n
    BY <1>1, <1>3, <2>2
  <2>3. QED BY <1>1, <2>1, <2>2
<1>5. Earlier(z, start, count + 1)
  <2>1. (n + 1) - (count + 1) = n - count /\ count + 1 <= n + 1
    BY <1>1, <1>3
  <2>2. QED BY <1>1, <1>4, <2>1 DEF Earlier
<1>6. ASSUME NEW i \in 1..(n + 1), NEW j \in 1..(n + 1), j >= i + 2 * Limit
      PROVE  z[j] >= z[i] + Window
  <2>1. i \in 1..n /\ (j \in 1..n \/ j = n + 1)
    BY <1>1, <1>2, <1>6
  <2>2. CASE j \in 1..n
    BY <1>1, <1>3, <1>6, <2>1, <2>2 DEF Apart
  <2>3. CASE j = n + 1
    <3>1. i + Limit <= n - count
      BY <1>1, <1>2, <1>6, <2>3
    <3>2. z[i] + Window <= start /\ z[i] \in Nat /\ z[j] = clock
      BY <1>1, <1>4, <2>1, <2>3, <3>1
    <3>3. QED BY <1>2, <3>2
  <2>4. QED BY <2>1, <2>2, <2>3
<1>7. Apart(z)
  BY <1>1, <1>6 DEF Apart
<1>8. QED BY <1>2, <1>5, <1>7 DEF PassesSound, z

\* A request past the limit changes none of it.
LEMMA RefusedOn ==
    ASSUME NEW a, NEW start, NEW count \in Nat, PassesSound(a, start, count), ~(count + 1 <= Limit)
    PROVE  PassesSound(a, start, count + 1) /\ PassesOf(count) = Limit
<1>1. PassesOf(count + 1) = PassesOf(count) /\ PassesOf(count) = Limit
  BY ReadersAssumption DEF PassesOf
<1>2. QED BY <1>1 DEF PassesSound

-----------------------------------------------------------------------------
(* What a stretch of a history holds. *)

\* Numbers have a least.
LEMMA Least ==
    ASSUME NEW N, N \subseteq Nat, N # {}
    PROVE  \E x \in N : \A y \in N : x <= y
<1> DEFINE upTo == {0..n : n \in N}
           less == StrictSubsetOrdering(Nat)
<1>1. upTo \subseteq FiniteSubsetsOf(Nat) /\ upTo # {}
  <2>1. ASSUME NEW n \in N PROVE IsFiniteSet(0..n) /\ 0..n \in SUBSET Nat
    BY FS_Interval
  <2>2. QED BY <2>1 DEF FiniteSubsetsOf
<1>2. IsWellFoundedOn(less, FiniteSubsetsOf(Nat))
  BY FS_StrictSubsetOrderingWellFounded
<1>3. \E A \in upTo : \A B \in upTo : ~(<<B, A>> \in less)
  <2> HIDE DEF upTo, less
  <2>1. QED BY <1>1, <1>2, WFMin
<1>4. PICK x \in N : \A y \in N : ~(<<0..y, 0..x>> \in less)
  BY <1>3
<1>5. ASSUME NEW y \in N, y < x PROVE FALSE
  <2>1. 0..y \subseteq 0..x /\ x \in 0..x /\ x \notin 0..y
    BY <1>5
  <2>2. 0..y \in SUBSET Nat /\ 0..x \in SUBSET Nat
    OBVIOUS
  <2>3. 0..y # 0..x
    BY <2>1
  <2>4. <<0..y, 0..x>> \in less
    BY <2>1, <2>2, <2>3 DEF StrictSubsetOrdering
  <2>5. QED BY <1>4, <2>4
<1>6. \A y \in N : x <= y
  BY <1>5
<1>7. QED BY <1>6

LEMMA CardinalityIs == ASSUME NEW S PROVE L!Cardinality(S) = Cardinality(S)
BY Zenon DEF L!Cardinality, Cardinality

LEMMA DuringFinite ==
    ASSUME NEW a \in Times, NEW from, NEW to
    PROVE  /\ L!During(a, from, to) \subseteq 1..Len(a) /\ IsFiniteSet(L!During(a, from, to))
           /\ Cardinality(L!During(a, from, to)) \in Nat
<1>1. DOMAIN a = 1..Len(a) /\ Len(a) \in Nat
  BY DEF Times
<1>2. L!During(a, from, to) \subseteq 1..Len(a)
  BY <1>1 DEF L!During
<1>3. IsFiniteSet(1..Len(a))
  BY <1>1, FS_Interval
<1>4. QED BY <1>2, <1>3, FS_Subset, FS_CardinalityType

\* Twice the limit at most passes in a window's length.
LEMMA AtMostTwice ==
    ASSUME NEW a \in Times, Apart(a), NEW s \in 0..MaxInstant, NEW t \in 0..MaxInstant, t < s + Window
    PROVE  Cardinality(L!During(a, s, t)) <= 2 * Limit
<1> DEFINE D == L!During(a, s, t)
<1>1. Limit \in Nat \ {0} /\ Window \in Nat \ {0}
  BY ReadersAssumption
<1>2. \A n \in D : n \in Nat /\ n \in DOMAIN a /\ a[n] >= s /\ a[n] <= t /\ a[n] \in Nat
  BY DuringFinite DEF L!During, Times
<1>3. CASE D = {}
  <2>1. Cardinality(D) = 0
    BY <1>3, FS_EmptySet
  <2>2. QED BY <1>1, <2>1
<1>4. CASE D # {}
  <2> HIDE DEF D
  <2>1. PICK m \in D : \A n \in D : m <= n
    BY <1>2, <1>4, Least
  <2>2. ASSUME NEW n \in D PROVE n \in m..(m + 2 * Limit - 1)
    <3>1. ASSUME n >= m + 2 * Limit PROVE FALSE
      <4>1. a[n] >= a[m] + Window
        BY <1>2, <3>1 DEF Apart
      <4>2. a[n] <= t /\ a[m] >= s /\ a[n] \in Nat /\ a[m] \in Nat
        BY <1>2
      <4>3. QED BY <1>1, <4>1, <4>2
    <3>2. n \in Nat /\ m \in Nat /\ m <= n
      BY <1>2, <2>1
    <3>3. QED BY <1>1, <3>1, <3>2
  <2>3. m \in Nat /\ 2 * Limit \in Nat
    BY <1>1, <1>2
  <2>4. /\ IsFiniteSet(m..(m + 2 * Limit - 1))
        /\ Cardinality(m..(m + 2 * Limit - 1)) = 2 * Limit
    <3>1. m + 2 * Limit - 1 \in Int /\ ~(m > m + 2 * Limit - 1)
          /\ (m + 2 * Limit - 1) - m + 1 = 2 * Limit
      BY <1>1, <2>3
    <3>2. QED BY <2>3, <3>1, FS_Interval
  <2>5. D \subseteq m..(m + 2 * Limit - 1)
    BY <2>2
  <2>6. Cardinality(D) <= 2 * Limit
    <3> DEFINE range == m..(m + 2 * Limit - 1)
    <3>1. IsFiniteSet(range) /\ Cardinality(range) = 2 * Limit /\ D \in SUBSET range
      BY <2>4, <2>5
    <3> HIDE DEF range
    <3>2. Cardinality(D) <= Cardinality(range)
      BY <3>1, FS_Subset
    <3>3. QED BY <3>1, <3>2
  <2>7. QED BY <2>6 DEF D
<1>5. QED BY <1>3, <1>4

\* The last requests of a history, a limit of them, all in a stretch.
LEMMA AtLeastLimit ==
    ASSUME NEW a \in Times, NEW from, NEW to, Limit <= Len(a),
           \A i \in DOMAIN a : i > Len(a) - Limit => a[i] \in from..to
    PROVE  Cardinality(L!During(a, from, to)) >= Limit
<1> DEFINE n == Len(a)
           last_ == (n - Limit + 1)..n
<1>1. Limit \in Nat \ {0} /\ n \in Nat /\ DOMAIN a = 1..n
  BY ReadersAssumption DEF Times
<1>2. last_ \subseteq L!During(a, from, to)
  <2>1. ASSUME NEW i \in last_ PROVE i \in DOMAIN a /\ i > n - Limit
    BY <1>1
  <2>2. QED BY <2>1 DEF L!During
<1>3. Cardinality(last_) = Limit
  <2>1. n - Limit + 1 \in Int /\ ~(n - Limit + 1 > n) /\ n - (n - Limit + 1) + 1 = Limit
    BY <1>1
  <2>2. QED BY <1>1, <2>1, FS_Interval
<1>4. Cardinality(last_) <= Cardinality(L!During(a, from, to))
  BY <1>2, DuringFinite, FS_Subset
<1>5. QED BY <1>3, <1>4, <1>1, DuringFinite

LEMMA DuringGrows ==
    ASSUME NEW a \in Times, NEW x \in 0..MaxInstant, NEW from, NEW to
    PROVE  /\ L!During(a, from, to) \subseteq L!During(Append(a, x), from, to)
           /\ Cardinality(L!During(a, from, to)) <= Cardinality(L!During(Append(a, x), from, to))
           /\ x \in from..to => L!During(Append(a, x), from, to) # {}
<1>1. /\ Append(a, x) \in Times /\ Len(a) \in Nat /\ Append(a, x)[Len(a) + 1] = x
      /\ DOMAIN a = 1..Len(a) /\ DOMAIN Append(a, x) = 1..(Len(a) + 1)
      /\ \A i \in 1..Len(a) : Append(a, x)[i] = a[i]
  BY Appended
<1>2. L!During(a, from, to) \subseteq L!During(Append(a, x), from, to)
  BY <1>1 DEF L!During
<1>3. Cardinality(L!During(a, from, to)) <= Cardinality(L!During(Append(a, x), from, to))
  BY <1>1, <1>2, DuringFinite, FS_Subset
<1>4. ASSUME x \in from..to PROVE Len(a) + 1 \in L!During(Append(a, x), from, to)
  BY <1>1, <1>4 DEF L!During
<1>5. QED BY <1>2, <1>3, <1>4

-----------------------------------------------------------------------------
(* The refusals and the reports of a history. *)

Earned(a, r) ==
    \A n \in DOMAIN r : Cardinality(L!During(a, r[n] - Window + 1, r[n])) >= Limit

Reported(r, t) == \A n \in DOMAIN r : L!During(t, r[n] - Window + 1, r[n]) # {}

OncePerWindow(a, t) ==
    \A m, n \in DOMAIN t : m < n => Cardinality(L!During(a, t[m] + 1, t[n])) >= Limit

HistorySound(a, r, t) == Earned(a, r) /\ Reported(r, t) /\ OncePerWindow(a, t)

\* What a history holds of a stretch stays there.
LEMMA PassedMore ==
    ASSUME NEW a \in Times, NEW r \in Times, NEW t \in Times, NEW x \in 0..MaxInstant,
           HistorySound(a, r, t)
    PROVE  HistorySound(Append(a, x), r, t)
<1>1. \A from, to : /\ Cardinality(L!During(a, from, to)) <= Cardinality(L!During(Append(a, x), from, to))
                    /\ Cardinality(L!During(a, from, to)) \in Nat
                    /\ Cardinality(L!During(Append(a, x), from, to)) \in Nat
  BY Appended, DuringGrows, DuringFinite
<1>2. \A from, to : Cardinality(L!During(a, from, to)) >= Limit
                    => Cardinality(L!During(Append(a, x), from, to)) >= Limit
  BY <1>1, ReadersAssumption
<1>3. Earned(Append(a, x), r)
  BY <1>2 DEF HistorySound, Earned
<1>4. OncePerWindow(Append(a, x), t)
  BY <1>2 DEF HistorySound, OncePerWindow
<1>5. QED BY <1>3, <1>4 DEF HistorySound

\* The passes that filled a window.
LEMMA Filled ==
    ASSUME NEW a \in Times, NEW start \in Nat, NEW clock \in 0..MaxInstant, NEW from \in Int,
           Earlier(a, start, Limit), from <= start, Past(a, clock)
    PROVE  Cardinality(L!During(a, from, clock)) >= Limit
<1>1. ASSUME NEW i \in DOMAIN a, i > Len(a) - Limit PROVE a[i] \in from..clock
  <2>1. a[i] \in Nat /\ clock \in Nat
    BY Entries
  <2>a. a[i] <= clock
    BY DEF Past
  <2>b. a[i] >= start
    BY <1>1 DEF Earlier
  <2>2. QED BY <2>1, <2>a, <2>b
<1>2. Limit <= Len(a)
  BY DEF Earlier
<1>3. QED BY <1>1, <1>2, AtLeastLimit

\* A refusal of a window that already reported its trip.
LEMMA RefusedAgain ==
    ASSUME NEW a \in Times, NEW r \in Times, NEW t \in Times, NEW start \in Nat,
           NEW clock \in 0..MaxInstant, start <= clock, clock - start < Window,
           Earlier(a, start, Limit), Past(a, clock), Past(t, clock), HistorySound(a, r, t),
           NEW m \in DOMAIN t, t[m] >= start
    PROVE  HistorySound(a, Append(r, clock), t)
<1> DEFINE z == Append(r, clock)
           from == clock - Window + 1
<1>1. /\ Len(r) \in Nat /\ z[Len(r) + 1] = clock /\ DOMAIN r = 1..Len(r) /\ DOMAIN z = 1..(Len(r) + 1)
      /\ \A i \in 1..Len(r) : z[i] = r[i]
  BY Appended
<1>2. clock \in Nat /\ Window \in Nat /\ from \in Int /\ from <= start
  BY ReadersAssumption
<1>3. Cardinality(L!During(a, from, clock)) >= Limit
  BY <1>2, Filled
<1>4. m \in L!During(t, from, clock)
  <2>a. t[m] \in Nat
    BY Entries
  <2>b. t[m] <= clock
    BY DEF Past
  <2>1. t[m] \in Nat /\ t[m] <= clock /\ t[m] >= start
    BY <2>a, <2>b
  <2>2. t[m] \in from..clock
    BY <1>2, <2>1
  <2>3. QED BY <2>2 DEF L!During
<1> HIDE DEF z
<1>5. ASSUME NEW n \in DOMAIN z
      PROVE  /\ Cardinality(L!During(a, z[n] - Window + 1, z[n])) >= Limit
             /\ L!During(t, z[n] - Window + 1, z[n]) # {}
  <2>1. CASE n = Len(r) + 1
    BY <1>1, <1>3, <1>4, <2>1
  <2>2. CASE n \in DOMAIN r
    BY <1>1, <2>2 DEF HistorySound, Earned, Reported
  <2>3. QED BY <1>1, <2>1, <2>2
<1>6. QED BY <1>5 DEF HistorySound, Earned, Reported, z

\* The first refusal of a window, and its report.
LEMMA RefusedFirst ==
    ASSUME NEW a \in Times, NEW r \in Times, NEW t \in Times, NEW start \in Nat,
           NEW clock \in 0..MaxInstant, start <= clock, clock - start < Window,
           Earlier(a, start, Limit), Past(a, clock), Past(t, clock), HistorySound(a, r, t),
           \A m \in DOMAIN t : t[m] < start
    PROVE  HistorySound(a, Append(r, clock), Append(t, clock))
<1> DEFINE z == Append(t, clock)
           k == Len(t) + 1
<1>1. /\ z \in Times /\ k \in Nat /\ z[k] = clock /\ DOMAIN t = 1..(k - 1) /\ DOMAIN z = 1..k
      /\ \A i \in 1..(k - 1) : z[i] = t[i] /\ t[i] \in Nat
  BY Appended
<1>2. clock \in Nat /\ Window \in Nat
  BY ReadersAssumption
<1> HIDE DEF z, k
<1>3. ASSUME NEW m \in DOMAIN z, NEW n \in DOMAIN z, m < n
      PROVE  Cardinality(L!During(a, z[m] + 1, z[n])) >= Limit
  <2>1. m \in 1..(k - 1) /\ z[m] = t[m] /\ t[m] \in Nat /\ t[m] < start
    BY <1>1, <1>3
  <2>2. CASE n = k
    <3>1. t[m] + 1 \in Int /\ t[m] + 1 <= start
      BY <2>1
    <3>2. Cardinality(L!During(a, t[m] + 1, clock)) >= Limit
      BY <3>1, Filled
    <3>3. QED BY <1>1, <2>1, <2>2, <3>2
  <2>3. CASE n \in 1..(k - 1)
    BY <1>1, <1>3, <2>1, <2>3 DEF HistorySound, OncePerWindow
  <2>4. QED BY <1>1, <2>2, <2>3
<1>4. \A from, to : L!During(t, from, to) # {} => L!During(z, from, to) # {}
  BY DuringGrows DEF z
<1>5. HistorySound(a, r, z)
  BY <1>3, <1>4 DEF HistorySound, Reported, OncePerWindow
<1>6. Past(z, clock)
  <2>1. \A i \in 1..k : i \in 1..(k - 1) \/ i = k
    BY <1>1
  <2>2. QED BY <1>1, <1>2, <2>1 DEF Past
<1>7. k \in DOMAIN z /\ z[k] >= start
  <2>1. k \in 1..k
    BY DEF k
  <2>2. QED BY <1>1, <1>2, <2>1
<1>8. HistorySound(a, Append(r, clock), z)
  BY <1>1, <1>5, <1>6, <1>7, RefusedAgain
<1>9. QED BY <1>8 DEF z

-----------------------------------------------------------------------------
(* One key, with its bucket and its history. *)

AllSound(a, r, t, start, count, clock) ==
    /\ count >= 1 /\ start <= clock
    /\ PassesSound(a, start, count) /\ TripsSound(t, start, count)
    /\ Past(a, clock) /\ Past(t, clock)
    /\ HistorySound(a, r, t)

LEMMA AppendPast ==
    ASSUME NEW a \in Times, NEW clock \in 0..MaxInstant, Past(a, clock)
    PROVE  Past(Append(a, clock), clock)
<1> DEFINE z == Append(a, clock)
           n == Len(a)
<1>1. /\ n \in Nat /\ DOMAIN a = 1..n /\ DOMAIN z = 1..(n + 1) /\ z[n + 1] = clock
      /\ \A i \in 1..n : z[i] = a[i]
  BY Appended
<1> HIDE DEF z, n
<1>2. clock <= clock
  OBVIOUS
<1>3. \A i \in 1..(n + 1) : i \in 1..n \/ i = n + 1
  BY <1>1
<1>4. Past(z, clock)
  BY <1>1, <1>2, <1>3 DEF Past
<1>5. QED BY <1>4 DEF z

LEMMA Opened ==
    ASSUME NEW a \in Times, NEW r \in Times, NEW t \in Times, NEW clock \in 0..MaxInstant,
           Apart(a), HistorySound(a, r, t),
           \A i \in DOMAIN a : a[i] < clock,
           \A i \in DOMAIN a : i + Limit <= Len(a) => a[i] + Window <= clock,
           \A m \in DOMAIN t : t[m] < clock
    PROVE  AllSound(Append(a, clock), r, t, clock, 1, clock)
<1>1. Limit \in Nat \ {0} /\ Window \in Nat \ {0} /\ clock \in Nat
  BY ReadersAssumption
<1>2. PassesSound(Append(a, clock), clock, 1)
  BY OpensSound
<1>3. Past(a, clock) /\ Past(t, clock)
  BY Entries, <1>1 DEF Past
<1>4. Past(Append(a, clock), clock)
  BY <1>3, AppendPast
<1>5. \A m \in DOMAIN t : t[m] < clock + Window
  <2>1. \A n \in Nat : n < clock => n < clock + Window
    BY <1>1
  <2>2. QED BY <2>1, Entries
<1>6. TripsSound(t, clock, 1)
  BY <1>1, <1>5 DEF TripsSound
<1>7. HistorySound(Append(a, clock), r, t)
  BY PassedMore
<1>8. 1 >= 1 /\ clock <= clock
  BY <1>1
<1>9. QED BY <1>2, <1>3, <1>4, <1>6, <1>7, <1>8 DEF AllSound

LEMMA Reopened ==
    ASSUME NEW a \in Times, NEW r \in Times, NEW t \in Times, NEW start \in Nat, NEW count \in Nat,
           NEW clock \in 0..MaxInstant, AllSound(a, r, t, start, count, clock), clock - start >= Window
    PROVE  AllSound(Append(a, clock), r, t, clock, 1, clock)
<1>1. PassesSound(a, start, count) /\ HistorySound(a, r, t) /\ TripsSound(t, start, count)
  BY DEF AllSound
<1>2. Apart(a)
  BY <1>1 DEF PassesSound
<1>3. /\ \A i \in DOMAIN a : a[i] < clock
      /\ \A i \in DOMAIN a : i + Limit <= Len(a) => a[i] + Window <= clock
  BY <1>1, WindowOver
<1>4. \A m \in DOMAIN t : t[m] < clock
  <2>1. \A n \in Nat : n < start + Window => n < clock
    BY ReadersAssumption
  <2>2. QED BY <1>1, <2>1, Entries DEF TripsSound
<1>5. QED BY <1>1, <1>2, <1>3, <1>4, Opened

LEMMA Begun ==
    ASSUME NEW clock \in 0..MaxInstant
    PROVE  /\ <<>> \in Times
           /\ AllSound(Append(<<>>, clock), <<>>, <<>>, clock, 1, clock)
<1> DEFINE e == <<>>
<1>1. e \in Times /\ DOMAIN e = {} /\ Len(e) = 0
  BY DEF Times
<1> HIDE DEF e
<1>2. Apart(e) /\ HistorySound(e, e, e)
  BY <1>1 DEF Apart, HistorySound, Earned, Reported, OncePerWindow
<1>3. AllSound(Append(e, clock), e, e, clock, 1, clock)
  BY <1>1, <1>2, Opened
<1>4. QED BY <1>1, <1>3 DEF e

LEMMA CountedOn ==
    ASSUME NEW a \in Times, NEW r \in Times, NEW t \in Times, NEW start \in Nat, NEW count \in Nat,
           NEW clock \in 0..MaxInstant, AllSound(a, r, t, start, count, clock), clock - start < Window,
           count + 1 <= Limit
    PROVE  AllSound(Append(a, clock), r, t, start, count + 1, clock)
<1>1. /\ PassesSound(a, start, count) /\ HistorySound(a, r, t) /\ TripsSound(t, start, count)
      /\ Past(a, clock) /\ Past(t, clock) /\ start <= clock /\ count >= 1
  BY DEF AllSound
<1>2. Limit \in Nat \ {0} /\ Window \in Nat \ {0} /\ clock \in Nat /\ count + 1 >= 1
  BY ReadersAssumption
<1>3. PassesSound(Append(a, clock), start, count + 1)
  BY <1>1, PassesOn
<1>4. count <= Limit /\ ~(count + 1 > Limit)
  BY <1>2
<1>5. TripsSound(t, start, count + 1)
  BY <1>1, <1>4 DEF TripsSound
<1>6. HistorySound(Append(a, clock), r, t) /\ Past(Append(a, clock), clock)
  BY <1>1, PassedMore, AppendPast
<1>7. QED BY <1>1, <1>2, <1>3, <1>5, <1>6 DEF AllSound

LEMMA CountedFull ==
    ASSUME NEW a, NEW start, NEW count \in Nat, PassesSound(a, start, count), count >= Limit
    PROVE  PassesSound(a, start, count + 1) /\ Earlier(a, start, Limit)
<1>1. ~(count + 1 <= Limit)
  BY ReadersAssumption
<1>2. PassesSound(a, start, count + 1) /\ PassesOf(count) = Limit
  BY <1>1, RefusedOn
<1>3. QED BY <1>2 DEF PassesSound

LEMMA CountedTrip ==
    ASSUME NEW a \in Times, NEW r \in Times, NEW t \in Times, NEW start \in Nat, NEW count \in Nat,
           NEW clock \in 0..MaxInstant, AllSound(a, r, t, start, count, clock), clock - start < Window,
           count = Limit
    PROVE  AllSound(a, Append(r, clock), Append(t, clock), start, count + 1, clock)
<1> DEFINE z == Append(t, clock)
           n == Len(t)
<1>1. /\ PassesSound(a, start, count) /\ HistorySound(a, r, t) /\ TripsSound(t, start, count)
      /\ Past(a, clock) /\ Past(t, clock) /\ start <= clock /\ count >= 1
  BY DEF AllSound
<1>2. Limit \in Nat \ {0} /\ Window \in Nat \ {0} /\ clock \in Nat /\ count + 1 >= 1
  BY ReadersAssumption
<1>3. count >= Limit /\ count <= Limit /\ ~(count + 1 <= Limit) /\ count + 1 > Limit
  BY <1>2
<1>4. PassesSound(a, start, count + 1) /\ Earlier(a, start, Limit)
  BY <1>1, <1>3, CountedFull
<1>5. \A m \in DOMAIN t : t[m] < start
  BY <1>1, <1>3 DEF TripsSound
<1>6. HistorySound(a, Append(r, clock), z) /\ Past(z, clock)
  BY <1>1, <1>4, <1>5, RefusedFirst, AppendPast
<1>7. /\ n \in Nat /\ DOMAIN t = 1..n /\ DOMAIN z = 1..(n + 1) /\ z[n + 1] = clock
      /\ \A i \in 1..n : z[i] = t[i]
  BY Appended
<1> HIDE DEF z, n
<1>8. clock < start + Window /\ clock >= start
  BY <1>1, <1>2
<1>9. n + 1 \in 1..(n + 1) /\ \A i \in 1..(n + 1) : i \in 1..n \/ i = n + 1
  BY <1>7
<1>10. \A m \in DOMAIN z : z[m] < start + Window
  BY <1>1, <1>7, <1>8, <1>9 DEF TripsSound
<1>11. TripsSound(z, start, count + 1)
  BY <1>3, <1>7, <1>8, <1>9, <1>10 DEF TripsSound
<1>12. AllSound(a, Append(r, clock), z, start, count + 1, clock)
  BY <1>1, <1>2, <1>4, <1>6, <1>11 DEF AllSound
<1>13. QED BY <1>12 DEF z

LEMMA CountedAgain ==
    ASSUME NEW a \in Times, NEW r \in Times, NEW t \in Times, NEW start \in Nat, NEW count \in Nat,
           NEW clock \in 0..MaxInstant, AllSound(a, r, t, start, count, clock), clock - start < Window,
           count > Limit
    PROVE  AllSound(a, Append(r, clock), t, start, count + 1, clock)
<1>1. /\ PassesSound(a, start, count) /\ HistorySound(a, r, t) /\ TripsSound(t, start, count)
      /\ Past(a, clock) /\ Past(t, clock) /\ start <= clock /\ count >= 1
  BY DEF AllSound
<1>2. Limit \in Nat \ {0} /\ Window \in Nat \ {0} /\ clock \in Nat /\ count + 1 >= 1
  BY ReadersAssumption
<1>3. count >= Limit /\ ~(count + 1 <= Limit) /\ count + 1 > Limit
  BY <1>2
<1>4. PassesSound(a, start, count + 1) /\ Earlier(a, start, Limit)
  BY <1>1, <1>3, CountedFull
<1>5. PICK m \in DOMAIN t : t[m] >= start
  BY <1>1 DEF TripsSound
<1>6. HistorySound(a, Append(r, clock), t)
  BY <1>1, <1>4, <1>5, RefusedAgain
<1>7. TripsSound(t, start, count + 1)
  BY <1>1, <1>3, <1>5 DEF TripsSound
<1>8. QED BY <1>1, <1>2, <1>4, <1>6, <1>7 DEF AllSound

LEMMA ClockMoves ==
    ASSUME NEW a \in Times, NEW r \in Times, NEW t \in Times, NEW start \in Nat, NEW count \in Nat,
           NEW clock \in Nat, AllSound(a, r, t, start, count, clock)
    PROVE  AllSound(a, r, t, start, count, clock + 1)
<1>1. \A n \in Nat : n <= clock => n <= clock + 1
  OBVIOUS
<1>2. Past(a, clock + 1) /\ Past(t, clock + 1) /\ start <= clock + 1
  BY <1>1, Entries DEF AllSound, Past
<1>3. QED BY <1>2 DEF AllSound

-----------------------------------------------------------------------------
(* The limiter as a whole. *)

Untracked(k) ==
    allowed[k] = <<>> /\ refused[k] = <<>> /\ trips[k] = <<>>

KeySound(k) ==
    AllSound(allowed[k], refused[k], trips[k], bucket[k].start, bucket[k].count, instant)

LimInv ==
    /\ L!TypeOK
    /\ \A k \in Keys : IF k \in L!Tracked THEN KeySound(k) ELSE Untracked(k)

LEMMA TrackedIs == \A k : k \in L!Tracked <=> \E n \in DOMAIN order : order[n] = k
BY DEF L!Tracked, L!ToSet

\* A key is tracked once it is checked; at most the oldest makes room for it.
LEMMA OrderKeeps ==
    ASSUME L!TypeOK, NEW k \in Keys
    PROVE  /\ L!OrderWith(k) \in Seq(Keys) /\ L!IsInjective(L!OrderWith(k))
           /\ Len(L!OrderWith(k)) <= MaxKeys
           /\ k \in L!ToSet(L!OrderWith(k))
           /\ L!ToSet(L!OrderWith(k)) \subseteq L!Tracked \cup {k}
<1>1. CASE k \in L!Tracked
  BY <1>1 DEF L!TypeOK, L!OrderWith, L!Tracked
<1>2. CASE k \notin L!Tracked
  <2> DEFINE rest == IF L!Full THEN Tail(order) ELSE order
             n == Len(rest)
             z == Append(rest, k)
  <2>1. /\ order \in Seq(Keys) /\ Len(order) \in Nat /\ DOMAIN order = 1..Len(order)
        /\ Len(order) <= MaxKeys /\ MaxKeys \in Nat \ {0}
        /\ \A i, j \in DOMAIN order : order[i] = order[j] => i = j
    BY ReadersAssumption DEF L!TypeOK, L!IsInjective
  <2>2. \A i \in DOMAIN order : order[i] # k
    BY <1>2, TrackedIs
  <2>3. /\ rest \in Seq(Keys) /\ n \in Nat /\ DOMAIN rest = 1..n /\ n + 1 <= MaxKeys
        /\ \E d \in {0, 1} : \A i \in 1..n : rest[i] = order[i + d] /\ i + d \in DOMAIN order
    <3>1. CASE L!Full
      <4>1. order # <<>>
        BY <2>1, <3>1 DEF L!Full
      <4>2. /\ Tail(order) \in Seq(Keys) /\ Len(Tail(order)) = Len(order) - 1
            /\ \A i \in 1..(Len(order) - 1) : Tail(order)[i] = order[i + 1]
        BY <2>1, <4>1
      <4>3. n = Len(order) - 1 /\ n \in Nat /\ n + 1 <= MaxKeys /\ DOMAIN rest = 1..n
        BY <2>1, <3>1, <4>1, <4>2
      <4>4. \A i \in 1..n : rest[i] = order[i + 1] /\ i + 1 \in DOMAIN order
        BY <2>1, <3>1, <4>2, <4>3
      <4>5. QED BY <3>1, <4>2, <4>3, <4>4
    <3>2. CASE ~L!Full
      <4>1. n = Len(order) /\ n + 1 <= MaxKeys
        BY <2>1, <3>2 DEF L!Full
      <4>2. \A i \in 1..n : rest[i] = order[i + 0] /\ i + 0 \in DOMAIN order
        BY <2>1, <3>2, <4>1
      <4>3. QED BY <2>1, <3>2, <4>1, <4>2
    <3>3. QED BY <3>1, <3>2
  <2>4. L!OrderWith(k) = z
    BY <1>2 DEF L!OrderWith
  <2> HIDE DEF rest, n
  <2>5. /\ z \in Seq(Keys) /\ Len(z) = n + 1 /\ DOMAIN z = 1..(n + 1) /\ z[n + 1] = k
        /\ \A i \in 1..n : z[i] = rest[i]
    BY <2>3 DEF n
  <2> HIDE DEF z
  <2>6. PICK d \in {0, 1} : \A i \in 1..n : rest[i] = order[i + d] /\ i + d \in DOMAIN order
    BY <2>3
  <2>7. \A i \in 1..(n + 1) : i \in 1..n \/ i = n + 1
    BY <2>3
  <2>8. ASSUME NEW i \in DOMAIN z, NEW j \in DOMAIN z, z[i] = z[j] PROVE i = j
    <3>1. CASE i \in 1..n /\ j \in 1..n
      <4>1. i + d = j + d
        BY <2>1, <2>5, <2>6, <2>8, <3>1
      <4>2. QED BY <3>1, <4>1, <2>3
    <3>2. QED BY <2>2, <2>5, <2>6, <2>7, <2>8, <3>1
  <2>9. ASSUME NEW i \in DOMAIN z PROVE z[i] \in L!Tracked \cup {k}
    BY <2>5, <2>6, <2>7, TrackedIs
  <2>10. L!ToSet(z) \subseteq L!Tracked \cup {k}
    BY <2>9 DEF L!ToSet
  <2>11. n + 1 \in DOMAIN z
    BY <2>3, <2>5
  <2>12. k \in L!ToSet(z)
    BY <2>5, <2>11 DEF L!ToSet
  <2>13. QED BY <2>3, <2>4, <2>5, <2>8, <2>10, <2>12 DEF L!IsInjective
<1>3. QED BY <1>1, <1>2

LEMMA LimInit == L!Init => LimInv
<1> SUFFICES ASSUME L!Init PROVE LimInv
  OBVIOUS
<1>1. order = <<>> /\ DOMAIN order = {} /\ Len(order) = 0
  BY DEF L!Init
<1>2. \A k \in Keys : Untracked(k) /\ k \notin L!Tracked
  BY <1>1, TrackedIs DEF L!Init, Untracked
<1>3. <<>> \in L!Instants /\ L!NoBucket \in L!Bucket
  BY DEF L!Instants, L!NoBucket, L!Bucket
<1>4. L!TypeOK
  BY <1>1, <1>3, ReadersAssumption DEF L!Init, L!TypeOK, L!IsInjective
<1>5. QED BY <1>2, <1>4 DEF LimInv

LEMMA TickKeeps == ASSUME LimInv, L!Tick PROVE LimInv'
<1>1. instant \in 0..MaxInstant /\ instant < MaxInstant /\ instant' = instant + 1
      /\ UNCHANGED <<order, bucket, allowed, refused, trips>>
  BY DEF LimInv, L!TypeOK, L!Tick
<1>2. instant' \in 0..MaxInstant /\ instant \in Nat
  BY <1>1, ReadersAssumption
<1>3. L!TypeOK'
  BY <1>1, <1>2 DEF LimInv, L!TypeOK, L!Instants
<1>4. L!Tracked' = L!Tracked
  BY <1>1 DEF L!Tracked
<1>5. ASSUME NEW k \in Keys PROVE IF k \in L!Tracked' THEN KeySound(k)' ELSE Untracked(k)'
  <2>1. CASE k \in L!Tracked
    <3>1. /\ allowed[k] \in Times /\ refused[k] \in Times /\ trips[k] \in Times
          /\ bucket[k].start \in Nat /\ bucket[k].count \in Nat /\ KeySound(k)
      BY <2>1 DEF LimInv, L!TypeOK, L!Instants, L!Bucket, Times
    <3>2. AllSound(allowed[k], refused[k], trips[k], bucket[k].start, bucket[k].count, instant + 1)
      BY <1>2, <3>1, ClockMoves DEF KeySound
    <3>3. QED BY <1>1, <1>4, <2>1, <3>2 DEF KeySound
  <2>2. CASE k \notin L!Tracked
    BY <1>1, <1>4, <2>2 DEF LimInv, Untracked
  <2>3. QED BY <2>1, <2>2
<1>6. QED BY <1>3, <1>5 DEF LimInv

LEMMA NoteIs ==
    ASSUME NEW h, NEW k \in Keys, NEW happened \in BOOLEAN, NEW j \in Keys
    PROVE  L!Note(h, k, happened)[j]
             = IF j = k THEN IF happened THEN Append(h[k], instant) ELSE h[k]
               ELSE IF j \in L!ToSet(L!OrderWith(k)) THEN h[j] ELSE <<>>
BY DEF L!Note

LEMMA NoteOfAnother ==
    ASSUME NEW h, NEW k \in Keys, NEW happened, NEW j \in Keys, j # k
    PROVE  L!Note(h, k, happened)[j] = IF j \in L!ToSet(L!OrderWith(k)) THEN h[j] ELSE <<>>
BY DEF L!Note

LEMMA NoteTyped ==
    ASSUME NEW h \in [Keys -> Times], NEW k \in Keys, NEW happened \in BOOLEAN,
           instant \in 0..MaxInstant
    PROVE  L!Note(h, k, happened) \in [Keys -> Times]
<1>1. <<>> \in Times /\ Append(h[k], instant) \in Times
  BY Begun, Appended
<1>2. QED BY <1>1 DEF L!Note

\* What a check makes of the key checked.
LEMMA CheckedKey ==
    ASSUME LimInv, NEW k \in Keys, L!Check(k)
    PROVE  /\ bucket'[k] \in L!Bucket /\ KeySound(k)'
           /\ allowed' \in [Keys -> Times] /\ refused' \in [Keys -> Times] /\ trips' \in [Keys -> Times]
<1> DEFINE nb == L!NextBucket(k)
           pass == nb.count <= Limit
           a == allowed[k]
           r == refused[k]
           t == trips[k]
           b == bucket[k]
<1>1. /\ a \in Times /\ r \in Times /\ t \in Times /\ b \in L!Bucket /\ instant \in 0..MaxInstant
      /\ allowed \in [Keys -> Times] /\ refused \in [Keys -> Times] /\ trips \in [Keys -> Times]
      /\ IF k \in L!Tracked THEN KeySound(k) ELSE Untracked(k)
  BY DEF LimInv, L!TypeOK, L!Instants, Times
<1>2. /\ bucket' = [j \in Keys |-> IF j = k THEN nb
                                   ELSE IF j \in L!ToSet(L!OrderWith(k)) THEN bucket[j]
                                   ELSE L!NoBucket]
      /\ allowed' = L!Note(allowed, k, pass) /\ refused' = L!Note(refused, k, ~pass)
      /\ trips' = L!Note(trips, k, L!FirstTrip(nb)) /\ instant' = instant
  BY DEF L!Check
<1>3. pass \in BOOLEAN /\ (~pass) \in BOOLEAN /\ L!FirstTrip(nb) \in BOOLEAN
  BY DEF L!FirstTrip
<1>4. /\ bucket'[k] = nb
      /\ allowed'[k] = IF pass THEN Append(a, instant) ELSE a
      /\ refused'[k] = IF ~pass THEN Append(r, instant) ELSE r
      /\ trips'[k] = IF L!FirstTrip(nb) THEN Append(t, instant) ELSE t
  <2>1. bucket'[k] = nb
    BY <1>2
  <2>2. allowed'[k] = IF pass THEN Append(a, instant) ELSE a
    BY <1>2, <1>3, NoteIs
  <2>3. refused'[k] = IF ~pass THEN Append(r, instant) ELSE r
    BY <1>2, <1>3, NoteIs
  <2>4. trips'[k] = IF L!FirstTrip(nb) THEN Append(t, instant) ELSE t
    BY <1>2, <1>3, NoteIs
  <2>5. QED BY <2>1, <2>2, <2>3, <2>4
<1>5. allowed' \in [Keys -> Times] /\ refused' \in [Keys -> Times] /\ trips' \in [Keys -> Times]
  BY <1>1, <1>2, <1>3, NoteTyped
<1>6. Limit \in Nat \ {0} /\ Window \in Nat \ {0} /\ b.start \in Nat /\ b.count \in Nat
  BY <1>1, ReadersAssumption DEF L!Bucket
<1>7. CASE k \notin L!Tracked \/ instant - b.start >= Window
  <2>1. nb = [start |-> instant, count |-> 1]
    BY <1>7 DEF L!NextBucket, L!First
  <2>2. nb.start = instant /\ nb.count = 1 /\ nb \in L!Bucket /\ pass /\ ~L!FirstTrip(nb)
    BY <1>1, <1>6, <2>1 DEF L!Bucket, L!FirstTrip
  <2>3. AllSound(Append(a, instant), r, t, instant, 1, instant)
    <3>1. CASE k \notin L!Tracked
      <4>1. a = <<>> /\ r = <<>> /\ t = <<>>
        BY <1>1, <3>1 DEF Untracked
      <4>2. QED BY <1>1, <4>1, Begun
    <3>2. CASE k \in L!Tracked
      <4>1. AllSound(a, r, t, b.start, b.count, instant)
        BY <1>1, <3>2 DEF KeySound
      <4>2. instant - b.start >= Window
        BY <1>7, <3>2
      <4>3. QED BY <1>1, <1>6, <4>1, <4>2, Reopened
    <3>3. QED BY <3>1, <3>2
  <2>4. allowed'[k] = Append(a, instant) /\ refused'[k] = r /\ trips'[k] = t
    BY <1>4, <2>2
  <2>5. QED BY <1>2, <1>4, <1>5, <2>2, <2>3, <2>4 DEF KeySound
<1>8. CASE k \in L!Tracked /\ ~(instant - b.start >= Window)
  <2> DEFINE start == b.start
             count == b.count
  <2>1. nb = [b EXCEPT !.count = @ + 1]
    BY <1>8 DEF L!NextBucket
  <2>2. nb.start = start /\ nb.count = count + 1 /\ nb \in L!Bucket
    BY <1>1, <1>6, <2>1 DEF L!Bucket
  <2>3. AllSound(a, r, t, start, count, instant)
    BY <1>1, <1>8 DEF KeySound
  <2>4. start \in Nat /\ count \in Nat /\ instant - start < Window
    BY <1>1, <1>6, <1>8
  <2>5. (pass <=> count + 1 <= Limit) /\ (L!FirstTrip(nb) <=> count = Limit)
    BY <1>6, <2>2 DEF L!FirstTrip
  <2> HIDE DEF nb, start, count, a, r, t
  <2>6. AllSound(allowed'[k], refused'[k], trips'[k], start, count + 1, instant)
    <3>1. CASE count + 1 <= Limit
      <4>1. allowed'[k] = Append(a, instant) /\ refused'[k] = r /\ trips'[k] = t
        BY <1>4, <1>6, <2>4, <2>5, <3>1
      <4>2. QED BY <1>1, <2>3, <2>4, <3>1, <4>1, CountedOn
    <3>2. CASE count = Limit
      <4>1. /\ allowed'[k] = a /\ refused'[k] = Append(r, instant)
            /\ trips'[k] = Append(t, instant)
        BY <1>4, <1>6, <2>4, <2>5, <3>2
      <4>2. QED BY <1>1, <2>3, <2>4, <3>2, <4>1, CountedTrip
    <3>3. CASE count > Limit
      <4>1. allowed'[k] = a /\ refused'[k] = Append(r, instant) /\ trips'[k] = t
        BY <1>4, <1>6, <2>4, <2>5, <3>3
      <4>2. AllSound(a, Append(r, instant), t, start, count + 1, instant)
        BY <1>1, <2>3, <2>4, <3>3, CountedAgain
      <4>3. QED BY Zenon, <4>1, <4>2
    <3>4. QED BY <1>6, <2>4, <3>1, <3>2, <3>3
  <2>7. bucket'[k].start = start /\ bucket'[k].count = count + 1 /\ bucket'[k] \in L!Bucket
    <3>1. bucket'[k] = nb
      BY <1>4
    <3>2. QED BY <2>2, <3>1
  <2>8. QED BY <1>2, <1>5, <2>6, <2>7 DEF KeySound
<1>9. QED BY <1>7, <1>8

LEMMA CheckKeeps == ASSUME LimInv, NEW k \in Keys, L!Check(k) PROVE LimInv'
<1> DEFINE kept == L!ToSet(L!OrderWith(k))
           nb == L!NextBucket(k)
           pass == nb.count <= Limit
           trip == L!FirstTrip(nb)
<1>1. /\ L!OrderWith(k) \in Seq(Keys) /\ L!IsInjective(L!OrderWith(k))
      /\ Len(L!OrderWith(k)) <= MaxKeys /\ k \in kept /\ kept \subseteq L!Tracked \cup {k}
  BY OrderKeeps DEF LimInv
<1>2. order' = L!OrderWith(k) /\ L!Tracked' = kept /\ instant' = instant
  BY DEF L!Check, L!Tracked
<1>3. /\ bucket'[k] \in L!Bucket /\ KeySound(k)'
      /\ allowed' \in [Keys -> Times] /\ refused' \in [Keys -> Times] /\ trips' \in [Keys -> Times]
  BY CheckedKey
<1>4. bucket' \in [Keys -> L!Bucket]
  <2>1. L!NoBucket \in L!Bucket
    BY DEF L!NoBucket, L!Bucket
  <2>2. QED BY <1>3, <2>1 DEF LimInv, L!TypeOK, L!Check
<1>5. L!TypeOK'
  BY <1>1, <1>2, <1>3, <1>4 DEF LimInv, L!TypeOK, L!Instants, Times, L!IsInjective
<1>6. ASSUME NEW j \in Keys PROVE IF j \in L!Tracked' THEN KeySound(j)' ELSE Untracked(j)'
  <2>1. CASE j = k
    BY <1>1, <1>2, <1>3, <2>1
  <2>2. CASE j # k
    <3> DEFINE turned == ~pass
    <3>1. allowed' = L!Note(allowed, k, pass) /\ refused' = L!Note(refused, k, turned)
          /\ trips' = L!Note(trips, k, trip)
      BY DEF L!Check
    <3> HIDE DEF pass, trip, nb, turned
    <3> DEFINE noted(h) == IF j \in kept THEN h[j] ELSE <<>>
    <3>2. /\ L!Note(allowed, k, pass)[j] = noted(allowed)
          /\ L!Note(refused, k, turned)[j] = noted(refused)
          /\ L!Note(trips, k, trip)[j] = noted(trips)
      <4>1. L!Note(allowed, k, pass)[j] = noted(allowed)
        BY <2>2, NoteOfAnother
      <4>2. L!Note(refused, k, turned)[j] = noted(refused)
        BY <2>2, NoteOfAnother
      <4>3. L!Note(trips, k, trip)[j] = noted(trips)
        BY <2>2, NoteOfAnother
      <4>4. QED BY <4>1, <4>2, <4>3
    <3>3. /\ allowed'[j] = IF j \in kept THEN allowed[j] ELSE <<>>
          /\ refused'[j] = IF j \in kept THEN refused[j] ELSE <<>>
          /\ trips'[j] = IF j \in kept THEN trips[j] ELSE <<>>
      BY <3>1, <3>2
    <3> HIDE DEF noted
    <3>4. j \in kept => bucket'[j] = bucket[j]
      BY <2>2 DEF L!Check
    <3>5. CASE j \in kept
      <4>1. KeySound(j)
        BY <1>1, <2>2, <3>5 DEF LimInv
      <4>2. QED BY <1>2, <3>3, <3>4, <3>5, <4>1 DEF KeySound
    <3>6. CASE j \notin kept
      BY <1>2, <3>3, <3>6 DEF Untracked
    <3>7. QED BY <3>5, <3>6
  <2>3. QED BY <2>1, <2>2
<1>7. QED BY <1>5, <1>6 DEF LimInv

LEMMA LimNext == LimInv /\ [L!Next]_(L!vars) => LimInv'
<1> SUFFICES ASSUME LimInv, [L!Next]_(L!vars) PROVE LimInv'
  OBVIOUS
<1>1. CASE UNCHANGED L!vars
  BY <1>1 DEF L!vars, LimInv, L!TypeOK, L!Tracked, KeySound, Untracked
<1>2. CASE L!Next
  BY <1>2, TickKeeps, CheckKeeps DEF L!Next
<1>3. QED BY <1>1, <1>2

LEMMA LimImplies == LimInv => LimitsHold
<1> SUFFICES ASSUME LimInv PROVE LimitsHold
  OBVIOUS
<1>1. ASSUME NEW k \in L!Tracked
      PROVE  /\ k \in Keys /\ allowed[k] \in Times /\ Apart(allowed[k])
             /\ HistorySound(allowed[k], refused[k], trips[k])
  <2>1. order \in Seq(Keys)
    BY DEF LimInv, L!TypeOK
  <2>2. k \in Keys
    BY <2>1, TrackedIs
  <2>3. allowed[k] \in Times /\ KeySound(k)
    BY <2>2 DEF LimInv, L!TypeOK, L!Instants, Times
  <2>4. QED BY <2>2, <2>3 DEF KeySound, AllSound, PassesSound
<1>2. L!BoundedRate
  <2>1. ASSUME NEW k \in L!Tracked, NEW s \in 0..MaxInstant, NEW t \in 0..MaxInstant, t < s + Window
        PROVE  Cardinality(L!During(allowed[k], s, t)) <= 2 * Limit
    BY <1>1, <2>1, AtMostTwice
  <2>2. QED BY <1>1, <2>1, CardinalityIs DEF L!BoundedRate, HistorySound, Earned
<1>3. L!OneTripPerWindow
  BY <1>1, CardinalityIs DEF L!OneTripPerWindow, HistorySound, Reported, OncePerWindow
<1>4. QED BY <1>2, <1>3 DEF LimitsHold, LimInv

\* A key that stays tracked passes at most twice its limit in a stretch as long as a
\* window, is refused only where it passed its limit, and its refusals are reported,
\* once a window, with never more keys than the table may hold, for every limit,
\* window and size of the table and any keys in any order (WindowLimiter.check).
THEOREM LimitsKept == MCSpec => []LimitsHold
<1>1. MCInit => LimInv
  BY LimInit DEF MCInit
<1>2. LimInv /\ [MCNext]_<<part, vars, pubVars, limVars, pageVars>> => LimInv'
  BY LimNext DEF MCNext, limVars, L!vars
<1>3. QED BY <1>1, <1>2, LimImplies, PTL DEF MCSpec
-----------------------------------------------------------------------------
(* The pages: what is sorted. *)

LEMMA PageCardinality == ASSUME NEW S PROVE G!Cardinality(S) = Cardinality(S)
BY Zenon DEF G!Cardinality, Cardinality

LEMMA Greatest ==
    ASSUME NEW k \in Nat, NEW N, N \subseteq 1..k, N # {}
    PROVE  \E x \in N : \A y \in N : y <= x
<1> DEFINE below == {k - x : x \in N}
<1>1. below \subseteq Nat /\ below # {}
  <2>1. \A x \in N : x \in Nat /\ k - x \in Nat
    OBVIOUS
  <2>2. QED BY <2>1
<1>2. PICK b \in below : \A c \in below : b <= c
  BY <1>1, Least
<1>3. PICK x \in N : b = k - x
  OBVIOUS
<1>4. \A y \in N : k - x <= k - y
  BY <1>2, <1>3
<1>5. \A y \in N : y <= x
  BY <1>4
<1>6. QED BY <1>5

\* A finite set with a key of its own for each has one of the greatest key.
LEMMA TopOf ==
    ASSUME NEW T, IsFiniteSet(T), T # {}, NEW key, \A x \in T : key[x] \in Int
    PROVE  \E x \in T : \A y \in T : key[y] <= key[x]
<1> DEFINE above(x) == {y \in T : key[y] > key[x]}
           ranks == {Cardinality(above(x)) : x \in T}
<1>1. ASSUME NEW x \in T PROVE IsFiniteSet(above(x)) /\ Cardinality(above(x)) \in Nat
  <2>1. above(x) \subseteq T
    OBVIOUS
  <2>2. QED BY <2>1, FS_Subset, FS_CardinalityType
<1>2. ranks \subseteq Nat /\ ranks # {}
  BY <1>1
<1>3. PICK r \in ranks : \A s \in ranks : r <= s
  BY <1>2, Least
<1>4. PICK x \in T : r = Cardinality(above(x))
  OBVIOUS
<1>5. ASSUME NEW y \in T, key[y] > key[x] PROVE FALSE
  <2>1. above(y) \subseteq above(x) /\ y \in above(x) /\ y \notin above(y)
    BY <1>5
  <2>2. above(y) # above(x)
    BY <2>1
  <2>3. Cardinality(above(y)) < Cardinality(above(x))
    <3> HIDE DEF above
    <3>1. QED BY <1>1, <2>1, <2>2, FS_Subset
  <2>4. Cardinality(above(y)) \in ranks
    OBVIOUS
  <2>5. Cardinality(above(x)) <= Cardinality(above(y))
    BY <1>3, <1>4, <2>4
  <2>6. Cardinality(above(x)) \in Nat /\ Cardinality(above(y)) \in Nat
    BY <1>1
  <2>7. QED
    <3> HIDE DEF above
    <3>1. QED BY <2>3, <2>5, <2>6
<1>6. \A y \in T : key[y] <= key[x]
  BY <1>5
<1>7. QED BY <1>6

Sorts(s, T, key) ==
    /\ s \in [1..Cardinality(T) -> T]
    /\ \A x \in T : \E n \in 1..Cardinality(T) : s[n] = x
    /\ \A m, n \in 1..Cardinality(T) : m < n => key[s[m]] < key[s[n]]

LEMMA SortExists ==
    ASSUME NEW S, IsFiniteSet(S), NEW key, \A x \in S : key[x] \in Int,
           \A x, y \in S : key[x] = key[y] => x = y
    PROVE  \E s : Sorts(s, S, key)
<1> DEFINE bad == {n \in Nat : \E T \in SUBSET S : Cardinality(T) = n /\ ~(\E s : Sorts(s, T, key))}
<1>1. SUFFICES ASSUME bad # {} PROVE FALSE
  BY FS_CardinalityType
<1>2. PICK n \in bad : \A m \in bad : n <= m
  BY <1>1, Least
<1>3. PICK T \in SUBSET S : Cardinality(T) = n /\ ~(\E s : Sorts(s, T, key))
  OBVIOUS
<1>4. IsFiniteSet(T)
  BY FS_Subset
<1>5. T # {}
  <2>1. SUFFICES ASSUME T = {} PROVE FALSE
    OBVIOUS
  <2>2. Cardinality(T) = 0
    BY <2>1, FS_EmptySet
  <2>3. Sorts([x \in 1..0 |-> x], T, key)
    BY <2>1, <2>2 DEF Sorts
  <2>4. QED BY <1>3, <2>3
<1>6. PICK top \in T : \A y \in T : key[y] <= key[top]
  BY <1>4, <1>5, TopOf
<1> DEFINE U == T \ {top}
<1>7. IsFiniteSet(U) /\ n \in Nat /\ n # 0 /\ Cardinality(U) = n - 1
  BY <1>3, <1>4, <1>5, FS_RemoveElement, FS_EmptySet, FS_CardinalityType
<1>8. n - 1 \notin bad
  BY <1>2, <1>7
<1>9. PICK s : Sorts(s, U, key)
  BY <1>7, <1>8
<1> DEFINE t == [k \in 1..n |-> IF k = n THEN top ELSE s[k]]
<1>10. /\ s \in [1..(n - 1) -> U]
       /\ \A x \in U : \E k \in 1..(n - 1) : s[k] = x
       /\ \A k, m \in 1..(n - 1) : k < m => key[s[k]] < key[s[m]]
  BY <1>7, <1>9 DEF Sorts
<1>11. t \in [1..n -> T]
  BY <1>7, <1>10
<1>12. \A x \in T : \E k \in 1..n : t[k] = x
  <2>1. t[n] = top /\ n \in 1..n
    BY <1>7
  <2>2. ASSUME NEW x \in U PROVE \E k \in 1..n : t[k] = x
    <3>1. PICK k \in 1..(n - 1) : s[k] = x
      BY <1>10
    <3>2. k \in 1..n /\ t[k] = x
      BY <1>7, <3>1
    <3>3. QED BY <3>2
  <2>3. QED BY <2>1, <2>2
<1>13. ASSUME NEW k \in 1..n, NEW m \in 1..n, k < m PROVE key[t[k]] < key[t[m]]
  <2>1. k \in 1..(n - 1) /\ t[k] = s[k] /\ s[k] \in U
    BY <1>7, <1>10, <1>13
  <2>2. CASE m = n
    <3>1. t[m] = top
      BY <2>2
    <3>2. key[s[k]] <= key[top] /\ key[s[k]] # key[top] /\ key[s[k]] \in Int /\ key[top] \in Int
      BY <1>6, <2>1
    <3>3. QED BY <2>1, <3>1, <3>2
  <2>3. CASE m # n
    <3>1. m \in 1..(n - 1) /\ t[m] = s[m]
      BY <1>7, <2>3
    <3>2. QED BY <1>10, <1>13, <2>1, <3>1
  <2>4. QED BY <2>2, <2>3
<1>14. Sorts(t, T, key)
  BY <1>3, <1>11, <1>12, <1>13 DEF Sorts
<1>15. QED BY <1>3, <1>14

\* What is in the order of a key is each member once, in that order.
LEMMA OrderedIs ==
    ASSUME NEW S, IsFiniteSet(S), NEW key, \A x \in S : key[x] \in Int,
           \A x, y \in S : key[x] = key[y] => x = y
    PROVE  /\ Sorts(G!InOrderOf(S, key), S, key)
           /\ G!InOrderOf(S, key) \in Seq(S)
           /\ G!ToSet(G!InOrderOf(S, key)) = S
<1> DEFINE Good(s) == G!ToSet(s) = S /\ \A m, n \in DOMAIN s : m < n => key[s[m]] < key[s[n]]
           o == G!InOrderOf(S, key)
<1>1. Cardinality(S) \in Nat /\ G!Cardinality(S) = Cardinality(S)
  BY FS_CardinalityType, PageCardinality
<1>2. PICK s : Sorts(s, S, key)
  BY SortExists
<1>3. s \in [1..Cardinality(S) -> S] /\ Good(s)
  BY <1>1, <1>2 DEF Sorts, G!ToSet
<1>4. o \in [1..Cardinality(S) -> S] /\ Good(o)
  BY <1>1, <1>3 DEF G!InOrderOf
<1>5. DOMAIN o = 1..Cardinality(S)
  BY <1>4
<1>6. o \in Seq(S)
  BY <1>1, <1>4, SeqDef
<1>7. \A x \in S : \E n \in 1..Cardinality(S) : o[n] = x
  BY <1>4, <1>5 DEF G!ToSet
<1>8. QED BY <1>4, <1>5, <1>6, <1>7 DEF Sorts
-----------------------------------------------------------------------------
(* The pages: what a page has read. *)

Begins(s, t) == Len(s) <= Len(t) /\ \A n \in 1..Len(s) : s[n] = t[n]

\* Of two stores the second is the later one.
Grown(a, b) ==
    /\ a.accounts \subseteq b.accounts
    /\ Begins(a.decisions, b.decisions)
    /\ Begins(a.selections, b.selections)
    /\ Begins(a.actions, b.actions)

\* Whoever did something has an account.
Known(s) ==
    /\ \A n \in 1..Len(s.decisions) : s.decisions[n].by \in s.accounts
    /\ \A n \in 1..Len(s.selections) : s.selections[n].by \in s.accounts
    /\ \A k \in G!Kinds : \A n \in 1..Len(s.revisions[k]) : s.revisions[k][n] \in s.accounts

\* The reads of a page that are done, each of a later store than the one before.
Gathered(done) ==
    LET reads == G!Reads(page.name) IN
    /\ DOMAIN got = {reads[n] : n \in 1..done}
    /\ page.at = "answered" => done = Len(reads)
    /\ page.at = "reading" => done < Len(reads)
    /\ \A n \in 1..done : Known(got[reads[n]]) /\ Grown(got[reads[n]], store)
    /\ \A m, n \in 1..done : m < n => Grown(got[reads[m]], got[reads[n]])

\* A page that reads may be read, and what it has read it read in its order.
PagesInv ==
    /\ G!TypeOK
    /\ Known(store)
    /\ page.at = "closed" => DOMAIN got = {}
    /\ page.at \in {"reading", "answered"} =>
        /\ page.name \in G!Names
        /\ page.search # "none" => G!Holds(page.who, "view:source_text")
        /\ \E done \in 0..Len(G!Reads(page.name)) : Gathered(done)

LEMMA StoreFields ==
    ASSUME NEW s \in G!Store
    PROVE  /\ s.accounts \subseteq People /\ s.readings \subseteq People
           /\ s.decisions \in Seq([row : corpus.review, by : People, noted : BOOLEAN])
           /\ s.selections \in Seq([incident : DOMAIN corpus.members, state : {"selected", "unselected"},
                                    by : People, noted : BOOLEAN])
           /\ s.actions \in Seq([association : corpus.associations, status : {"accepted", "rejected"}])
           /\ s.revisions \in [G!Kinds -> Seq(People)] /\ s.published \in [G!Kinds -> Nat]
           /\ s.clustered \in BOOLEAN /\ s.completed \in BOOLEAN /\ s.audit \in Seq(People)
BY DEF G!Store

LEMMA GrownSame == ASSUME NEW s \in G!Store PROVE Grown(s, s)
BY StoreFields DEF Grown, Begins

LEMMA GrownOn ==
    ASSUME NEW a \in G!Store, NEW b \in G!Store, NEW c \in G!Store, Grown(a, b), Grown(b, c)
    PROVE  Grown(a, c)
<1>1. /\ Len(a.decisions) \in Nat /\ Len(b.decisions) \in Nat /\ Len(c.decisions) \in Nat
      /\ Len(a.selections) \in Nat /\ Len(b.selections) \in Nat /\ Len(c.selections) \in Nat
      /\ Len(a.actions) \in Nat /\ Len(b.actions) \in Nat /\ Len(c.actions) \in Nat
  BY StoreFields
<1>2. a.accounts \subseteq c.accounts
  BY DEF Grown
<1>3. Begins(a.decisions, c.decisions)
  BY <1>1 DEF Grown, Begins
<1>4. Begins(a.selections, c.selections)
  BY <1>1 DEF Grown, Begins
<1>5. Begins(a.actions, c.actions)
  BY <1>1 DEF Grown, Begins
<1>6. QED BY <1>2, <1>3, <1>4, <1>5 DEF Grown

LEMMA AppendBegins ==
    ASSUME NEW S, NEW s \in Seq(S), NEW x \in S
    PROVE  /\ Begins(s, Append(s, x)) /\ Append(s, x) \in Seq(S) /\ Len(Append(s, x)) = Len(s) + 1
           /\ Append(s, x)[Len(s) + 1] = x /\ \A n \in 1..Len(s) : Append(s, x)[n] = s[n]
<1>1. /\ Append(s, x) \in Seq(S) /\ Len(Append(s, x)) = Len(s) + 1 /\ Len(s) \in Nat
      /\ Append(s, x)[Len(s) + 1] = x /\ \A n \in 1..Len(s) : Append(s, x)[n] = s[n]
  BY AppendProperties, LenProperties
<1>2. QED BY <1>1 DEF Begins

LEMMA Apart5 ==
    ASSUME NEW a, NEW b, NEW c, NEW d, NEW e, NEW r, NEW l \in 2..5,
           (r = <<a, b>> /\ l = 2) \/ (r = <<a, b, c>> /\ l = 3)
             \/ (r = <<a, b, c, d, e>> /\ l = 5),
           a # b, l > 2 => c \notin {a, b}, l > 3 => d \notin {a, b, c} /\ e \notin {a, b, c, d}
    PROVE  Len(r) = l /\ \A m, n \in 1..l : r[m] = r[n] => m = n
<1>1. CASE r = <<a, b>> /\ l = 2
  BY <1>1
<1>2. CASE r = <<a, b, c>> /\ l = 3
  BY <1>2
<1>3. CASE r = <<a, b, c, d, e>> /\ l = 5
  <2>1. Len(r) = 5 /\ r[1] = a /\ r[2] = b /\ r[3] = c /\ r[4] = d /\ r[5] = e
    BY <1>3
  <2>2. \A m \in 1..5 : m = 1 \/ m = 2 \/ m = 3 \/ m = 4 \/ m = 5
    OBVIOUS
  <2>3. QED BY <1>3, <2>1, <2>2
<1>4. QED BY <1>1, <1>2, <1>3

LEMMA ReadsApart ==
    ASSUME NEW name \in G!Names
    PROVE  /\ Len(G!Reads(name)) \in 2..5
           /\ \A m, n \in 1..Len(G!Reads(name)) : G!Reads(name)[m] = G!Reads(name)[n] => m = n
<1>1. CASE name = "queue"
  <2>1. G!Reads(name) = <<"entries", "decisions", "accounts">>
    BY <1>1 DEF G!Reads
  <2>2. QED BY <2>1, Apart5
<1>2. CASE name = "week"
  <2>1. G!Reads(name) = <<"week", "children", "incidents", "selections", "accounts">>
    BY <1>2 DEF G!Reads
  <2>2. QED BY <2>1, Apart5
<1>3. CASE name \in {"roundup", "article"}
  <2>1. G!Reads(name) = <<"week", "revisions", "selected", "accounts", "publication">>
    BY <1>3 DEF G!Reads
  <2>2. QED BY <2>1, Apart5
<1>4. CASE name = "draft"
  <2>1. G!Reads(name) = <<"generated", "revisions", "accounts">>
    BY <1>4 DEF G!Reads
  <2>2. QED BY <2>1, Apart5
<1>5. CASE name = "evidence"
  <2>1. G!Reads(name) = <<"states", "associations", "actions">>
    BY <1>5 DEF G!Reads
  <2>2. QED BY <2>1, Apart5
<1>6. CASE name = "administration"
  <2>1. G!Reads(name) = <<"accounts", "audit">>
    BY <1>6 DEF G!Reads
  <2>2. QED BY <2>1, Apart5
<1>7. CASE name = "incident"
  <2>1. G!Reads(name) = <<"cluster", "members">>
    BY <1>7 DEF G!Reads
  <2>2. QED BY <2>1, Apart5
<1>8. CASE name = "generation"
  <2>1. G!Reads(name) = <<"selected", "omitted", "carried">>
    BY <1>8 DEF G!Reads
  <2>2. QED BY <2>1, Apart5
<1>9. QED BY <1>1, <1>2, <1>3, <1>4, <1>5, <1>6, <1>7, <1>8 DEF G!Names

LEMMA PagesInit == G!Init => PagesInv
<1> SUFFICES ASSUME G!Init PROVE PagesInv
  OBVIOUS
<1>1. G!Empty \in G!Store /\ Known(G!Empty)
  BY PagesAssumption DEF G!Empty, G!Store, Known, G!Kinds
<1>2. PICK done \in BOOLEAN : store = [G!Empty EXCEPT !.clustered = done, !.completed = done]
  BY DEF G!Init
<1>3. store \in G!Store
  BY <1>1, <1>2 DEF G!Store
<1>4. Known(store)
  <2>1. store.decisions = G!Empty.decisions /\ store.selections = G!Empty.selections
        /\ store.revisions = G!Empty.revisions /\ store.accounts = G!Empty.accounts
    BY <1>2 DEF G!Empty
  <2>2. QED BY <1>1, <2>1 DEF Known
<1>5. page \in G!Page /\ page.at = "closed"
  BY DEF G!Init, G!NoPage, G!Page
<1>6. DOMAIN got = {}
  BY DEF G!Init
<1>7. G!TypeOK
  BY <1>3, <1>5, <1>6 DEF G!TypeOK, G!Init
<1>8. QED BY <1>4, <1>5, <1>6, <1>7 DEF PagesInv

\* An edit leads to a later store and leaves the pages.
LEMMA WritesKeeps ==
    ASSUME PagesInv, NEW changed, G!Writes(changed), changed \in G!Store, Grown(store, changed),
           Known(changed)
    PROVE  PagesInv'
<1>1. /\ store' = changed /\ UNCHANGED <<corpus, titles, page, got>> /\ acts' = acts + 1 /\ acts < MaxActs
  BY DEF G!Writes
<1>2. G!TypeOK'
  <2>1. acts' \in 0..MaxActs
    BY <1>1, PagesAssumption DEF PagesInv, G!TypeOK
  <2>2. G!Store' = G!Store /\ G!Page' = G!Page /\ G!Rows' = G!Rows
    BY <1>1 DEF G!Store, G!Page, G!Rows
  <2>3. QED BY <1>1, <2>1, <2>2 DEF PagesInv, G!TypeOK
<1>3. Known(store)'
  BY <1>1 DEF Known
<1>4. ASSUME page.at \in {"reading", "answered"}, NEW done \in 0..Len(G!Reads(page.name)), Gathered(done)
      PROVE  Gathered(done)'
  <2> DEFINE reads == G!Reads(page.name)
  <2>1. \A n \in 1..done : reads[n] \in DOMAIN got /\ got[reads[n]] \in G!Store
    BY <1>4 DEF Gathered, PagesInv, G!TypeOK
  <2>2. \A n \in 1..done : Grown(got[reads[n]], store')
    BY <1>1, <1>4, <2>1, GrownOn DEF Gathered, PagesInv, G!TypeOK
  <2>3. QED BY <1>1, <1>4, <2>2 DEF Gathered
<1>5. QED BY <1>1, <1>2, <1>3, <1>4 DEF PagesInv

LEMMA BeginsSame == ASSUME NEW S, NEW s \in Seq(S) PROVE Begins(s, s)
BY DEF Begins

LEMMA StoreNow ==
    ASSUME PagesInv
    PROVE  /\ store \in G!Store /\ Known(store)
           /\ store.accounts \subseteq People /\ store.readings \subseteq People
           /\ store.decisions \in Seq([row : corpus.review, by : People, noted : BOOLEAN])
           /\ store.selections \in Seq([incident : DOMAIN corpus.members, state : {"selected", "unselected"},
                                    by : People, noted : BOOLEAN])
           /\ store.actions \in Seq([association : corpus.associations, status : {"accepted", "rejected"}])
           /\ store.revisions \in [G!Kinds -> Seq(People)] /\ store.published \in [G!Kinds -> Nat]
           /\ store.audit \in Seq(People)
           /\ Begins(store.decisions, store.decisions) /\ Begins(store.selections, store.selections)
           /\ Begins(store.actions, store.actions)
<1>1. store \in G!Store /\ Known(store)
  BY DEF PagesInv, G!TypeOK
<1>2. QED BY <1>1, StoreFields, BeginsSame

LEMMA AccountKeeps ==
    ASSUME PagesInv, NEW a \in People, G!InsertAccount(a)
    PROVE  PagesInv'
<1>n. /\ store \in G!Store /\ Known(store)
      /\ store.accounts \subseteq People /\ store.readings \subseteq People
                                    /\ store.decisions \in Seq([row : corpus.review, by : People, noted : BOOLEAN])
      /\ store.selections \in Seq([incident : DOMAIN corpus.members, state : {"selected", "unselected"},
                                    by : People, noted : BOOLEAN])
      /\ store.actions \in Seq([association : corpus.associations, status : {"accepted", "rejected"}])
      /\ store.revisions \in [G!Kinds -> Seq(People)] /\ store.published \in [G!Kinds -> Nat]
      /\ store.audit \in Seq(People)
      /\ Begins(store.decisions, store.decisions) /\ Begins(store.selections, store.selections)
      /\ Begins(store.actions, store.actions)
  BY StoreNow
<1>a. Append(store.audit, a) \in Seq(People)
  BY <1>n, AppendBegins
<1> DEFINE changed == [store EXCEPT !.accounts = @ \cup {a}, !.audit = Append(@, a)]
<1>w. G!Writes(changed)
  BY DEF G!InsertAccount
<1>1. changed \in G!Store
  BY <1>n, <1>a DEF G!Store
<1>2. /\ changed.accounts = store.accounts \cup {a} /\ changed.decisions = store.decisions
      /\ changed.selections = store.selections /\ changed.actions = store.actions
      /\ changed.revisions = store.revisions
  BY <1>n DEF G!Store
<1> HIDE DEF changed
<1>3. Grown(store, changed)
  BY <1>n, <1>2 DEF Grown
<1>4. Known(changed)
  BY <1>n, <1>2 DEF Known
<1>5. QED BY <1>w, <1>1, <1>3, <1>4, WritesKeeps

LEMMA DecisionKeeps ==
    ASSUME PagesInv, NEW a \in People, NEW i \in corpus.review, NEW noted \in BOOLEAN, G!AppendQueueDecision(a, i, noted)
    PROVE  PagesInv'
<1>n. /\ store \in G!Store /\ Known(store)
      /\ store.accounts \subseteq People /\ store.readings \subseteq People
                                    /\ store.decisions \in Seq([row : corpus.review, by : People, noted : BOOLEAN])
      /\ store.selections \in Seq([incident : DOMAIN corpus.members, state : {"selected", "unselected"},
                                    by : People, noted : BOOLEAN])
      /\ store.actions \in Seq([association : corpus.associations, status : {"accepted", "rejected"}])
      /\ store.revisions \in [G!Kinds -> Seq(People)] /\ store.published \in [G!Kinds -> Nat]
      /\ store.audit \in Seq(People)
      /\ Begins(store.decisions, store.decisions) /\ Begins(store.selections, store.selections)
      /\ Begins(store.actions, store.actions)
  BY StoreNow
<1>a. Append(store.audit, a) \in Seq(People)
  BY <1>n, AppendBegins
<1> DEFINE d == [row |-> i, by |-> a, noted |-> noted]
           D == [row : corpus.review, by : People, noted : BOOLEAN]
           changed == [store EXCEPT !.decisions = Append(@, d), !.audit = Append(@, a)]
<1>w. G!Writes(changed) /\ a \in store.accounts
  BY DEF G!AppendQueueDecision
<1>d. d \in D /\ store.decisions \in Seq(D) /\ d.by = a
  BY <1>n
<1> HIDE DEF d, D
<1>1. /\ Begins(store.decisions, Append(store.decisions, d)) /\ Append(store.decisions, d) \in Seq(D)
      /\ Len(Append(store.decisions, d)) = Len(store.decisions) + 1 /\ Len(store.decisions) \in Nat
      /\ Append(store.decisions, d)[Len(store.decisions) + 1] = d
      /\ \A n \in 1..Len(store.decisions) : Append(store.decisions, d)[n] = store.decisions[n]
  BY <1>d, AppendBegins, LenProperties
<1>2. changed \in G!Store
  BY <1>n, <1>1, <1>a DEF G!Store, D
<1>3. /\ changed.accounts = store.accounts /\ changed.decisions = Append(store.decisions, d)
      /\ changed.selections = store.selections /\ changed.actions = store.actions
      /\ changed.revisions = store.revisions
  BY <1>n DEF G!Store
<1> HIDE DEF changed
<1>4. Grown(store, changed)
  BY <1>n, <1>1, <1>3 DEF Grown
<1>5. \A n \in 1..Len(changed.decisions) : changed.decisions[n].by \in changed.accounts
  BY <1>n, <1>w, <1>d, <1>1, <1>3 DEF Known
<1>6. Known(changed)
  BY <1>n, <1>3, <1>5 DEF Known
<1>7. QED BY <1>w, <1>2, <1>4, <1>6, WritesKeeps

LEMMA SelectionKeeps ==
    ASSUME PagesInv, NEW a \in People, NEW i \in DOMAIN corpus.members,
           NEW state \in {"selected", "unselected"}, NEW noted \in BOOLEAN, G!InsertIssueSelection(a, i, state, noted)
    PROVE  PagesInv'
<1>n. /\ store \in G!Store /\ Known(store)
      /\ store.accounts \subseteq People /\ store.readings \subseteq People
                                    /\ store.decisions \in Seq([row : corpus.review, by : People, noted : BOOLEAN])
      /\ store.selections \in Seq([incident : DOMAIN corpus.members, state : {"selected", "unselected"},
                                    by : People, noted : BOOLEAN])
      /\ store.actions \in Seq([association : corpus.associations, status : {"accepted", "rejected"}])
      /\ store.revisions \in [G!Kinds -> Seq(People)] /\ store.published \in [G!Kinds -> Nat]
      /\ store.audit \in Seq(People)
      /\ Begins(store.decisions, store.decisions) /\ Begins(store.selections, store.selections)
      /\ Begins(store.actions, store.actions)
  BY StoreNow
<1> DEFINE d == [incident |-> i, state |-> state, by |-> a, noted |-> noted]
           D == [incident : DOMAIN corpus.members, state : {"selected", "unselected"},
                by : People, noted : BOOLEAN]
           changed == [store EXCEPT !.selections = Append(@, d)]
<1>w. G!Writes(changed) /\ a \in store.accounts
  BY DEF G!InsertIssueSelection
<1>d. d \in D /\ store.selections \in Seq(D) /\ d.by = a
  BY <1>n
<1> HIDE DEF d, D
<1>1. /\ Begins(store.selections, Append(store.selections, d)) /\ Append(store.selections, d) \in Seq(D)
      /\ Len(Append(store.selections, d)) = Len(store.selections) + 1 /\ Len(store.selections) \in Nat
      /\ Append(store.selections, d)[Len(store.selections) + 1] = d
      /\ \A n \in 1..Len(store.selections) : Append(store.selections, d)[n] = store.selections[n]
  BY <1>d, AppendBegins, LenProperties
<1>2. changed \in G!Store
  BY <1>n, <1>1 DEF G!Store, D
<1>3. /\ changed.accounts = store.accounts /\ changed.selections = Append(store.selections, d)
      /\ changed.decisions = store.decisions /\ changed.actions = store.actions
      /\ changed.revisions = store.revisions
  BY <1>n DEF G!Store
<1> HIDE DEF changed
<1>4. Grown(store, changed)
  BY <1>n, <1>1, <1>3 DEF Grown
<1>5. ASSUME NEW n \in 1..Len(changed.selections) PROVE changed.selections[n].by \in changed.accounts
  <2>1. n \in 1..Len(store.selections) \/ n = Len(store.selections) + 1
    BY <1>1, <1>3
  <2>2. CASE n \in 1..Len(store.selections)
    <3>1. changed.selections[n] = store.selections[n]
      BY <1>1, <1>3, <2>2
    <3>2. store.selections[n].by \in store.accounts
      BY <1>n, <2>2 DEF Known
    <3>3. QED BY <1>3, <3>1, <3>2
  <2>3. CASE n = Len(store.selections) + 1
    BY <1>w, <1>d, <1>1, <1>3, <2>3
  <2>4. QED BY <2>1, <2>2, <2>3
<1>6. Known(changed)
  BY <1>n, <1>3, <1>5 DEF Known
<1>7. QED BY <1>w, <1>2, <1>4, <1>6, WritesKeeps

LEMMA ActionKeeps ==
    ASSUME PagesInv, NEW a \in People, NEW i \in corpus.associations,
           NEW status \in {"accepted", "rejected"}, G!InsertEvidenceAction(a, i, status)
    PROVE  PagesInv'
<1>n. /\ store \in G!Store /\ Known(store)
      /\ store.accounts \subseteq People /\ store.readings \subseteq People
                                    /\ store.decisions \in Seq([row : corpus.review, by : People, noted : BOOLEAN])
      /\ store.selections \in Seq([incident : DOMAIN corpus.members, state : {"selected", "unselected"},
                                    by : People, noted : BOOLEAN])
      /\ store.actions \in Seq([association : corpus.associations, status : {"accepted", "rejected"}])
      /\ store.revisions \in [G!Kinds -> Seq(People)] /\ store.published \in [G!Kinds -> Nat]
      /\ store.audit \in Seq(People)
      /\ Begins(store.decisions, store.decisions) /\ Begins(store.selections, store.selections)
      /\ Begins(store.actions, store.actions)
  BY StoreNow
<1> DEFINE d == [association |-> i, status |-> status]
           D == [association : corpus.associations, status : {"accepted", "rejected"}]
           changed == [store EXCEPT !.actions = Append(@, d)]
<1>w. G!Writes(changed)
  BY DEF G!InsertEvidenceAction
<1>d. d \in D /\ store.actions \in Seq(D)
  BY <1>n
<1> HIDE DEF d, D
<1>1. /\ Begins(store.actions, Append(store.actions, d)) /\ Append(store.actions, d) \in Seq(D)
      /\ Len(Append(store.actions, d)) = Len(store.actions) + 1 /\ Len(store.actions) \in Nat
      /\ Append(store.actions, d)[Len(store.actions) + 1] = d
      /\ \A n \in 1..Len(store.actions) : Append(store.actions, d)[n] = store.actions[n]
  BY <1>d, AppendBegins, LenProperties
<1>2. changed \in G!Store
  BY <1>n, <1>1 DEF G!Store, D
<1>3. /\ changed.accounts = store.accounts /\ changed.actions = Append(store.actions, d)
      /\ changed.decisions = store.decisions /\ changed.selections = store.selections
      /\ changed.revisions = store.revisions
  BY <1>n DEF G!Store
<1> HIDE DEF changed
<1>4. Grown(store, changed)
  BY <1>n, <1>1, <1>3 DEF Grown
<1>5. Known(changed)
  BY <1>n, <1>3 DEF Known
<1>6. QED BY <1>w, <1>2, <1>4, <1>5, WritesKeeps

LEMMA RevisionKeeps ==
    ASSUME PagesInv, NEW a \in People, NEW kind \in G!Kinds, G!InsertRevision(a, kind)
    PROVE  PagesInv'
<1>n. /\ store \in G!Store /\ Known(store)
      /\ store.accounts \subseteq People /\ store.readings \subseteq People
                                    /\ store.decisions \in Seq([row : corpus.review, by : People, noted : BOOLEAN])
      /\ store.selections \in Seq([incident : DOMAIN corpus.members, state : {"selected", "unselected"},
                                    by : People, noted : BOOLEAN])
      /\ store.actions \in Seq([association : corpus.associations, status : {"accepted", "rejected"}])
      /\ store.revisions \in [G!Kinds -> Seq(People)] /\ store.published \in [G!Kinds -> Nat]
      /\ store.audit \in Seq(People)
      /\ Begins(store.decisions, store.decisions) /\ Begins(store.selections, store.selections)
      /\ Begins(store.actions, store.actions)
  BY StoreNow
<1> DEFINE changed == [store EXCEPT !.revisions[kind] = Append(@, a)]
<1>w. G!Writes(changed) /\ a \in store.accounts
  BY DEF G!InsertRevision
<1>1. changed.revisions = [store.revisions EXCEPT ![kind] = Append(store.revisions[kind], a)]
  BY <1>n DEF G!Store
<1>2. store.revisions[kind] \in Seq(People)
  BY <1>n
<1>3. /\ Append(store.revisions[kind], a) \in Seq(People)
      /\ Len(Append(store.revisions[kind], a)) = Len(store.revisions[kind]) + 1
      /\ Len(store.revisions[kind]) \in Nat
      /\ Append(store.revisions[kind], a)[Len(store.revisions[kind]) + 1] = a
      /\ \A n \in 1..Len(store.revisions[kind]) :
            Append(store.revisions[kind], a)[n] = store.revisions[kind][n]
  BY <1>2, AppendBegins, LenProperties
<1>4. changed.revisions \in [G!Kinds -> Seq(People)]
  BY <1>n, <1>1, <1>3
<1>5. changed = [store EXCEPT !.revisions = changed.revisions]
  BY <1>n DEF G!Store
<1>6. /\ changed.accounts = store.accounts /\ changed.decisions = store.decisions
      /\ changed.selections = store.selections /\ changed.actions = store.actions
  BY <1>n DEF G!Store
<1> HIDE DEF changed
<1>7. changed \in G!Store
  BY <1>n, <1>4, <1>5 DEF G!Store
<1>8. Grown(store, changed)
  BY <1>n, <1>6 DEF Grown
<1>9. ASSUME NEW k \in G!Kinds, NEW n \in 1..Len(changed.revisions[k])
      PROVE  changed.revisions[k][n] \in changed.accounts
  <2>1. CASE k = kind
    <3>1. changed.revisions[k] = Append(store.revisions[kind], a)
      BY <1>n, <1>1, <2>1
    <3>2. \A m \in 1..Len(store.revisions[kind]) : store.revisions[kind][m] \in store.accounts
      BY <1>n DEF Known
    <3>3. n \in 1..Len(store.revisions[kind]) \/ n = Len(store.revisions[kind]) + 1
      BY <1>3, <1>9, <3>1
    <3>4. QED BY <1>w, <1>3, <1>6, <3>1, <3>2, <3>3
  <2>2. CASE k # kind
    <3>1. changed.revisions[k] = store.revisions[k]
      BY <1>n, <1>1, <2>2
    <3>2. QED BY <1>n, <1>6, <1>9, <3>1 DEF Known
  <2>3. QED BY <2>1, <2>2
<1>10. Known(changed)
  BY <1>n, <1>6, <1>9 DEF Known
<1>11. QED BY <1>w, <1>7, <1>8, <1>10, WritesKeeps

LEMMA MarksKeep ==
    ASSUME PagesInv, NEW changed, G!Writes(changed), changed \in G!Store,
           /\ changed.accounts = store.accounts /\ changed.decisions = store.decisions
           /\ changed.selections = store.selections /\ changed.actions = store.actions
           /\ changed.revisions = store.revisions
    PROVE  PagesInv'
<1>1. Known(store) /\ Grown(store, changed)
  BY StoreNow DEF Grown
<1>2. Known(changed)
  BY <1>1 DEF Known
<1>3. QED BY <1>1, <1>2, WritesKeeps

LEMMA PublicationKeeps ==
    ASSUME PagesInv, NEW a \in People, NEW kind \in G!Kinds, G!InsertPublication(a, kind)
    PROVE  PagesInv'
<1> DEFINE to == [store.published EXCEPT ![kind] = Len(store.revisions[kind])]
           changed == [store EXCEPT !.published[kind] = Len(store.revisions[kind])]
<1>1. G!Writes(changed)
  BY DEF G!InsertPublication
<1>2. store \in G!Store /\ Len(store.revisions[kind]) \in Nat /\ store.published \in [G!Kinds -> Nat]
  BY StoreNow
<1>3. to \in [G!Kinds -> Nat]
  BY <1>2
<1>4. changed = [store EXCEPT !.published = to]
  BY <1>2 DEF G!Store
<1>5. changed \in G!Store
  <2> HIDE DEF to, changed
  <2>1. QED BY <1>2, <1>3, <1>4 DEF G!Store
<1>6. /\ changed.accounts = store.accounts /\ changed.decisions = store.decisions
      /\ changed.selections = store.selections /\ changed.actions = store.actions
      /\ changed.revisions = store.revisions
  BY <1>2 DEF G!Store
<1> HIDE DEF changed
<1>7. QED BY <1>1, <1>5, <1>6, MarksKeep

LEMMA ReadingKeeps ==
    ASSUME PagesInv, NEW a \in People, G!KeepReading(a)
    PROVE  PagesInv'
<1> DEFINE changed == [store EXCEPT !.readings = @ \cup {a}]
<1>1. G!Writes(changed)
  BY DEF G!KeepReading
<1>2. store \in G!Store /\ store.readings \subseteq People
  BY StoreNow
<1>3. changed \in G!Store
  BY <1>2 DEF G!Store
<1>4. /\ changed.accounts = store.accounts /\ changed.decisions = store.decisions
      /\ changed.selections = store.selections /\ changed.actions = store.actions
      /\ changed.revisions = store.revisions
  BY <1>2 DEF G!Store
<1> HIDE DEF changed
<1>5. QED BY <1>1, <1>3, <1>4, MarksKeep

LEMMA ChildKeeps ==
    ASSUME PagesInv, G!InsertWeekRunChild
    PROVE  PagesInv'
<1> DEFINE changed == [store EXCEPT !.clustered = TRUE]
<1>1. G!Writes(changed)
  BY DEF G!InsertWeekRunChild
<1>2. store \in G!Store /\ store.readings \subseteq People
  BY StoreNow
<1>3. changed \in G!Store
  BY <1>2 DEF G!Store
<1>4. /\ changed.accounts = store.accounts /\ changed.decisions = store.decisions
      /\ changed.selections = store.selections /\ changed.actions = store.actions
      /\ changed.revisions = store.revisions
  BY <1>2 DEF G!Store
<1> HIDE DEF changed
<1>5. QED BY <1>1, <1>3, <1>4, MarksKeep

LEMMA CompletionKeeps ==
    ASSUME PagesInv, G!CompleteWeekRun
    PROVE  PagesInv'
<1> DEFINE changed == [store EXCEPT !.completed = TRUE]
<1>1. G!Writes(changed)
  BY DEF G!CompleteWeekRun
<1>2. store \in G!Store /\ store.readings \subseteq People
  BY StoreNow
<1>3. changed \in G!Store
  BY <1>2 DEF G!Store
<1>4. /\ changed.accounts = store.accounts /\ changed.decisions = store.decisions
      /\ changed.selections = store.selections /\ changed.actions = store.actions
      /\ changed.revisions = store.revisions
  BY <1>2 DEF G!Store
<1> HIDE DEF changed
<1>5. QED BY <1>1, <1>3, <1>4, MarksKeep

LEMMA OpenKeeps ==
    ASSUME PagesInv, NEW name \in G!Names, NEW who \in People, NEW after \in corpus.review \cup {0},
           NEW search \in Sayings \cup {"none"}, NEW sort \in {"posted_desc", "members_desc"},
           NEW incident \in DOMAIN corpus.members \cup {0},
           G!Open(name, who, after, search, sort, incident)
    PROVE  PagesInv'
<1> DEFINE turnedAway == ~G!Holds(who, G!Requires(name)) \/ (search # "none" /\ ~G!Holds(who, "view:source_text"))
<1>1. /\ page.at = "closed" /\ UNCHANGED <<corpus, titles, store, got, acts>>
      /\ page' = [name |-> name, who |-> who, after |-> after, search |-> search, sort |-> sort,
                   incident |-> incident, at |-> IF turnedAway THEN "refused" ELSE "reading"]
  BY DEF G!Open
<1> HIDE DEF turnedAway
<1>2. page'.name = name /\ page'.who = who /\ page'.search = search /\ page'.at \in {"refused", "reading"}
      /\ (page'.at = "reading" => ~turnedAway)
  BY <1>1
<1>3. page' \in G!Page
  BY <1>1 DEF G!Page
<1>4. DOMAIN got = {} /\ G!TypeOK /\ Known(store)
  BY <1>1 DEF PagesInv
<1>5. G!TypeOK'
  <2>1. G!Store' = G!Store /\ G!Page' = G!Page /\ G!Rows' = G!Rows
    BY <1>1 DEF G!Store, G!Page, G!Rows
  <2>2. DOMAIN got' = {}
    BY <1>1, <1>4
  <2>3. QED BY <1>1, <1>3, <1>4, <2>1, <2>2 DEF G!TypeOK
<1>6. Known(store)'
  BY <1>1, <1>4 DEF Known
<1>7. search # "none" /\ ~turnedAway => G!Holds(who, "view:source_text")'
  BY DEF turnedAway, G!Holds, G!Capabilities
<1>z. PICK none \in {0} : none = 0
  OBVIOUS
<1>8. Gathered(none)'
  <2>1. {G!Reads(page.name)[n] : n \in 1..none}' = {}
    BY <1>z
  <2>2. page'.at # "answered" /\ page'.name = name
    BY <1>2
  <2>3. G!Reads(page.name)' = G!Reads(name) /\ Len(G!Reads(name)) \in 2..5
    BY <2>2, ReadsApart DEF G!Reads
  <2> DEFINE nowRead == G!Reads(page.name)'
  <2>a. Len(nowRead) \in 2..5
    <3>1. nowRead = G!Reads(name) /\ Len(G!Reads(name)) \in 2..5
      BY <2>3
    <3> HIDE DEF nowRead
    <3>2. QED BY <3>1
  <2>4. (DOMAIN got)' = {nowRead[n] : n \in 1..none} /\ \A n \in 1..none : FALSE
    <3>1. \A n \in 1..none : FALSE
      BY <1>z
    <3> HIDE DEF nowRead
    <3>2. QED BY <1>1, <1>4, <3>1
  <2>5. page'.at = "answered" => none = Len(nowRead)
    BY <2>2
  <2>6. page'.at = "reading" => none < Len(nowRead)
    <3> HIDE DEF nowRead
    <3>1. PICK l \in 2..5 : Len(nowRead) = l
      BY <2>a
    <3>2. none < l
      BY <1>z
    <3>3. QED BY <3>1, <3>2
  <2>7. /\ \A n \in 1..none : Known(got'[nowRead[n]]) /\ Grown(got'[nowRead[n]], store')
        /\ \A m, n \in 1..none : m < n => Grown(got'[nowRead[m]], got'[nowRead[n]])
    <3> HIDE DEF nowRead
    <3>1. QED BY <2>4
  <2>8. QED BY <2>4, <2>5, <2>6, <2>7 DEF Gathered, Known, Grown, Begins
<1>9. none \in 0..Len(G!Reads(name))
  BY ReadsApart, <1>z
<1>10. page'.at \in {"reading", "answered"} =>
        /\ page'.name \in G!Names
        /\ page'.search # "none" => G!Holds(page.who, "view:source_text")'
        /\ \E done \in 0..Len(G!Reads(page.name))' : Gathered(done)'
  <2>1. G!Reads(page.name)' = G!Reads(name)
    BY <1>2 DEF G!Reads
  <2>2. G!Holds(page.who, "view:source_text")' = G!Holds(who, "view:source_text")
    BY <1>2 DEF G!Holds, G!Capabilities
  <2>3. G!Holds(who, "view:source_text")' = G!Holds(who, "view:source_text")
    BY DEF G!Holds, G!Capabilities
  <2>4. QED BY <1>2, <1>7, <1>8, <1>9, <2>1, <2>2, <2>3
<1>11. page'.at # "closed"
  BY <1>2
<1>12. QED BY <1>5, <1>6, <1>10, <1>11 DEF PagesInv

LEMMA CountOf ==
    ASSUME NEW n \in Nat, NEW s, \A i, j \in 1..n : s[i] = s[j] => i = j
    PROVE  G!Cardinality({s[i] : i \in 1..n}) = n
<1> DEFINE S == {s[i] : i \in 1..n}
           f == [i \in 1..n |-> s[i]]
<1>1. f \in [1..n -> S] /\ \A i, j \in 1..n : f[i] = f[j] => i = j
  OBVIOUS
<1>2. \A x \in S : \E i \in 1..n : f[i] = x
  OBVIOUS
<1> HIDE DEF f, S
<1>3. f \in Bijection(1..n, S)
  BY <1>1, <1>2 DEF Bijection, Injection, IsInjective, Surjection
<1>4. Cardinality(S) = n
  BY <1>3, FS_CountingElements DEF ExistsBijection
<1>5. QED BY <1>4, PageCardinality DEF S

\* A statement adds one read, of the store as it is, to those a page has done.
LEMMA ReadKeeps ==
    ASSUME PagesInv, G!Read
    PROVE  PagesInv'
<1> DEFINE reads == G!Reads(page.name)
           k == G!Cardinality(DOMAIN got) + 1
           turnedAway == \/ reads[k] = "children" /\ ~store.clustered
                         \/ page.name = "generation" /\ ~store.completed
<1>1. /\ page.at = "reading" /\ UNCHANGED <<corpus, titles, store, acts>>
      /\ got' = [r \in {reads[n] : n \in 1..k} |-> IF r = reads[k] THEN store ELSE got[r]]
      /\ page' = [page EXCEPT !.at = IF turnedAway THEN "refused" ELSE IF k = Len(reads) THEN "answered" ELSE @]
  BY DEF G!Read
<1>2. /\ G!TypeOK /\ Known(store) /\ page.name \in G!Names /\ store \in G!Store /\ page \in G!Page
      /\ page.search # "none" => G!Holds(page.who, "view:source_text")
  BY <1>1 DEF PagesInv, G!TypeOK
<1>3. PICK done \in 0..Len(reads) : Gathered(done)
  BY <1>1 DEF PagesInv
<1>4. /\ DOMAIN got = {reads[n] : n \in 1..done} /\ done < Len(reads)
      /\ \A n \in 1..done : Known(got[reads[n]]) /\ Grown(got[reads[n]], store)
      /\ \A m, n \in 1..done : m < n => Grown(got[reads[m]], got[reads[n]])
  BY <1>1, <1>3 DEF Gathered
<1>5. Len(reads) \in 2..5 /\ \A m, n \in 1..Len(reads) : reads[m] = reads[n] => m = n
  BY <1>2, ReadsApart
<1>6. k = done + 1
  <2>1. done \in Nat /\ \A i, j \in 1..done : reads[i] = reads[j] => i = j
    BY <1>5
  <2>2. G!Cardinality({reads[n] : n \in 1..done}) = done
    <3> HIDE DEF reads
    <3>1. QED BY <2>1, CountOf
  <2>3. QED BY <1>4, <2>2
<1> HIDE DEF k, turnedAway
<1>7. k \in 1..Len(reads) /\ done = k - 1
  BY <1>4, <1>5, <1>6
<1>8. /\ page' \in G!Page /\ page'.name = page.name /\ page'.who = page.who /\ page'.search = page.search
      /\ page'.at \in {"refused", "reading", "answered"}
      /\ page'.at = "answered" => k = Len(reads)
      /\ page'.at = "reading" => k # Len(reads)
  BY <1>1, <1>2 DEF G!Page
<1> DEFINE nowRead == G!Reads(page.name)'
<1>9. nowRead = reads
  BY <1>8 DEF G!Reads
<1>10. DOMAIN got' = {reads[n] : n \in 1..k} /\ got'[reads[k]] = store
  BY <1>1, <1>7
<1>11. ASSUME NEW n \in 1..(k - 1) PROVE got'[reads[n]] = got[reads[n]] /\ reads[n] \in DOMAIN got
  <2>1. n \in 1..k /\ n # k /\ n \in 1..done
    BY <1>7
  <2>2. reads[n] # reads[k]
    BY <1>5, <1>7, <2>1
  <2>3. QED BY <1>1, <1>4, <2>1, <2>2
<1>12. G!TypeOK'
  <2>1. G!Store' = G!Store /\ G!Page' = G!Page /\ G!Rows' = G!Rows
    BY <1>1 DEF G!Store, G!Page, G!Rows
  <2>2. \A n \in 1..k : got'[reads[n]] \in G!Store
    <3>1. \A n \in 1..k : n \in 1..(k - 1) \/ n = k
      BY <1>7
    <3>2. \A r \in DOMAIN got : got[r] \in G!Store
      BY <1>2 DEF G!TypeOK
    <3>3. QED BY <1>2, <1>10, <1>11, <3>1, <3>2
  <2>3. \A n \in 1..k : reads[n] \in G!ToSet(reads)
    BY <1>7 DEF G!ToSet
  <2> HIDE DEF reads
  <2>4. \A r \in DOMAIN got' : got'[r] \in G!Store /\ r \in G!ToSet(reads)
    BY <1>10, <2>2, <2>3
  <2>5. page'.at = "reading" => (DOMAIN got)' \subseteq G!ToSet(nowRead)
    <3> HIDE DEF nowRead
    <3>1. QED BY <1>9, <2>4
  <2>6. G!ToSet(nowRead) = G!ToSet(G!Reads(page.name))'
    BY DEF G!ToSet
  <2> HIDE DEF nowRead
  <2>7. /\ corpus' \in Corpora /\ titles' \in [G!Rows -> Sayings] /\ store' \in G!Store
        /\ acts' \in 0..MaxActs
    BY <1>1, <1>2 DEF G!TypeOK
  <2>8. QED BY <1>8, <2>1, <2>4, <2>5, <2>6, <2>7 DEF G!TypeOK
<1>13. Known(store)'
  BY <1>1, <1>2 DEF Known
<1>14. \A n \in 1..k : Known(got'[reads[n]]) /\ Grown(got'[reads[n]], store)
  <2>1. \A n \in 1..k : n \in 1..(k - 1) \/ n = k
    BY <1>7
  <2>2. Grown(store, store)
    BY <1>2, GrownSame
  <2>3. \A n \in 1..(k - 1) : n \in 1..done
    BY <1>7
  <2> HIDE DEF reads
  <2>4. QED BY <1>2, <1>4, <1>10, <1>11, <2>1, <2>2, <2>3
<1>15. ASSUME NEW m \in 1..k, NEW n \in 1..k, m < n PROVE Grown(got'[reads[m]], got'[reads[n]])
  <2>1. m \in 1..(k - 1) /\ m \in 1..done /\ (n = k \/ (n \in 1..(k - 1) /\ n \in 1..done))
    BY <1>7, <1>15
  <2> HIDE DEF reads
  <2>2. QED BY <1>4, <1>10, <1>11, <1>15, <2>1
<1>16. ASSUME page'.at # "refused" PROVE Gathered(done + 1)'
  <2>1. done + 1 \in 1..Len(reads) /\ k = done + 1 /\ store' = store
    BY <1>1, <1>5, <1>6, <1>7
  <2>2. /\ (DOMAIN got)' = {nowRead[n] : n \in 1..(done + 1)}
        /\ page'.at = "answered" => done + 1 = Len(nowRead)
        /\ page'.at = "reading" => done + 1 < Len(nowRead)
    <3> HIDE DEF nowRead, reads
    <3>1. QED BY <1>5, <1>8, <1>9, <1>10, <2>1
  <2>3. /\ \A n \in 1..(done + 1) : Known(got'[nowRead[n]]) /\ Grown(got'[nowRead[n]], store')
        /\ \A m, n \in 1..(done + 1) : m < n => Grown(got'[nowRead[m]], got'[nowRead[n]])
    <3> HIDE DEF nowRead, reads
    <3>1. QED BY <1>9, <1>14, <1>15, <2>1
  <2>4. QED BY <2>2, <2>3 DEF Gathered, Known, Grown, Begins
<1>17. page'.at \in {"reading", "answered"} =>
        /\ page'.name \in G!Names
        /\ page'.search # "none" => G!Holds(page.who, "view:source_text")'
        /\ \E d \in 0..Len(nowRead) : Gathered(d)'
  <2>1. G!Holds(page.who, "view:source_text")' = G!Holds(page.who, "view:source_text")
    BY <1>8 DEF G!Holds, G!Capabilities
  <2>2. done + 1 \in 0..Len(nowRead)
    <3> HIDE DEF nowRead, reads
    <3>1. QED BY <1>5, <1>6, <1>7, <1>9
  <2> HIDE DEF nowRead, reads
  <2>3. QED BY <1>2, <1>8, <1>16, <2>1, <2>2
<1>18. page'.at # "closed"
  BY <1>8
<1>19. QED BY <1>12, <1>13, <1>17, <1>18 DEF PagesInv

LEMMA PagesStep ==
    ASSUME PagesInv, G!Next
    PROVE  PagesInv'
<1>1. ASSUME NEW a \in People, G!InsertAccount(a) PROVE PagesInv'
  BY <1>1, AccountKeeps
<1>2. ASSUME NEW a \in People, NEW i \in corpus.review, NEW noted \in BOOLEAN,
             G!AppendQueueDecision(a, i, noted)
      PROVE  PagesInv'
  BY <1>2, DecisionKeeps
<1>3. ASSUME NEW a \in People, NEW i \in DOMAIN corpus.members, NEW state \in {"selected", "unselected"},
             NEW noted \in BOOLEAN, G!InsertIssueSelection(a, i, state, noted)
      PROVE  PagesInv'
  BY <1>3, SelectionKeeps
<1>4. ASSUME NEW a \in People, NEW i \in corpus.associations, NEW status \in {"accepted", "rejected"},
             G!InsertEvidenceAction(a, i, status)
      PROVE  PagesInv'
  BY <1>4, ActionKeeps
<1>5. ASSUME NEW a \in People, NEW kind \in G!Kinds,
             G!InsertRevision(a, kind) \/ G!InsertPublication(a, kind)
      PROVE  PagesInv'
  BY <1>5, RevisionKeeps, PublicationKeeps
<1>6. ASSUME NEW a \in People, G!KeepReading(a) PROVE PagesInv'
  BY <1>6, ReadingKeeps
<1>7. CASE G!Edit
  BY <1>1, <1>2, <1>3, <1>4, <1>5, <1>6, <1>7 DEF G!Edit
<1>8. CASE G!InsertWeekRunChild \/ G!CompleteWeekRun
  BY <1>8, ChildKeeps, CompletionKeeps
<1>9. CASE G!OpenPage
  <2>1. PICK who \in People :
            \/ \E after \in corpus.review \cup {0} : G!Open("queue", who, after, "none", "posted_desc", 0)
            \/ \E search \in Sayings \cup {"none"}, sort \in {"posted_desc", "members_desc"} :
                G!Open("week", who, 0, search, sort, 0)
            \/ \E name \in {"roundup", "article", "draft", "evidence", "administration", "generation"} :
                G!Open(name, who, 0, "none", "posted_desc", 0)
            \/ \E i \in DOMAIN corpus.members : G!Open("incident", who, 0, "none", "posted_desc", i)
    BY <1>9 DEF G!OpenPage
  <2>2. ASSUME NEW after \in corpus.review \cup {0}, G!Open("queue", who, after, "none", "posted_desc", 0)
        PROVE  PagesInv'
    BY <2>2, OpenKeeps DEF G!Names
  <2>3. ASSUME NEW search \in Sayings \cup {"none"}, NEW sort \in {"posted_desc", "members_desc"},
               G!Open("week", who, 0, search, sort, 0)
        PROVE  PagesInv'
    BY <2>3, OpenKeeps DEF G!Names
  <2>4. ASSUME NEW name \in {"roundup", "article", "draft", "evidence", "administration", "generation"},
               G!Open(name, who, 0, "none", "posted_desc", 0)
        PROVE  PagesInv'
    BY <2>4, OpenKeeps DEF G!Names
  <2>5. ASSUME NEW i \in DOMAIN corpus.members, G!Open("incident", who, 0, "none", "posted_desc", i)
        PROVE  PagesInv'
    BY <2>5, OpenKeeps DEF G!Names
  <2>6. QED BY <2>1, <2>2, <2>3, <2>4, <2>5
<1>10. CASE G!Read
  BY <1>10, ReadKeeps
<1>11. QED BY <1>7, <1>8, <1>9, <1>10 DEF G!Next

LEMMA PagesStay ==
    ASSUME PagesInv, UNCHANGED pageVars
    PROVE  PagesInv'
<1>1. UNCHANGED <<corpus, titles, store, page, got, acts>>
  BY DEF pageVars
<1>2. G!TypeOK' = G!TypeOK
  BY <1>1 DEF G!TypeOK, G!Store, G!Page, G!Rows, G!Kinds, G!Names, G!ToSet, G!Reads
<1>3. Known(store)' = Known(store)
  BY <1>1 DEF Known
<1>4. ASSUME NEW done, Gathered(done) PROVE Gathered(done)'
  <2> DEFINE nowRead == G!Reads(page.name)'
  <2>1. nowRead = G!Reads(page.name)
    BY <1>1
  <2>2. /\ (DOMAIN got)' = {nowRead[n] : n \in 1..done}
        /\ page'.at = "answered" => done = Len(nowRead)
        /\ page'.at = "reading" => done < Len(nowRead)
        /\ \A n \in 1..done : Known(got'[nowRead[n]]) /\ Grown(got'[nowRead[n]], store')
        /\ \A m, n \in 1..done : m < n => Grown(got'[nowRead[m]], got'[nowRead[n]])
    <3> HIDE DEF nowRead
    <3>1. QED BY <1>1, <1>4, <2>1 DEF Gathered
  <2>3. QED BY <2>2 DEF Gathered, Known, Grown, Begins
<1>5. /\ G!Reads(page.name)' = G!Reads(page.name)
      /\ G!Holds(page.who, "view:source_text")' = G!Holds(page.who, "view:source_text")
  BY <1>1 DEF G!Holds, G!Capabilities
<1>6. QED BY <1>1, <1>2, <1>3, <1>4, <1>5 DEF PagesInv
-----------------------------------------------------------------------------
(* The pages: what a page that answers shows. *)

\* Without source text no title is in an answer.
LEMMA PagesTitles ==
    ASSUME PagesInv
    PROVE  G!TitlesStayInside
<1> SUFFICES ASSUME page.at = "answered", ~G!Holds(page.who, "view:source_text"),
                    NEW said \in [G!Rows -> Sayings]
             PROVE  G!Answer(said) = G!Answer(titles)
  BY DEF G!TitlesStayInside
<1>1. page.name \in G!Names /\ page.search = "none"
  BY DEF PagesInv
<1>2. \A what : G!Shown(page.who, "view:source_text", what) = G!Hidden
  BY DEF G!Shown
<1>3. CASE page.name = "queue"
  <2>1. G!ListReviewQueueEntries(page.after, page.who, said) = G!ListReviewQueueEntries(page.after, page.who, titles)
    BY <1>2 DEF G!ListReviewQueueEntries
  <2>2. G!ReviewQueue(page.who, page.after, said) = G!ReviewQueue(page.who, page.after, titles)
    BY Zenon, <2>1 DEF G!ReviewQueue
  <2>3. QED BY <1>3, <2>2 DEF G!Answer
<1>4. CASE page.name = "week"
  <2>1. \A i : G!Matches(i, page.search, said) /\ G!Matches(i, page.search, titles)
    BY <1>1 DEF G!Matches
  <2>2. \A week : G!ListWeekIncidents(week, page.search, page.sort, page.who, said)
                    = G!ListWeekIncidents(week, page.search, page.sort, page.who, titles)
    <3> SUFFICES ASSUME NEW week
                 PROVE  G!ListWeekIncidents(week, page.search, page.sort, page.who, said)
                            = G!ListWeekIncidents(week, page.search, page.sort, page.who, titles)
      OBVIOUS
    <3> DEFINE Of(x) == {i \in DOMAIN corpus.members :
                            /\ G!InWindow(i, week) \/ G!Carried(i, week)
                            /\ G!Matches(i, page.search, x)}
               Table(x) == G!Prefix(G!TableOf(Of(x), page.sort), TablePage)
               Entry(r, x) == [incident |-> r, inWindow |-> G!InWindow(r, week),
                               carried |-> G!Carried(r, week),
                               title |-> G!Shown(page.who, "view:source_text", x[G!Representative(r)])]
    <3>1. Of(said) = Of(titles)
      BY <2>1
    <3>2. Table(said) = Table(titles)
      BY <3>1
    <3>3. \A r : Entry(r, said) = Entry(r, titles)
      BY <1>2
    <3>4. \A x : G!ListWeekIncidents(week, page.search, page.sort, page.who, x)
                    = [n \in DOMAIN Table(x) |-> Entry(Table(x)[n], x)]
      BY Zenon DEF G!ListWeekIncidents
    <3> HIDE DEF Table, Entry
    <3>5. [n \in DOMAIN Table(said) |-> Entry(Table(said)[n], said)]
            = [n \in DOMAIN Table(titles) |-> Entry(Table(titles)[n], titles)]
      BY <3>2, <3>3
    <3>6. QED BY <3>4, <3>5
  <2>3. G!WeekTable(page.who, page.search, page.sort, said) = G!WeekTable(page.who, page.search, page.sort, titles)
    <3> DEFINE Said(x) == G!ListWeekIncidents(corpus.weeks[corpus.week], page.search, page.sort, page.who, x)
               Of(rows) == [rows |-> [n \in DOMAIN rows |->
                                        G!WeekIncidentDto(rows[n],
                                            G!ListLatestIssueSelections(got["selections"].selections), page.who)],
                            canSelect |-> G!Holds(page.who, "select:stories")]
    <3>1. \A x : G!WeekTable(page.who, page.search, page.sort, x) = Of(Said(x))
      BY Zenon DEF G!WeekTable
    <3>2. Said(said) = Said(titles)
      BY Zenon, <2>2
    <3> HIDE DEF Said, Of
    <3>3. QED BY <3>1, <3>2
  <2>4. QED BY <1>4, <2>3 DEF G!Answer
<1>5. CASE page.name = "incident"
  <2>1. G!ListIncidentMembers(page.incident, page.who, said) = G!ListIncidentMembers(page.incident, page.who, titles)
    BY <1>2 DEF G!ListIncidentMembers
  <2>2. G!IncidentDetail(page.who, page.incident, said) = G!IncidentDetail(page.who, page.incident, titles)
    BY Zenon, <2>1 DEF G!IncidentDetail
  <2>3. QED BY <1>5, <2>2 DEF G!Answer
<1>6. CASE page.name \in G!Names \ {"queue", "week", "incident"}
  BY <1>6 DEF G!Answer, G!Names
<1>7. QED BY <1>1, <1>3, <1>4, <1>5, <1>6

\* The last of the entries of a list that are about one thing.
LEMMA LastIs ==
    ASSUME NEW S, NEW s \in Seq(S), NEW N, N \subseteq DOMAIN s, N # {}
    PROVE  /\ (CHOOSE n \in N : \A k \in N : k <= n) \in N
           /\ \A k \in N : k <= (CHOOSE n \in N : \A k_1 \in N : k_1 <= n)
<1>1. N \subseteq 1..Len(s) /\ Len(s) \in Nat
  OBVIOUS
<1>2. \E n \in N : \A k \in N : k <= n
  BY <1>1, Greatest
<1>3. QED BY <1>2, Zenon

\* Of the reads of a page that answers, each is of a later store than those
\* before it, in which whoever did something has an account.
LEMMA AnsweredReads ==
    ASSUME PagesInv, page.at = "answered"
    PROVE  LET reads == G!Reads(page.name) IN
           /\ \A n \in 1..Len(reads) : Known(got[reads[n]]) /\ got[reads[n]] \in G!Store
           /\ \A m, n \in 1..Len(reads) : m < n => Grown(got[reads[m]], got[reads[n]])
<1>1. PICK done \in 0..Len(G!Reads(page.name)) : Gathered(done)
  BY DEF PagesInv
<1>2. QED BY <1>1 DEF Gathered, PagesInv, G!TypeOK

\* The page that answered is one of those of a name, read in their order.
LEMMA PagesActors ==
    ASSUME PagesInv
    PROVE  G!EveryActorIsNamed
<1> SUFFICES ASSUME page.at = "answered" PROVE G!EveryActorIsNamed
  BY DEF G!EveryActorIsNamed
<1> DEFINE accounts == got["accounts"].accounts
           answer == G!Answer(titles)
<1>1. \A a \in accounts : a \in People => G!NameOf(a) # "unknown"
  BY PagesAssumption DEF G!NameOf
<1>2. CASE page.name = "queue"
  <2>1. /\ Known(got["decisions"]) /\ got["decisions"] \in G!Store
        /\ Grown(got["decisions"], got["accounts"])
    <3>1. G!Reads(page.name) = <<"entries", "decisions", "accounts">>
      BY <1>2 DEF G!Reads
    <3>2. QED BY <3>1, AnsweredReads
  <2> DEFINE ds == got["decisions"].decisions
  <2>2. /\ ds \in Seq([row : corpus.review, by : People, noted : BOOLEAN])
        /\ \A n \in DOMAIN ds : ds[n].by \in accounts /\ ds[n].by \in People
    <3>1. /\ ds \in Seq([row : corpus.review, by : People, noted : BOOLEAN])
          /\ got["decisions"].accounts \subseteq People
      BY <2>1, StoreFields
    <3>2. \A n \in 1..Len(ds) : ds[n].by \in got["decisions"].accounts
      BY <2>1 DEF Known
    <3>3. got["decisions"].accounts \subseteq accounts
      BY <2>1 DEF Grown
    <3>4. QED BY <3>1, <3>2, <3>3
  <2>3. ASSUME NEW entry, NEW who PROVE G!DecisionDto(ds, entry, who).by # "unknown"
    <3> DEFINE of == {n \in DOMAIN ds : ds[n].row = entry}
               top == CHOOSE n \in of : \A k \in of : k <= n
    <3>1. CASE of = {}
      BY <3>1 DEF G!DecisionDto
    <3>2. CASE of # {}
      <4>1. top \in of
        <5>1. of \subseteq DOMAIN ds
          OBVIOUS
        <5> HIDE DEF of
        <5>2. QED BY <2>2, <3>2, <5>1, LastIs
      <4>2. G!DecisionDto(ds, entry, who).by = G!NameOf(ds[top].by)
        BY <3>2 DEF G!DecisionDto
      <4>3. QED BY <1>1, <2>2, <4>1, <4>2
    <3>3. QED BY <3>1, <3>2
  <2>4. \A n \in DOMAIN answer.decisions : \E entry : answer.decisions[n] = G!DecisionDto(ds, entry, page.who)
    BY <1>2 DEF G!Answer, G!ReviewQueue
  <2>5. QED BY <1>2, <2>3, <2>4 DEF G!EveryActorIsNamed
<1>3. CASE page.name = "week"
  <2>1. /\ Known(got["selections"]) /\ got["selections"] \in G!Store
        /\ Grown(got["selections"], got["accounts"])
    <3>1. G!Reads(page.name) = <<"week", "children", "incidents", "selections", "accounts">>
      BY <1>3 DEF G!Reads
    <3>2. QED BY <3>1, AnsweredReads
  <2> DEFINE ss == got["selections"].selections
             latest == G!ListLatestIssueSelections(ss)
  <2>2. /\ ss \in Seq([incident : DOMAIN corpus.members, state : {"selected", "unselected"},
                       by : People, noted : BOOLEAN])
        /\ \A n \in DOMAIN ss : ss[n].by \in accounts /\ ss[n].by \in People
    <3>1. /\ ss \in Seq([incident : DOMAIN corpus.members, state : {"selected", "unselected"},
                         by : People, noted : BOOLEAN])
          /\ got["selections"].accounts \subseteq People
      BY <2>1, StoreFields
    <3>2. \A n \in 1..Len(ss) : ss[n].by \in got["selections"].accounts
      BY <2>1 DEF Known
    <3>3. got["selections"].accounts \subseteq accounts
      BY <2>1 DEF Grown
    <3>4. QED BY <3>1, <3>2, <3>3
  <2>3. ASSUME NEW i \in DOMAIN latest PROVE \E n \in DOMAIN ss : latest[i] = ss[n]
    <3>1. latest[i] = ss[G!LatestOf(ss, i)] /\ G!Recorded(ss, i) # {} /\ G!Recorded(ss, i) \subseteq DOMAIN ss
      BY DEF G!ListLatestIssueSelections, G!Recorded
    <3>2. G!LatestOf(ss, i) \in G!Recorded(ss, i)
      BY <2>2, <3>1, LastIs DEF G!LatestOf
    <3>3. QED BY <3>1, <3>2
  <2>4. ASSUME NEW entry, NEW who PROVE G!WeekIncidentDto(entry, latest, who).by # "unknown"
    <3> HIDE DEF latest
    <3>1. CASE entry.incident \in DOMAIN latest
      <4>1. PICK n \in DOMAIN ss : latest[entry.incident] = ss[n]
        BY <2>3, <3>1
      <4>2. G!WeekIncidentDto(entry, latest, who).by = G!NameOf(ss[n].by)
        BY <3>1, <4>1 DEF G!WeekIncidentDto
      <4>3. QED BY <1>1, <2>2, <4>2
    <3>2. CASE entry.incident \notin DOMAIN latest
      BY <3>2 DEF G!WeekIncidentDto
    <3>3. QED BY <3>1, <3>2
  <2>5. \A n \in DOMAIN answer.rows : \E entry : answer.rows[n] = G!WeekIncidentDto(entry, latest, page.who)
    BY <1>3 DEF G!Answer, G!WeekTable
  <2>6. QED BY <1>3, <2>4, <2>5 DEF G!EveryActorIsNamed
<1>4. ASSUME page.name \in {"roundup", "article", "draft"}
      PROVE  "unknown" \notin G!ToSet(answer.revisions)
  <2>1. /\ Known(got["revisions"]) /\ got["revisions"] \in G!Store
        /\ Grown(got["revisions"], got["accounts"])
    <3>1. CASE page.name = "draft"
      <4>1. G!Reads(page.name) = <<"generated", "revisions", "accounts">>
        BY <3>1 DEF G!Reads
      <4>2. QED BY <4>1, AnsweredReads
    <3>2. CASE page.name \in {"roundup", "article"}
      <4>1. G!Reads(page.name) = <<"week", "revisions", "selected", "accounts", "publication">>
        BY <3>2 DEF G!Reads
      <4>2. QED BY <4>1, AnsweredReads
    <3>3. QED BY <1>4, <3>1, <3>2
  <2> DEFINE rs == got["revisions"].revisions[page.name]
  <2>2. rs \in Seq(People) /\ \A n \in DOMAIN rs : rs[n] \in accounts /\ rs[n] \in People
    <3>1. page.name \in G!Kinds
      BY <1>4 DEF G!Kinds
    <3>2. rs \in Seq(People)
      BY <2>1, <3>1, StoreFields
    <3>3. \A n \in 1..Len(rs) : rs[n] \in got["revisions"].accounts
      BY <2>1, <3>1 DEF Known
    <3>4. got["revisions"].accounts \subseteq accounts
      BY <2>1 DEF Grown
    <3>5. DOMAIN rs = 1..Len(rs)
      BY <3>2
    <3>6. ASSUME NEW n \in DOMAIN rs PROVE rs[n] \in accounts /\ rs[n] \in People
      <4>1. rs[n] \in accounts
        BY <3>3, <3>4, <3>5, <3>6
      <4>2. rs[n] \in People
        BY <3>2, <3>6
      <4>3. QED BY <4>1, <4>2
    <3>7. QED BY <3>2, <3>6
  <2>3. \A n \in DOMAIN G!RevisionDto(rs) : G!RevisionDto(rs)[n] # "unknown"
    BY <1>1, <2>2 DEF G!RevisionDto
  <2>4. answer.revisions = G!RevisionDto(rs)
    BY <1>4 DEF G!Answer, G!RoundupView, G!ArticleView, G!DraftView
  <2>5. QED BY <2>3, <2>4 DEF G!ToSet
<1>5. QED BY <1>2, <1>3, <1>4 DEF G!EveryActorIsNamed

\* The evidence page read what was decided before it read the decisions.
LEMMA PagesDecisions ==
    ASSUME PagesInv
    PROVE  G!DecisionsCover
<1> SUFFICES ASSUME page.at = "answered", page.name = "evidence" PROVE G!DecisionsCover
  BY DEF G!DecisionsCover
<1> DEFINE answer == G!Answer(titles)
           old == got["associations"].actions
           new == got["actions"].actions
<1>1. /\ got["associations"] \in G!Store /\ got["actions"] \in G!Store
      /\ Grown(got["associations"], got["actions"])
  <2>1. G!Reads(page.name) = <<"states", "associations", "actions">>
    BY DEF G!Reads
  <2>2. /\ G!Reads(page.name)[2] = "associations" /\ G!Reads(page.name)[3] = "actions"
        /\ 2 \in 1..Len(G!Reads(page.name)) /\ 3 \in 1..Len(G!Reads(page.name))
    BY <2>1
  <2>3. Grown(got[G!Reads(page.name)[2]], got[G!Reads(page.name)[3]])
    BY <2>2, AnsweredReads
  <2>4. got[G!Reads(page.name)[2]] \in G!Store /\ got[G!Reads(page.name)[3]] \in G!Store
    BY <2>2, AnsweredReads
  <2>5. QED BY <2>2, <2>3, <2>4
<1>2. /\ old \in Seq([association : corpus.associations, status : {"accepted", "rejected"}])
      /\ new \in Seq([association : corpus.associations, status : {"accepted", "rejected"}])
      /\ Len(old) <= Len(new) /\ \A n \in 1..Len(old) : old[n] = new[n]
  BY <1>1, StoreFields DEF Grown, Begins
<1>3. /\ answer.associations = G!ListAssociationDetails(old)
      /\ answer.decisions = [n \in DOMAIN new |-> new[n].association]
      /\ answer.revision = Len(new)
  BY DEF G!Answer, G!EvidenceView
<1> HIDE DEF answer
<1>4. ASSUME NEW a \in DOMAIN answer.associations, answer.associations[a].by # 0
      PROVE  /\ answer.associations[a].by <= answer.revision
             /\ answer.decisions[answer.associations[a].by] = a
  <2> DEFINE of == {n \in DOMAIN old : old[n].association = a}
             last_ == CHOOSE n \in of : \A k \in of : k <= n
  <2>1. answer.associations[a] = IF of = {} THEN [status |-> "suggested", by |-> 0]
                                 ELSE [status |-> old[last_].status, by |-> last_]
    BY <1>3, <1>4 DEF G!ListAssociationDetails
  <2>2. of # {} /\ answer.associations[a].by = last_
    <3>1. of # {}
      <4>1. CASE of = {}
        <5>1. answer.associations[a] = [status |-> "suggested", by |-> 0]
          BY <2>1, <4>1
        <5>2. QED BY <5>1, <1>4
      <4>2. QED BY <4>1
    <3> HIDE DEF of, last_
    <3>2. answer.associations[a] = [status |-> old[last_].status, by |-> last_]
      BY <2>1, <3>1
    <3>3. QED BY <3>1, <3>2
  <2>3. last_ \in of
    <3>1. of \subseteq DOMAIN old
      OBVIOUS
    <3> HIDE DEF of
    <3>2. QED BY <1>2, <2>2, <3>1, LastIs
  <2> HIDE DEF last_
  <2>4. last_ \in 1..Len(old) /\ old[last_].association = a
    BY <1>2, <2>3
  <2>5. last_ \in DOMAIN new /\ new[last_] = old[last_] /\ last_ <= Len(new)
    BY <1>2, <2>4
  <2>6. QED BY <1>3, <2>2, <2>4, <2>5
<1>5. QED BY <1>4 DEF G!DecisionsCover, answer

\* What is wanted of the latest selections, in the order of those.
LEMMA WantedIs ==
    ASSUME PagesInv,
           NEW ss \in Seq([incident : DOMAIN corpus.members, state : {"selected", "unselected"},
                           by : People, noted : BOOLEAN]),
           NEW W, W \subseteq DOMAIN G!ListLatestIssueSelections(ss)
    PROVE  G!ToSet(G!InOrderOf(W, [i \in W |-> G!LatestOf(ss, i)])) = W
<1> DEFINE key == [i \in W |-> G!LatestOf(ss, i)]
<1>1. ASSUME NEW i \in W PROVE key[i] \in DOMAIN ss /\ ss[key[i]].incident = i
  <2>1. G!Recorded(ss, i) # {} /\ G!Recorded(ss, i) \subseteq DOMAIN ss
    BY DEF G!ListLatestIssueSelections, G!Recorded
  <2>2. G!LatestOf(ss, i) \in G!Recorded(ss, i)
    BY <2>1, LastIs DEF G!LatestOf
  <2>3. QED BY <2>2 DEF G!Recorded
<1>2. IsFiniteSet(W)
  <2>1. W \subseteq DOMAIN corpus.members
    <3>1. DOMAIN G!ListLatestIssueSelections(ss) = {ss[n].incident : n \in DOMAIN ss}
      BY DEF G!ListLatestIssueSelections
    <3> DEFINE D == [incident : DOMAIN corpus.members, state : {"selected", "unselected"},
                     by : People, noted : BOOLEAN]
    <3>2. \A n \in DOMAIN ss : ss[n] \in D
      <4>1. ss \in Seq(D)
        OBVIOUS
      <4> HIDE DEF D
      <4>2. QED BY <4>1
    <3>3. QED BY <3>1, <3>2
  <2>2. IsFiniteSet(DOMAIN corpus.members)
    BY PagesAssumption DEF PagesInv, G!TypeOK
  <2>3. QED BY <2>1, <2>2, FS_Subset
<1> HIDE DEF key
<1>3. (\A i \in W : key[i] \in Int) /\ \A i, j \in W : key[i] = key[j] => i = j
  BY <1>1
<1>4. QED BY <1>2, <1>3, OrderedIs DEF key

\* The three lists of a round-up are of selections read one after the other.
LEMMA PagesCarried ==
    ASSUME PagesInv
    PROVE  G!CarriedOnce
<1> SUFFICES ASSUME page.at = "answered", page.name = "generation",
                    NEW i \in DOMAIN corpus.members,
                    G!Carried(i, corpus.weeks[corpus.week]),
                    G!Recorded(got["selected"].selections, i) = G!Recorded(got["carried"].selections, i)
             PROVE  \E l \in {"selected", "omitted", "carried"} :
                        \A m \in {"selected", "omitted", "carried"} : i \in G!GenerationInput[m] <=> m = l
  BY DEF G!CarriedOnce
<1> DEFINE se == got["selected"].selections
           om == got["omitted"].selections
           ca == got["carried"].selections
           D == [incident : DOMAIN corpus.members, state : {"selected", "unselected"},
                 by : People, noted : BOOLEAN]
           Top(ss) == G!ListLatestIssueSelections(ss)
           sel == {x \in DOMAIN Top(se) : Top(se)[x].state = "selected"}
           omi == {x \in DOMAIN Top(om) : Top(om)[x].state = "unselected" /\ Top(om)[x].noted}
<1>1. /\ se \in Seq(D) /\ om \in Seq(D) /\ ca \in Seq(D)
      /\ Begins(se, om) /\ Begins(om, ca)
  <2>1. G!Reads(page.name) = <<"selected", "omitted", "carried">>
    BY DEF G!Reads
  <2>2. /\ got["selected"] \in G!Store /\ got["omitted"] \in G!Store /\ got["carried"] \in G!Store
        /\ Grown(got["selected"], got["omitted"]) /\ Grown(got["omitted"], got["carried"])
    <3> DEFINE r == G!Reads(page.name)
    <3>1. /\ r[1] = "selected" /\ r[2] = "omitted" /\ r[3] = "carried"
          /\ 1 \in 1..Len(r) /\ 2 \in 1..Len(r) /\ 3 \in 1..Len(r)
      BY <2>1
    <3>2. Grown(got[r[1]], got[r[2]]) /\ Grown(got[r[2]], got[r[3]])
      BY <3>1, AnsweredReads
    <3>3. got[r[1]] \in G!Store /\ got[r[2]] \in G!Store /\ got[r[3]] \in G!Store
      BY <3>1, AnsweredReads
    <3> HIDE DEF r
    <3>4. QED BY <3>1, <3>2, <3>3
  <2>3. QED BY <2>2, StoreFields DEF Grown
<1>2. /\ i \in G!GenerationInput["selected"] <=> i \in sel
      /\ i \in G!GenerationInput["omitted"] <=> i \in omi
      /\ i \in G!GenerationInput["carried"] <=>
            (i \in DOMAIN Top(ca) => Top(ca)[i].state # "selected" /\ ~Top(ca)[i].noted)
  <2>1. G!ToSet(G!ListSelected(se)) = sel
    <3>1. sel \subseteq DOMAIN Top(se)
      OBVIOUS
    <3>2. G!ListSelected(se) = G!InOrderOf(sel, [x \in sel |-> G!LatestOf(se, x)])
      BY Zenon DEF G!ListSelected
    <3> HIDE DEF sel
    <3>3. QED BY <1>1, <3>1, <3>2, WantedIs
  <2>2. G!ToSet(G!ListOmittedIncidents(om)) = omi
    <3>1. omi \subseteq DOMAIN Top(om)
      OBVIOUS
    <3>2. G!ListOmittedIncidents(om) = G!InOrderOf(omi, [x \in omi |-> G!LatestOf(om, x)])
      BY Zenon DEF G!ListOmittedIncidents
    <3> HIDE DEF omi
    <3>3. QED BY <1>1, <3>1, <3>2, WantedIs
  <2>3. i \in G!ListCarriedIncidents(ca, corpus.weeks[corpus.week]) <=>
            (i \in DOMAIN Top(ca) => Top(ca)[i].state # "selected" /\ ~Top(ca)[i].noted)
    BY DEF G!ListCarriedIncidents
  <2>4. /\ G!GenerationInput["selected"] = G!ToSet(G!ListSelected(se))
        /\ G!GenerationInput["omitted"] = G!ToSet(G!ListOmittedIncidents(om))
        /\ G!GenerationInput["carried"] = G!ListCarriedIncidents(ca, corpus.weeks[corpus.week])
    BY DEF G!GenerationInput
  <2> HIDE DEF sel, omi, Top
  <2>5. QED BY <2>1, <2>2, <2>3, <2>4
<1>3. G!Recorded(se, i) = G!Recorded(om, i) /\ G!Recorded(om, i) = G!Recorded(ca, i)
  <2>1. G!Recorded(se, i) \subseteq G!Recorded(om, i)
    <3> HIDE DEF se, om, D
    <3>1. QED BY <1>1 DEF G!Recorded, Begins
  <2>2. G!Recorded(om, i) \subseteq G!Recorded(ca, i)
    <3> HIDE DEF om, ca, D
    <3>1. QED BY <1>1 DEF G!Recorded, Begins
  <2>3. QED BY <2>1, <2>2
<1>4. \A ss \in {se, om, ca} :
        /\ i \in DOMAIN Top(ss) <=> G!Recorded(ss, i) # {}
        /\ i \in DOMAIN Top(ss) => Top(ss)[i] = ss[G!LatestOf(ss, i)]
  BY DEF G!ListLatestIssueSelections, G!Recorded
<1> HIDE DEF Top
<1>5. CASE G!Recorded(se, i) = {}
  <2>1. i \notin sel /\ i \notin omi /\ i \notin DOMAIN Top(ca)
    BY <1>3, <1>4, <1>5
  <2> HIDE DEF sel, omi
  <2>2. QED BY <1>2, <2>1
<1>6. CASE G!Recorded(se, i) # {}
  <2>1. PICK l : l = G!LatestOf(se, i)
    OBVIOUS
  <2>2. l = G!LatestOf(om, i) /\ l = G!LatestOf(ca, i)
    BY <1>3, <2>1 DEF G!LatestOf
  <2>3. l \in G!Recorded(se, i)
    <3>1. G!Recorded(se, i) \subseteq DOMAIN se
      BY DEF G!Recorded
    <3>2. QED BY <1>1, <1>6, <2>1, <3>1, LastIs DEF G!LatestOf
  <2>4. l \in 1..Len(se) /\ se[l] \in D
    <3> HIDE DEF D, se
    <3>1. QED BY <1>1, <2>3 DEF G!Recorded
  <2>5. se[l] = om[l] /\ om[l] = ca[l]
    <3> HIDE DEF se, om, ca, D
    <3>1. Len(se) \in Nat /\ Len(om) \in Nat
      BY <1>1
    <3>2. QED BY <1>1, <2>4, <3>1 DEF Begins
  <2>6. /\ i \in DOMAIN Top(se) /\ Top(se)[i] = se[l] /\ i \in DOMAIN Top(om) /\ Top(om)[i] = se[l]
        /\ i \in DOMAIN Top(ca) /\ Top(ca)[i] = se[l]
    <3>1. G!Recorded(om, i) # {} /\ G!Recorded(ca, i) # {}
      BY <1>3, <1>6
    <3>2. QED BY <1>4, <1>6, <2>1, <2>2, <2>5, <3>1
  <2>7. se[l].state \in {"selected", "unselected"} /\ se[l].noted \in BOOLEAN
    BY <2>4
  <2>8. /\ i \in sel <=> se[l].state = "selected"
        /\ i \in omi <=> se[l].state = "unselected" /\ se[l].noted
    BY <2>6
  <2> HIDE DEF sel, omi, se
  <2>9. /\ i \in G!GenerationInput["selected"] <=> se[l].state = "selected"
        /\ i \in G!GenerationInput["omitted"] <=> se[l].state = "unselected" /\ se[l].noted
        /\ i \in G!GenerationInput["carried"] <=> se[l].state # "selected" /\ ~se[l].noted
    BY <1>2, <2>6, <2>8
  <2>10. CASE se[l].state = "selected"
    BY <2>9, <2>10
  <2>11. CASE se[l].state = "unselected" /\ se[l].noted
    BY <2>9, <2>11
  <2>12. CASE se[l].state = "unselected" /\ ~se[l].noted
    BY <2>9, <2>12
  <2>13. QED BY <2>7, <2>10, <2>11, <2>12
<1>7. QED BY <1>5, <1>6
-----------------------------------------------------------------------------
(* The pages: the queue and the weeks. *)

\* A page of the queue is the rows from one id on, in their order.
LEMMA PagesQueue ==
    ASSUME PagesInv
    PROVE  G!QueueIsWhole
<1> SUFFICES ASSUME NEW after \in corpus.review \cup {0}
             PROVE  LET rows == G!KeysetPage(corpus.review, after, QueuePage)
                        next == G!NextAfter(rows, QueuePage)
                    IN  /\ G!ToSet(rows) = {i \in corpus.review : i > after /\ (next # 0 => i <= next)}
                        /\ \A m, n \in DOMAIN rows : m < n => rows[m] < rows[n]
                        /\ next # 0 => next > after
  BY DEF G!QueueIsWhole
<1> DEFINE T == {i \in corpus.review : i > after}
           key == [i \in T |-> i]
           o == G!InOrder(T)
           rows == G!KeysetPage(corpus.review, after, QueuePage)
           next == G!NextAfter(rows, QueuePage)
           l == IF Len(o) < QueuePage THEN Len(o) ELSE QueuePage
<1>1. corpus.review \subseteq Nat \ {0} /\ IsFiniteSet(corpus.review) /\ QueuePage \in Nat \ {0} /\ after \in Nat
  BY PagesAssumption DEF PagesInv, G!TypeOK
<1>2. /\ o \in Seq(T) /\ \A x \in T : \E n \in 1..Len(o) : o[n] = x
      /\ \A m, n \in 1..Len(o) : m < n => o[m] < o[n]
  <2>1. IsFiniteSet(T)
    BY <1>1, FS_Subset
  <2>2. (\A x \in T : key[x] = x /\ key[x] \in Int) /\ \A x, y \in T : key[x] = key[y] => x = y
    BY <1>1
  <2>3. o = G!InOrderOf(T, key)
    BY DEF G!InOrder
  <2> HIDE DEF T, key, o
  <2>4. Sorts(o, T, key) /\ o \in Seq(T)
    BY <2>1, <2>2, <2>3, OrderedIs
  <2>5. o \in [1..Cardinality(T) -> T]
    BY <2>4 DEF Sorts
  <2>6. 1..Len(o) = 1..Cardinality(T)
    BY <2>4, <2>5
  <2>7. \A n \in 1..Len(o) : o[n] \in T
    BY <2>4
  <2>8. ASSUME NEW m \in 1..Len(o), NEW n \in 1..Len(o), m < n PROVE o[m] < o[n]
    <3>1. key[o[m]] < key[o[n]]
      BY <2>4, <2>6, <2>8 DEF Sorts
    <3>2. key[o[m]] = o[m] /\ key[o[n]] = o[n]
      BY <2>2, <2>7
    <3>3. QED BY <3>1, <3>2
  <2>9. \A x \in T : \E n \in 1..Len(o) : o[n] = x
    BY <2>4, <2>6 DEF Sorts
  <2>10. QED BY <2>4, <2>8, <2>9
<1>3. \A n \in 1..Len(o) : o[n] \in T
  <2> HIDE DEF T, o
  <2>1. QED BY <1>2
<1>4. Len(o) \in Nat /\ l \in 0..Len(o) /\ l <= QueuePage /\ (l < QueuePage => l = Len(o))
  <2> HIDE DEF T, o
  <2>1. QED BY <1>1, <1>2
<1>5. rows = SubSeq(o, 1, l)
  BY DEF G!KeysetPage, G!Prefix
<1> HIDE DEF l
<1>6. Len(rows) = l /\ DOMAIN rows = 1..l /\ \A n \in 1..l : rows[n] = o[n]
  <2> HIDE DEF T, o, rows
  <2>1. QED BY <1>2, <1>4, <1>5
<1>7. \A m, n \in DOMAIN rows : m < n => rows[m] < rows[n]
  <2> HIDE DEF T, o, rows
  <2>1. \A n \in 1..l : n \in 1..Len(o)
    BY <1>4
  <2>2. QED BY <1>2, <1>6, <2>1
<1>8. CASE l = QueuePage
  <2>1. next = o[l] /\ l \in 1..Len(o) /\ o[l] \in T
    <3>1. next = G!Last(rows)
      BY <1>6, <1>8 DEF G!NextAfter
    <3>2. G!Last(rows) = rows[l]
      BY <1>6 DEF G!Last
    <3>3. l \in 1..l /\ l \in 1..Len(o)
      BY <1>1, <1>4, <1>8
    <3> HIDE DEF rows, o, T, next
    <3>4. QED BY <1>3, <1>6, <3>1, <3>2, <3>3
  <2>2. next \in Nat /\ next > after /\ next # 0
    BY <1>1, <2>1
  <2>3. ASSUME NEW i \in T PROVE i \in G!ToSet(rows) <=> i <= o[l]
    <3>1. PICK n \in 1..Len(o) : o[n] = i
      BY <1>2
    <3>2. i \in Nat /\ o[l] \in Nat
      BY <1>1, <2>1
    <3> HIDE DEF T, o, rows
    <3>3. CASE n <= l
      <4>1. n \in 1..l /\ rows[n] = i
        BY <1>4, <1>6, <3>1, <3>3
      <4>2. i \in G!ToSet(rows)
        BY <1>6, <4>1 DEF G!ToSet
      <4>3. n = l \/ o[n] < o[l]
        BY <1>2, <1>4, <2>1, <3>3
      <4>4. QED BY <3>1, <3>2, <4>2, <4>3
    <3>4. CASE n > l
      <4>1. o[l] < i
        BY <1>2, <2>1, <3>1, <3>4
      <4>2. \A m \in 1..l : rows[m] # i
        <5>1. ASSUME NEW m \in 1..l PROVE rows[m] < i
          <6>1. m \in 1..Len(o) /\ m < n
            BY <1>4, <3>1, <3>4
          <6>2. QED BY <1>2, <1>6, <3>1, <6>1
        <5>2. QED BY <3>2, <5>1
      <4>3. i \notin G!ToSet(rows)
        BY <1>6, <4>2 DEF G!ToSet
      <4>4. QED BY <3>2, <4>1, <4>3
    <3>5. QED BY <1>4, <3>3, <3>4
  <2>4. G!ToSet(rows) \subseteq T
    <3>1. \A n \in 1..l : n \in 1..Len(o)
      BY <1>4
    <3> HIDE DEF T, o, rows
    <3>2. QED BY <1>3, <1>6, <3>1 DEF G!ToSet
  <2>5. G!ToSet(rows) = {i \in corpus.review : i > after /\ (next # 0 => i <= next)}
    <3> HIDE DEF o, rows, next
    <3>1. QED BY <2>1, <2>2, <2>3, <2>4
  <2>6. QED BY Zenon, <1>7, <2>2, <2>5
<1>9. CASE l # QueuePage
  <2>1. next = 0
    BY <1>6, <1>9 DEF G!NextAfter
  <2>2. l = Len(o)
    BY <1>1, <1>4, <1>9
  <2>3. G!ToSet(rows) = T
    <3> HIDE DEF T, o, rows
    <3>1. QED BY <1>2, <1>3, <1>6, <2>2 DEF G!ToSet
  <2>4. G!ToSet(rows) = {i \in corpus.review : i > after /\ (next # 0 => i <= next)}
    <3> HIDE DEF rows, next
    <3>1. QED BY <2>1, <2>3
  <2>5. QED BY Zenon, <1>7, <2>1, <2>4
<1>10. QED BY <1>8, <1>9

\* Of weeks that follow one another, what was posted by the end of one and seen
\* in one was posted in one or seen late in it, and in no other.
Follow(k, start, end) ==
    /\ start \in [1..k -> Int] /\ end \in [1..k -> Int]
    /\ \A n \in 1..k : start[n] < end[n]
    /\ \A n \in 1..k : n > 1 => start[n] = end[n - 1]
    /\ \A m, n \in 1..k : m < n => end[m] <= start[n]

Placed(k, start, end, p, q) ==
    \E x \in 1..k : \A n \in 1..k :
        n = x <=> \/ p > start[n] /\ p <= end[n] /\ q <= end[n]
                  \/ p <= start[n] /\ q > start[n] /\ q <= end[n]

LEMMA OneWeek ==
    ASSUME NEW k \in Nat, NEW start, NEW end, Follow(k, start, end),
           NEW p \in Int, NEW q \in Int,
           \E s \in 1..k : q > start[s] /\ q <= end[s],
           \E b \in 1..k : p <= end[b]
    PROVE  Placed(k, start, end, p, q)
<1> USE DEF Follow
<1>s. PICK s \in 1..k : q > start[s] /\ q <= end[s]
  OBVIOUS
<1>b. PICK b \in 1..k : p <= end[b]
  OBVIOUS
<1>i. \A n \in 1..k : start[n] \in Int /\ end[n] \in Int
  OBVIOUS
<1>1. PICK t \in 1..k : p <= end[t] /\ \A n \in 1..k : p <= end[n] => t <= n
  <2> DEFINE N == {n \in 1..k : p <= end[n]}
  <2>1. N \subseteq Nat /\ b \in N
    BY <1>s, <1>b, <1>i
  <2>2. PICK t \in N : \A n \in N : t <= n
    <3> HIDE DEF N
    <3>1. QED BY <1>s, <1>b, <1>i, <2>1, Least
  <2>3. QED BY <2>2
<1>2. t = 1 \/ p > start[t]
  <2>1. CASE t > 1
    <3>1. t - 1 \in 1..k /\ ~(t <= t - 1)
      BY <1>s, <1>b, <1>i, <2>1
    <3>2. ~(p <= end[t - 1]) /\ start[t] = end[t - 1]
      BY <1>s, <1>b, <1>i, <1>1, <2>1, <3>1
    <3>3. start[t] \in Int /\ p > end[t - 1]
      BY <1>i, <3>1, <3>2
    <3>4. QED BY <3>2, <3>3
  <2>2. QED BY <1>s, <1>b, <1>i, <2>1
<1>3. CASE p <= start[s]
  <2>1. ASSUME NEW n \in 1..k
        PROVE  n = s <=> \/ p > start[n] /\ p <= end[n] /\ q <= end[n]
                         \/ p <= start[n] /\ q > start[n] /\ q <= end[n]
    <3>1. CASE n < s
      <4>1. end[n] <= start[s]
        BY <1>s, <1>b, <1>i, <3>1
      <4>2. QED BY <1>s, <1>b, <1>i, <3>1, <4>1
    <3>2. CASE n = s
      BY <1>s, <1>b, <1>i, <1>3, <3>2
    <3>3. CASE n > s
      <4>1. end[s] <= start[n] /\ start[s] < end[s]
        BY <1>s, <1>b, <1>i, <3>3
      <4>2. QED BY <1>s, <1>b, <1>i, <1>3, <3>3, <4>1
    <3>4. QED BY <1>s, <1>b, <1>i, <3>1, <3>2, <3>3
  <2>2. QED BY <2>1 DEF Placed
<1>4. CASE p > start[s]
  <2>1. s <= t
    <3>1. CASE t < s
      <4>1. end[t] <= start[s]
        BY <1>s, <1>b, <1>i, <3>1
      <4>2. QED BY <1>s, <1>b, <1>i, <1>1, <1>4, <4>1
    <3>2. QED BY <1>s, <1>b, <1>i, <3>1
  <2>2. p > start[t]
    BY <1>s, <1>b, <1>i, <1>2, <1>4, <2>1
  <2>3. q <= end[t]
    <3>1. CASE s < t
      <4>1. end[s] <= start[t] /\ start[t] < end[t]
        BY <1>s, <1>b, <1>i, <3>1
      <4>2. QED BY <1>s, <1>b, <1>i, <4>1
    <3>2. QED BY <1>s, <1>b, <1>i, <2>1, <3>1
  <2>4. ASSUME NEW n \in 1..k
        PROVE  n = t <=> \/ p > start[n] /\ p <= end[n] /\ q <= end[n]
                         \/ p <= start[n] /\ q > start[n] /\ q <= end[n]
    <3>1. CASE n = t
      BY <1>s, <1>b, <1>i, <1>1, <2>2, <2>3, <3>1
    <3>2. n # t => ~(p > start[n] /\ p <= end[n])
      <4>1. CASE n < t
        <5>1. ~(p <= end[n])
          BY <1>s, <1>b, <1>i, <1>1, <4>1
        <5>2. QED BY <1>s, <1>b, <1>i, <5>1
      <4>2. CASE n > t
        <5>1. end[t] <= start[n]
          BY <1>s, <1>b, <1>i, <4>2
        <5>2. p <= end[t] /\ end[t] \in Int /\ start[n] \in Int
          BY <1>i, <1>1
        <5>3. QED BY <5>1, <5>2
      <4>3. QED BY <1>s, <1>b, <1>i, <4>1, <4>2
    <3>3. ~(p <= start[n] /\ q > start[n] /\ q <= end[n])
      <4>1. CASE n < s
        <5>1. end[n] <= start[s]
          BY <1>s, <1>b, <1>i, <4>1
        <5>2. QED BY <1>s, <1>b, <1>i, <5>1
      <4>2. CASE n = s
        BY <1>s, <1>b, <1>i, <1>4, <4>2
      <4>3. CASE n > s
        <5>1. end[s] <= start[n]
          BY <1>s, <1>b, <1>i, <4>3
        <5>2. QED BY <1>s, <1>b, <1>i, <5>1
      <4>4. QED BY <1>s, <1>b, <1>i, <4>1, <4>2, <4>3
    <3>4. QED BY <1>s, <1>b, <1>i, <3>1, <3>2, <3>3
  <2>5. QED BY <2>4 DEF Placed
<1>5. QED BY <1>s, <1>i, <1>3, <1>4 DEF Placed

\* The weeks follow one another, so a row has its place in one.
LEMMA PagesWeeks ==
    ASSUME PagesInv
    PROVE  G!EachRowInOneWeek
<1> DEFINE W == corpus.weeks
           owns(entry, week) == G!PostedIn(entry, week) \/ G!SeenLateIn(entry, week)
           weeks == G!ToSet(W)
<1>1. /\ W \in Seq([start : Int, end : Int])
      /\ \A n \in DOMAIN W : W[n].start < W[n].end
      /\ \A n \in DOMAIN W : n > 1 => W[n].start = W[n - 1].end
      /\ \A m, n \in DOMAIN W : m < n => W[m].end <= W[n].start
      /\ \A r \in corpus.dated : corpus.posted[r] \in Int /\ corpus.seen[r] \in Int
  BY PagesAssumption DEF PagesInv, G!TypeOK
<1>2. PICK k \in Nat : DOMAIN W = 1..k
  BY <1>1
<1> DEFINE start == [n \in 1..k |-> W[n].start]
           end == [n \in 1..k |-> W[n].end]
<1>3. start \in [1..k -> Int] /\ end \in [1..k -> Int]
  <2> DEFINE D == [start : Int, end : Int]
  <2>1. \A n \in DOMAIN W : W[n] \in D
    <3>1. W \in Seq(D)
      BY <1>1
    <3> HIDE DEF D, W
    <3>2. QED BY <3>1
  <2>2. \A n \in 1..k : W[n].start \in Int /\ W[n].end \in Int
    BY <1>2, <2>1
  <2>3. QED BY <2>2
<1>4. /\ \A n \in 1..k : start[n] < end[n]
      /\ \A n \in 1..k : n > 1 => start[n] = end[n - 1]
      /\ \A m, n \in 1..k : m < n => end[m] <= start[n]
  <2>1. \A n \in 1..k : n > 1 => n - 1 \in 1..k
    OBVIOUS
  <2>2. QED BY <1>1, <1>2, <2>1
<1>5. G!ToSet(W) = {W[n] : n \in 1..k}
  BY <1>2 DEF G!ToSet
<1>6. ASSUME NEW entry \in corpus.dated,
             \E w \in weeks : corpus.seen[entry] > w.start /\ corpus.seen[entry] <= w.end,
             \E w \in weeks : corpus.posted[entry] <= w.end
      PROVE  \E w \in weeks : {v \in weeks : owns(entry, v)} = {w}
  <2>1. corpus.posted[entry] \in Int /\ corpus.seen[entry] \in Int
    BY <1>1
  <2>2. PICK s \in 1..k : corpus.seen[entry] > start[s] /\ corpus.seen[entry] <= end[s]
    BY <1>5, <1>6
  <2>3. PICK b \in 1..k : corpus.posted[entry] <= end[b]
    BY <1>5, <1>6
  <2>4. PICK p \in Int, q \in Int : p = corpus.posted[entry] /\ q = corpus.seen[entry]
    BY <2>1
  <2>5. PICK x \in 1..k : \A n \in 1..k :
                n = x <=> \/ p > start[n] /\ p <= end[n] /\ q <= end[n]
                          \/ p <= start[n] /\ q > start[n] /\ q <= end[n]
    <3> HIDE DEF start, end
    <3>1. (\E c \in 1..k : q > start[c] /\ q <= end[c]) /\ \E c \in 1..k : p <= end[c]
      BY <2>2, <2>3, <2>4
    <3>2. Follow(k, start, end)
      BY <1>3, <1>4 DEF Follow
    <3>3. Placed(k, start, end, p, q)
      BY <3>1, <3>2, OneWeek
    <3>4. QED BY <3>3 DEF Placed
  <2>6. \A n \in 1..k : owns(entry, W[n]) <=> n = x
    BY <2>4, <2>5 DEF G!PostedIn, G!SeenLateIn
  <2> HIDE DEF owns, W
  <2>7. W[x] \in weeks /\ {v \in weeks : owns(entry, v)} = {W[x]}
    BY <1>5, <2>6
  <2>8. QED BY <2>7
<1>7. ASSUME NEW i \in DOMAIN corpus.members, NEW w \in weeks
      PROVE  /\ (G!InWindow(i, w) \/ G!Carried(i, w)) <=> \E r \in corpus.members[i] : owns(r, w)
             /\ ~(G!InWindow(i, w) /\ G!Carried(i, w))
  BY DEF G!InWindow, G!Carried
<1>8. QED BY <1>6, <1>7 DEF G!EachRowInOneWeek

\* What a page shows of titles, names, decisions, rows and incidents, in every
\* state of the sign-up, publication, limits and pages side by side (read.ts).
THEOREM PagesKept == MCSpec => []PagesSound
<1>1. MCInit => PagesInv
  BY PagesInit DEF MCInit
<1>2. PagesInv /\ [MCNext]_<<part, vars, pubVars, limVars, pageVars>> => PagesInv'
  <2> SUFFICES ASSUME PagesInv, [MCNext]_<<part, vars, pubVars, limVars, pageVars>> PROVE PagesInv'
    OBVIOUS
  <2>1. CASE UNCHANGED pageVars
    BY <2>1, PagesStay
  <2>2. CASE G!Next
    BY <2>2, PagesStep
  <2>3. QED BY <2>1, <2>2 DEF MCNext
<1>3. PagesInv => PagesSound
  BY PagesTitles, PagesActors, PagesDecisions, PagesCarried, PagesQueue, PagesWeeks
     DEF PagesInv, PagesSound
<1>4. QED BY <1>1, <1>2, <1>3, PTL DEF MCSpec
=============================================================================
