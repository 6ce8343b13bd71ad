--------------------------- MODULE PipelineProofs ---------------------------
(***************************************************************************)
(* Generation for every number of outputs, requests, editors and months,   *)
(* every cap and every set of estimates; and the editorial week for every  *)
(* number of workers, batches and weeks and all lists of categories.  The  *)
(* ingestion of signals, the reading of the sources and the registry of    *)
(* the categories for all that is submitted, answered and registered.      *)
(***************************************************************************)
EXTENDS MCPipeline, FiniteSetTheorems, SequenceTheorems, TLAPS

\* A request past the claim holds the lock, and nobody else does.
LockInv == \A r \in Requests : req[r].pc \in Holding <=> lock = r

\* A request names its output; it has cost nothing before its call, and never
\* more than its estimate.
RequestInv ==
    \A r \in Requests :
        /\ req[r].pc # "idle" => req[r].output \in Outputs
        /\ req[r].pc \in {"idle", "claim", "check", "cap"} => req[r].cost = 0 /\ ~req[r].ok
        /\ req[r].pc \in {"call", "wait", "billed"} => ~req[r].ok
        /\ req[r].cost <= req[r].worst

\* From the check of the cap to the ledger row, the month that was read still
\* has room for the estimate, and so has every month after it.
RoomInv ==
    \A r \in Requests : req[r].pc \in {"call", "wait", "billed", "ledger"} =>
        /\ req[r].month <= month
        /\ \A m \in Months : m >= req[r].month => spent[m] + req[r].worst <= Cap

\* Nothing is spent in a month that has not begun.
FutureInv == \A m \in Months : m > month => spent[m] = 0

\* The revisions and the request about to write them have their paid call.
PaidInv ==
    /\ RevisionsOnLedger
    /\ \A r \in Requests : req[r].pc = "persist" => kept[req[r].output] > 0

\* A page is of a generated output; its submission passed the limit.
PageInv ==
    \A e \in Editors :
        /\ edit[e].pc # "idle" => edit[e].output \in Outputs /\ rev[edit[e].output] # <<>>
        /\ edit[e].pc = "insert" => edit[e].base < MaxRevisions

IInv == LockInv /\ RequestInv /\ RoomInv /\ FutureInv /\ LedgerWithinCap /\ PaidInv /\ PageInv

Inv == TypeOK /\ IInv

-----------------------------------------------------------------------------
LEMMA RowTypes ==
    ASSUME TypeOK, NEW r \in Requests
    PROVE  /\ req[r].pc \in {"idle", "claim"} \cup Holding
           /\ req[r].output \in Outputs \cup {NoOne}
           /\ req[r].month \in Months /\ req[r].month \in Nat
           /\ req[r].worst \in Nat /\ req[r].cost \in Nat
           /\ req[r].tries \in 0..Retries /\ req[r].ok \in BOOLEAN
BY GenerationAssumption DEF TypeOK, RequestRow

LEMMA InitInv == Init => Inv
<1> SUFFICES ASSUME Init PROVE Inv
  OBVIOUS
<1>1. TypeOK
  BY GenerationAssumption
     DEF Init, TypeOK, Idle, NoPage, PageRow, RequestRow, Revision, Holding
<1>2. LockInv /\ RequestInv /\ RoomInv /\ FutureInv
  BY GenerationAssumption
     DEF Init, Idle, Holding, LockInv, RequestInv, RoomInv, FutureInv
<1>3. LedgerWithinCap /\ PaidInv /\ PageInv
  BY GenerationAssumption
     DEF Init, Idle, NoPage, LedgerWithinCap, PaidInv, RevisionsOnLedger, PageInv
<1>4. QED BY <1>1, <1>2, <1>3 DEF Inv, IInv

-----------------------------------------------------------------------------
(* A step of a request that writes no table. *)

\* The request's own row alone changes, to one that keeps its conjuncts.
LEMMA RequestStep ==
    ASSUME Inv, NEW r \in Requests, NEW row \in RequestRow,
           req' = [req EXCEPT ![r] = row],
           UNCHANGED <<month, rev, spent, kept, edit>>, billed' \in [Months -> Nat],
           \/ row.pc \in Holding /\ lock' = r /\ (lock = r \/ lock = NoOne)
           \/ row.pc \notin Holding /\ req[r].pc \in Holding /\ lock' = NoOne
           \/ row.pc \notin Holding /\ req[r].pc \notin Holding /\ lock' = lock,
           row.pc # "idle" => row.output \in Outputs,
           row.pc \in {"idle", "claim", "check", "cap"} => row.cost = 0 /\ ~row.ok,
           row.pc \in {"call", "wait", "billed"} => ~row.ok,
           row.cost <= row.worst,
           row.pc \in {"call", "wait", "billed", "ledger"} =>
              /\ row.month <= month
              /\ \A m \in Months : m >= row.month => spent[m] + row.worst <= Cap,
           row.pc # "persist"
    PROVE  Inv'
<1>1. \A s \in Requests : req'[s] = IF s = r THEN row ELSE req[s]
  BY DEF Inv, TypeOK
<1>2. TypeOK'
  <2>1. req' \in [Requests -> RequestRow]
    BY DEF Inv, TypeOK
  <2>2. lock' \in Requests \cup {NoOne}
    BY DEF Inv, TypeOK
  <2>3. QED BY <2>1, <2>2 DEF Inv, TypeOK
<1>3. LockInv'
  <2>1. \A s \in Requests : req[s].pc \in Holding <=> lock = s
    BY DEF Inv, IInv, LockInv
  <2>2. r # NoOne
    BY GenerationAssumption
  <2>3. QED BY <1>1, <2>1, <2>2, GenerationAssumption DEF LockInv
<1>4. RequestInv'
  BY <1>1 DEF Inv, IInv, RequestInv
<1>5. RoomInv'
  BY <1>1 DEF Inv, IInv, RoomInv
<1>6. FutureInv' /\ LedgerWithinCap' /\ PageInv'
  BY DEF Inv, IInv, FutureInv, LedgerWithinCap, PageInv
<1>7. PaidInv'
  BY <1>1 DEF Inv, IInv, PaidInv, RevisionsOnLedger
<1>8. QED BY <1>2, <1>3, <1>4, <1>5, <1>6, <1>7 DEF Inv, IInv

\* What an exit under the lock leaves.
LEMMA ReleaseInv ==
    ASSUME Inv, NEW r \in Requests, Release(r), req[r].pc \in Holding,
           UNCHANGED <<month, rev, spent, kept, edit, billed>>
    PROVE  Inv'
<1>1. Idle \in RequestRow
  BY GenerationAssumption DEF Idle, RequestRow
<1>2. Idle.pc \notin Holding
  BY DEF Idle, Holding
<1>3. /\ Idle.pc = "idle" /\ Idle.cost = 0 /\ Idle.worst = 0 /\ ~Idle.ok
  BY DEF Idle
<1>4. req' = [req EXCEPT ![r] = Idle] /\ lock' = NoOne /\ billed' \in [Months -> Nat]
  BY DEF Release, Inv, TypeOK
<1>5. /\ Idle.pc # "persist"
      /\ Idle.pc \notin {"call", "wait", "billed"}
      /\ Idle.pc \notin {"call", "wait", "billed", "ledger"}
      /\ Idle.cost <= Idle.worst
  BY <1>3
<1>6. QED BY <1>1, <1>2, <1>3, <1>4, <1>5, RequestStep

LEMMA BeginInv ==
    ASSUME Inv, NEW r \in Requests, NEW o \in Outputs, Begin(r, o)
    PROVE  Inv'
<1> DEFINE row == [req[r] EXCEPT !.pc = "claim", !.output = o]
<1>1. req[r] \in RequestRow /\ req[r].pc = "idle"
  BY DEF Inv, TypeOK, Begin
<1>2. /\ row \in RequestRow /\ row.pc = "claim" /\ row.output = o
      /\ row.cost = req[r].cost /\ row.worst = req[r].worst /\ row.ok = req[r].ok
  BY <1>1 DEF RequestRow
<1>3. req' = [req EXCEPT ![r] = row] /\ billed' \in [Months -> Nat]
  BY DEF Begin, Inv, TypeOK, RequestRow
<1>4. row.cost = 0 /\ ~row.ok /\ row.cost <= row.worst
  BY <1>1, <1>2 DEF Inv, IInv, RequestInv
<1>5. row.pc \notin Holding /\ req[r].pc \notin Holding /\ lock' = lock
  BY <1>1, <1>2 DEF Begin, Holding
<1>6. UNCHANGED <<month, rev, spent, kept, edit>>
  BY DEF Begin
<1> HIDE DEF row
<1>7. QED BY <1>2, <1>3, <1>4, <1>5, <1>6, RequestStep

LEMMA ClaimInv ==
    ASSUME Inv, NEW r \in Requests, Claim(r)
    PROVE  Inv'
<1> DEFINE row == [req[r] EXCEPT !.pc = "check"]
<1>1. req[r] \in RequestRow /\ req[r].pc = "claim" /\ billed' \in [Months -> Nat]
  BY DEF Inv, TypeOK, Claim
<1>2. UNCHANGED <<month, rev, spent, kept, edit>>
  BY DEF Claim
<1>3. CASE LockFree /\ lock' = r /\ req' = [req EXCEPT ![r].pc = "check"]
  <2>1. /\ row \in RequestRow /\ row.pc = "check" /\ row.output = req[r].output
        /\ row.cost = req[r].cost /\ row.worst = req[r].worst /\ row.ok = req[r].ok
    BY <1>1 DEF RequestRow, Holding
  <2>2. req' = [req EXCEPT ![r] = row]
    BY <1>3 DEF Inv, TypeOK, RequestRow
  <2>3. row.output \in Outputs /\ row.cost = 0 /\ ~row.ok /\ row.cost <= row.worst
    BY <1>1, <2>1 DEF Inv, IInv, RequestInv
  <2>4. row.pc \in Holding /\ lock' = r /\ lock = NoOne
    BY <1>3, <2>1 DEF LockFree, Holding
  <2> HIDE DEF row
  <2>5. QED BY <1>1, <1>2, <2>1, <2>2, <2>3, <2>4, RequestStep
<1>4. CASE lock' = lock /\ req' = [req EXCEPT ![r] = Idle]
  <2>1. Idle \in RequestRow
    BY GenerationAssumption DEF Idle, RequestRow
  <2>2. Idle.pc = "idle" /\ Idle.cost = 0 /\ Idle.worst = 0 /\ ~Idle.ok
    BY DEF Idle
  <2>3. Idle.pc \notin Holding /\ req[r].pc \notin Holding
    BY <1>1, <2>2 DEF Holding
  <2>4. /\ Idle.pc \notin {"call", "wait", "billed", "ledger"}
        /\ Idle.pc \notin {"call", "wait", "billed"}
        /\ Idle.cost <= Idle.worst /\ Idle.pc # "persist"
    BY <2>2
  <2>5. QED BY <1>1, <1>2, <1>4, <2>1, <2>2, <2>3, <2>4, RequestStep
<1>5. QED BY <1>3, <1>4 DEF Claim

\* A request under the lock that goes on with the lock and a row of its own.
LEMMA HolderStep ==
    ASSUME Inv, NEW r \in Requests, NEW row \in RequestRow,
           req[r].pc \in Holding, row.pc \in Holding \ {"persist", "check"},
           req' = [req EXCEPT ![r] = row],
           UNCHANGED <<month, rev, spent, kept, edit, lock>>, billed' \in [Months -> Nat],
           row.output = req[r].output, row.cost <= row.worst,
           row.pc = "cap" => row.cost = 0,
           row.pc # "ledger" => ~row.ok,
           row.pc # "cap" =>
              /\ row.month <= month
              /\ \A m \in Months : m >= row.month => spent[m] + row.worst <= Cap
    PROVE  Inv'
<1>1. row.pc \in {"cap", "call", "wait", "billed", "ledger"}
  BY DEF Holding
<1>2. row.output \in Outputs
  BY DEF Inv, IInv, RequestInv, Holding
<1>3. lock = r /\ lock' = r /\ row.pc \in Holding
  BY DEF Inv, IInv, LockInv
<1>4. /\ row.pc \in {"idle", "claim", "check", "cap"} => row.cost = 0 /\ ~row.ok
      /\ row.pc \in {"call", "wait", "billed"} => ~row.ok
  BY <1>1
<1>5. row.pc \in {"call", "wait", "billed", "ledger"} =>
         /\ row.month <= month
         /\ \A m \in Months : m >= row.month => spent[m] + row.worst <= Cap
  BY <1>1
<1>6. QED BY <1>1, <1>2, <1>3, <1>4, <1>5, RequestStep

LEMMA CheckInv ==
    ASSUME Inv, NEW r \in Requests, Check(r)
    PROVE  Inv'
<1> DEFINE row == [req[r] EXCEPT !.pc = "cap"]
<1>1. /\ req[r] \in RequestRow /\ req[r].pc = "check" /\ req[r].pc \in Holding
      /\ billed' \in [Months -> Nat] /\ UNCHANGED <<month, rev, spent, kept, edit, billed>>
  BY DEF Inv, TypeOK, Check, Holding
<1>2. CASE req' = [req EXCEPT ![r].pc = "cap"] /\ lock' = lock
  <2>1. /\ row \in RequestRow /\ row.pc = "cap" /\ row.output = req[r].output
        /\ row.cost = req[r].cost /\ row.worst = req[r].worst /\ row.ok = req[r].ok
    BY <1>1 DEF RequestRow, Holding
  <2>2. req' = [req EXCEPT ![r] = row]
    BY <1>2 DEF Inv, TypeOK, RequestRow
  <2>3. row.cost = 0 /\ ~row.ok /\ row.cost <= row.worst
    BY <1>1, <2>1 DEF Inv, IInv, RequestInv
  <2>4. row.pc \in Holding \ {"persist", "check"}
    BY <2>1 DEF Holding
  <2> HIDE DEF row
  <2>5. QED BY <1>1, <1>2, <2>1, <2>2, <2>3, <2>4, HolderStep
<1>3. CASE Release(r)
  BY <1>1, <1>3, ReleaseInv
<1>4. QED BY <1>2, <1>3 DEF Check

LEMMA CheckCapInv ==
    ASSUME Inv, NEW r \in Requests, CheckCap(r)
    PROVE  Inv'
<1>1. /\ req[r] \in RequestRow /\ req[r].pc = "cap" /\ req[r].pc \in Holding
      /\ billed' \in [Months -> Nat] /\ UNCHANGED <<month, rev, spent, kept, edit, billed>>
  BY DEF Inv, TypeOK, CheckCap, Holding
<1>2. ASSUME NEW worst \in Estimates, ~WouldExceedCap(month, worst), lock' = lock,
             req' = [req EXCEPT ![r].pc = "call", ![r].month = month, ![r].worst = worst]
      PROVE  Inv'
  <2> DEFINE row == [req[r] EXCEPT !.pc = "call", !.month = month, !.worst = worst]
  <2>1. /\ row \in RequestRow /\ row.pc = "call" /\ row.output = req[r].output
        /\ row.cost = req[r].cost /\ row.worst = worst /\ row.ok = req[r].ok
        /\ row.month = month
    BY <1>1, GenerationAssumption DEF RequestRow, Holding, Inv, TypeOK
  <2>2. req' = [req EXCEPT ![r] = row]
    BY <1>2 DEF Inv, TypeOK, RequestRow
  <2>3. row.cost = 0 /\ ~row.ok /\ row.cost <= row.worst
    BY <1>1, <2>1, GenerationAssumption DEF Inv, IInv, RequestInv
  <2>4. row.pc \in Holding \ {"persist", "check"}
    BY <2>1 DEF Holding
  <2>5. row.month <= month
    BY <2>1, GenerationAssumption DEF Inv, TypeOK
  <2>6. \A m \in Months : m >= row.month => spent[m] + row.worst <= Cap
    <3> SUFFICES ASSUME NEW m \in Months, m >= month PROVE spent[m] + worst <= Cap
      BY <2>1
    <3>1. month \in Nat /\ m \in Nat /\ spent[month] \in Nat /\ worst \in Nat
          /\ spent[month] + worst <= Cap
      BY <1>2, GenerationAssumption DEF Inv, TypeOK, WouldExceedCap
    <3>2. m > month => spent[m] = 0
      BY DEF Inv, IInv, FutureInv
    <3>3. QED BY <3>1, <3>2, GenerationAssumption
  <2> HIDE DEF row
  <2>7. QED BY <1>1, <1>2, <2>1, <2>2, <2>3, <2>4, <2>5, <2>6, HolderStep
<1>3. CASE Release(r)
  BY <1>1, <1>3, ReleaseInv
<1>4. QED BY <1>2, <1>3 DEF CheckCap

\* A step of the call keeps the month and the estimate that were checked.
LEMMA CallStep ==
    ASSUME Inv, NEW r \in Requests, NEW row \in RequestRow,
           req[r].pc \in {"call", "wait", "billed"}, row.pc \in {"wait", "billed", "ledger"},
           req' = [req EXCEPT ![r] = row],
           UNCHANGED <<month, rev, spent, kept, edit, lock>>, billed' \in [Months -> Nat],
           row.output = req[r].output, row.month = req[r].month, row.worst = req[r].worst,
           row.cost <= row.worst, row.pc # "ledger" => ~row.ok
    PROVE  Inv'
<1>1. req[r].pc \in Holding /\ row.pc \in Holding \ {"persist", "check"} /\ row.pc # "cap"
  BY DEF Holding
<1>2. /\ row.month <= month
      /\ \A m \in Months : m >= row.month => spent[m] + row.worst <= Cap
  BY DEF Inv, IInv, RoomInv
<1>3. QED BY <1>1, <1>2, HolderStep

LEMMA CallActionInv ==
    ASSUME Inv, NEW r \in Requests, Call(r) \/ Retry(r)
    PROVE  Inv'
<1>1. /\ req[r] \in RequestRow /\ req[r].pc \in {"call", "wait", "billed"} /\ ~req[r].ok
      /\ billed' \in [Months -> Nat] /\ UNCHANGED <<month, rev, spent, kept, edit, lock>>
      /\ req[r].worst \in Nat /\ req[r].cost <= req[r].worst
  BY RowTypes DEF Inv, TypeOK, IInv, RequestInv, Call, Retry
<1>2. PICK row \in RequestRow :
         /\ req' = [req EXCEPT ![r] = row]
         /\ row.pc = "wait" /\ row.output = req[r].output /\ row.month = req[r].month
         /\ row.worst = req[r].worst /\ row.cost <= row.worst /\ row.ok = req[r].ok
  <2>1. CASE Call(r)
    <3> DEFINE row == [req[r] EXCEPT !.pc = "wait"]
    <3>1. row \in RequestRow /\ req' = [req EXCEPT ![r] = row]
      BY <1>1, <2>1 DEF Call, Inv, TypeOK, RequestRow, Holding
    <3>2. /\ row.pc = "wait" /\ row.output = req[r].output /\ row.month = req[r].month
          /\ row.worst = req[r].worst /\ row.cost = req[r].cost /\ row.ok = req[r].ok
      BY <1>1 DEF RequestRow
    <3>3. QED BY <1>1, <3>1, <3>2
  <2>2. CASE Retry(r)
    <3> DEFINE row == [req[r] EXCEPT !.pc = "wait", !.tries = @ + 1, !.cost = 0]
    <3>1. req[r].tries + 1 \in 0..Retries
      BY <1>1, <2>2, RowTypes, GenerationAssumption DEF Retry, Inv
    <3>2. row \in RequestRow
      BY <1>1, <3>1 DEF RequestRow, Holding
    <3>3. req' = [req EXCEPT ![r] = row]
      BY <1>1, <2>2 DEF Retry, Inv, TypeOK, RequestRow
    <3>4. /\ row.pc = "wait" /\ row.output = req[r].output /\ row.month = req[r].month
          /\ row.worst = req[r].worst /\ row.cost = 0 /\ row.ok = req[r].ok
      BY <1>1 DEF RequestRow
    <3>5. row.cost <= row.worst
      BY <1>1, <3>4
    <3> HIDE DEF row
    <3>6. QED BY <3>2, <3>3, <3>4, <3>5
  <2>3. QED BY <2>1, <2>2
<1>3. QED BY <1>1, <1>2, CallStep

LEMMA ModelBillsInv ==
    ASSUME Inv, NEW r \in Requests, ModelBills(r)
    PROVE  Inv'
<1>1. /\ req[r] \in RequestRow /\ req[r].pc \in {"call", "wait", "billed"} /\ ~req[r].ok
      /\ UNCHANGED <<month, rev, spent, kept, edit, lock>> /\ req[r].worst \in Nat
  BY RowTypes DEF Inv, TypeOK, IInv, RequestInv, ModelBills
<1>2. PICK cost \in 1..req[r].worst :
         /\ billed' = [billed EXCEPT ![month] = @ + cost]
         /\ req' = [req EXCEPT ![r].pc = "billed", ![r].cost = cost]
  BY DEF ModelBills
<1>3. billed' \in [Months -> Nat] /\ cost \in Nat
  BY <1>1, <1>2 DEF Inv, TypeOK
<1> DEFINE row == [req[r] EXCEPT !.pc = "billed", !.cost = cost]
<1>4. row \in RequestRow /\ req' = [req EXCEPT ![r] = row]
  BY <1>1, <1>2, <1>3 DEF Inv, TypeOK, RequestRow, Holding
<1>5. /\ row.pc = "billed" /\ row.output = req[r].output /\ row.month = req[r].month
      /\ row.worst = req[r].worst /\ row.cost = cost /\ row.ok = req[r].ok
  BY <1>1 DEF RequestRow
<1>6. row.cost <= row.worst
  BY <1>1, <1>2, <1>5
<1> HIDE DEF row
<1>7. QED BY <1>1, <1>3, <1>4, <1>5, <1>6, CallStep

LEMMA AnswerInv ==
    ASSUME Inv, NEW r \in Requests, Answer(r) \/ GiveUp(r)
    PROVE  Inv'
<1>1. /\ req[r] \in RequestRow /\ req[r].pc \in {"call", "wait", "billed"}
      /\ billed' \in [Months -> Nat] /\ UNCHANGED <<month, rev, spent, kept, edit, lock>>
      /\ req[r].worst \in Nat /\ req[r].cost \in Nat /\ req[r].cost <= req[r].worst
  BY RowTypes DEF Inv, TypeOK, IInv, RequestInv, Answer, GiveUp
<1>2. PICK cost \in {0, req[r].cost}, ok \in BOOLEAN :
         req' = [req EXCEPT ![r] = [req[r] EXCEPT !.pc = "ledger", !.cost = cost, !.ok = ok]]
  <2>1. CASE Answer(r)
    <3>1. PICK ok \in BOOLEAN : req' = [req EXCEPT ![r].pc = "ledger", ![r].ok = ok]
      BY <2>1 DEF Answer
    <3>2. req' = [req EXCEPT ![r] = [req[r] EXCEPT !.pc = "ledger", !.cost = req[r].cost,
                                                   !.ok = ok]]
      BY <1>1, <3>1 DEF Inv, TypeOK, RequestRow
    <3>3. QED BY <3>2
  <2>2. CASE GiveUp(r)
    <3>1. req' = [req EXCEPT ![r] = [req[r] EXCEPT !.pc = "ledger", !.cost = 0,
                                                   !.ok = req[r].ok]]
      BY <1>1, <2>2 DEF GiveUp, Inv, TypeOK, RequestRow
    <3>2. QED BY <1>1, <3>1 DEF RequestRow
  <2>3. QED BY <2>1, <2>2
<1> DEFINE row == [req[r] EXCEPT !.pc = "ledger", !.cost = cost, !.ok = ok]
<1>3. row \in RequestRow
  <2>1. cost \in Nat /\ "ledger" \in Holding
    BY <1>1 DEF Holding
  <2>2. QED BY <1>1, <2>1 DEF RequestRow
<1>4. /\ row.pc = "ledger" /\ row.output = req[r].output /\ row.month = req[r].month
      /\ row.worst = req[r].worst /\ row.cost = cost
  BY <1>1 DEF RequestRow
<1>5. row.cost <= row.worst /\ req' = [req EXCEPT ![r] = row]
  BY <1>1, <1>2, <1>4
<1> HIDE DEF row
<1>6. row.pc \in {"wait", "billed", "ledger"} /\ (row.pc # "ledger" => ~row.ok)
  BY <1>4
<1>7. QED BY <1>1, <1>3, <1>4, <1>5, <1>6, CallStep

-----------------------------------------------------------------------------
(* The steps that write a table. *)

\* The lock's holder is the only request that can be writing.
LEMMA OneHolder ==
    ASSUME Inv, NEW r \in Requests, NEW s \in Requests,
           req[r].pc \in Holding, req[s].pc \in Holding
    PROVE  r = s
BY DEF Inv, IInv, LockInv

LEMMA ReleaseTypes ==
    ASSUME Inv, NEW r \in Requests, Release(r), req[r].pc \in Holding
    PROVE  /\ req' \in [Requests -> RequestRow] /\ lock' \in Requests \cup {NoOne}
           /\ req' = [req EXCEPT ![r] = Idle]
           /\ LockInv' /\ RequestInv'
           /\ \A s \in Requests : req'[s].pc \notin Holding
<1>1. Idle \in RequestRow
  BY GenerationAssumption DEF Idle, RequestRow
<1>2. req' = [req EXCEPT ![r] = Idle] /\ lock' = NoOne /\ lock = r
  BY DEF Release, Inv, IInv, LockInv
<1>3. \A s \in Requests : req'[s] = IF s = r THEN Idle ELSE req[s]
  BY <1>2 DEF Inv, TypeOK
<1>4. Idle.pc \notin Holding
  BY DEF Idle, Holding
<1>5. \A s \in Requests : req'[s].pc \notin Holding
  BY <1>2, <1>3, <1>4 DEF Inv, IInv, LockInv
<1>6. LockInv'
  BY <1>2, <1>5, GenerationAssumption DEF LockInv
<1>7. RequestInv'
  BY <1>3 DEF Inv, IInv, RequestInv, Idle
<1>8. QED BY <1>1, <1>2, <1>5, <1>6, <1>7 DEF Inv, TypeOK

LEMMA LedgerInv ==
    ASSUME Inv, NEW r \in Requests, Ledger(r)
    PROVE  Inv'
<1>1. /\ req[r] \in RequestRow /\ req[r].pc = "ledger" /\ req[r].pc \in Holding
      /\ req[r].cost \in Nat /\ req[r].worst \in Nat /\ req[r].month \in Nat
      /\ req[r].output \in Outputs /\ req[r].cost <= req[r].worst /\ req[r].month <= month
      /\ month \in Months /\ month \in Nat
  BY RowTypes, GenerationAssumption
     DEF Ledger, Inv, TypeOK, IInv, RequestInv, RoomInv, Holding
<1>2. spent' = [spent EXCEPT ![month] = @ + req[r].cost] /\ UNCHANGED <<month, rev, edit, billed>>
  BY DEF Ledger
<1>3. spent[month] \in Nat /\ spent' \in [Months -> Nat]
  BY <1>1, <1>2 DEF Inv, TypeOK
<1>4. \A m \in Months : spent'[m] = IF m = month THEN spent[m] + req[r].cost ELSE spent[m]
  BY <1>2 DEF Inv, TypeOK
<1>5. spent[month] + req[r].worst <= Cap
  BY <1>1 DEF Inv, IInv, RoomInv
<1>6. LedgerWithinCap'
  BY <1>1, <1>3, <1>4, <1>5, GenerationAssumption DEF Inv, IInv, LedgerWithinCap
<1>7. FutureInv'
  BY <1>1, <1>2, <1>4, GenerationAssumption DEF Inv, IInv, FutureInv
<1>8. PageInv'
  BY <1>2 DEF Inv, IInv, PageInv
<1>9. CASE /\ kept' = [kept EXCEPT ![req[r].output] = @ + 1]
           /\ req' = [req EXCEPT ![r].pc = "persist"]
           /\ lock' = lock
  <2>1. \A s \in Requests :
           /\ s # r => req'[s] = req[s] /\ req[s].pc \notin Holding
           /\ s = r => /\ req'[s].pc = "persist" /\ req'[s].output = req[r].output
                       /\ req'[s].cost = req[r].cost /\ req'[s].worst = req[r].worst
    BY <1>1, <1>9, OneHolder DEF Inv, TypeOK, RequestRow
  <2>2. /\ \A o \in Outputs : kept'[o] \in Nat /\ (kept[o] > 0 => kept'[o] > 0)
        /\ kept'[req[r].output] > 0 /\ kept' \in [Outputs -> Nat]
    BY <1>1, <1>9 DEF Inv, TypeOK
  <2>3. req' \in [Requests -> RequestRow]
    BY <1>1, <1>9 DEF Inv, TypeOK, RequestRow, Holding
  <2>4. TypeOK'
    BY <1>2, <1>3, <1>9, <2>2, <2>3 DEF Inv, TypeOK
  <2>5. LockInv'
    BY <1>1, <1>9, <2>1 DEF Inv, IInv, LockInv, Holding
  <2>6. RequestInv' /\ RoomInv'
    BY <1>1, <2>1 DEF Inv, IInv, RequestInv, RoomInv, Holding
  <2>7. PaidInv'
    BY <1>1, <1>2, <2>1, <2>2 DEF Inv, IInv, PaidInv, RevisionsOnLedger, Holding
  <2>8. QED BY <1>6, <1>7, <1>8, <2>4, <2>5, <2>6, <2>7 DEF Inv, IInv
<1>10. CASE kept' = kept /\ Release(r)
  <2>1. TypeOK' /\ LockInv' /\ RequestInv' /\ \A s \in Requests : req'[s].pc \notin Holding
    BY <1>1, <1>2, <1>3, <1>10, ReleaseTypes DEF Inv, TypeOK
  <2>2. RoomInv' /\ PaidInv'
    BY <1>2, <1>10, <2>1 DEF Inv, IInv, RoomInv, PaidInv, RevisionsOnLedger, Holding
  <2>3. QED BY <1>6, <1>7, <1>8, <2>1, <2>2 DEF Inv, IInv
<1>11. QED BY <1>9, <1>10 DEF Ledger

LEMMA PersistInv ==
    ASSUME Inv, NEW r \in Requests, Persist(r)
    PROVE  Inv'
<1>1. /\ req[r].pc = "persist" /\ req[r].pc \in Holding /\ req[r].output \in Outputs
      /\ Release(r) /\ UNCHANGED <<month, spent, kept, edit, billed>>
  BY RowTypes DEF Persist, Inv, IInv, RequestInv, Holding
<1>2. \A o \in Outputs :
         \/ rev'[o] = rev[o]
         \/ /\ o = req[r].output /\ rev[o] = <<>>
            /\ rev'[o] = <<History!Deterministic, History!Generated>>
  BY <1>1 DEF Persist, Inv, TypeOK
<1>3. /\ <<History!Deterministic, History!Generated>> \in Seq(Revision)
      /\ Len(<<History!Deterministic, History!Generated>>) = 2
      /\ <<History!Deterministic, History!Generated>> # <<>>
  BY DEF History!Deterministic, History!Generated, Revision
<1>4. rev' \in [Outputs -> Seq(Revision)]
  BY <1>1, <1>3 DEF Persist, Inv, TypeOK
<1>5. \A o \in Outputs : Len(rev'[o]) <= MaxRevisions + 1
  <2>1. 2 <= MaxRevisions + 1
    BY GenerationAssumption
  <2>2. \A o \in Outputs : Len(rev[o]) <= MaxRevisions + 1
    BY DEF Inv, TypeOK
  <2>3. QED BY <1>2, <1>3, <2>1, <2>2
<1>6. /\ req' \in [Requests -> RequestRow] /\ lock' \in Requests \cup {NoOne}
      /\ LockInv' /\ RequestInv' /\ \A s \in Requests : req'[s].pc \notin Holding
  BY <1>1, ReleaseTypes
<1>7. TypeOK'
  BY <1>1, <1>4, <1>5, <1>6 DEF Inv, TypeOK
<1>8. RoomInv' /\ FutureInv' /\ LedgerWithinCap'
  BY <1>1, <1>6 DEF Inv, IInv, RoomInv, FutureInv, LedgerWithinCap, Holding
<1>9. PaidInv'
  BY <1>1, <1>2, <1>6 DEF Inv, IInv, PaidInv, RevisionsOnLedger, Holding
<1>10. PageInv'
  BY <1>1, <1>2, <1>3 DEF Inv, IInv, PageInv
<1>11. QED BY <1>6, <1>7, <1>8, <1>9, <1>10 DEF Inv, IInv

LEMMA DieInv ==
    ASSUME Inv, NEW r \in Requests, Die(r)
    PROVE  Inv'
BY ReleaseInv DEF Die

LEMMA OpenPageInv ==
    ASSUME Inv, NEW e \in Editors, NEW o \in Outputs, OpenPage(e, o)
    PROVE  Inv'
<1>1. /\ UNCHANGED <<month, rev, spent, kept, lock, req, billed>>
      /\ rev[o] # <<>> /\ rev[o] \in Seq(Revision)
      /\ edit' = [edit EXCEPT ![e] = [pc |-> "page", output |-> o, base |-> Latest(o)]]
  BY DEF OpenPage, NotGenerated, Inv, TypeOK
<1>2. Latest(o) \in Nat
  BY <1>1 DEF Latest
<1>3. TypeOK'
  BY <1>1, <1>2 DEF Inv, TypeOK, PageRow
<1>4. PageInv'
  BY <1>1, <1>2 DEF Inv, TypeOK, IInv, PageInv
<1>5. LockInv' /\ RequestInv' /\ RoomInv' /\ FutureInv' /\ LedgerWithinCap' /\ PaidInv'
  BY <1>1 DEF Inv, IInv, LockInv, RequestInv, RoomInv, FutureInv, LedgerWithinCap, PaidInv,
              RevisionsOnLedger
<1>6. QED BY <1>3, <1>4, <1>5 DEF Inv, IInv

LEMMA SaveInv ==
    ASSUME Inv, NEW e \in Editors, Save(e)
    PROVE  Inv'
<1>1. /\ UNCHANGED <<month, rev, spent, kept, lock, req, billed>>
      /\ edit[e].pc = "page" /\ edit[e].output \in Outputs /\ rev[edit[e].output] # <<>>
      /\ edit[e].base \in Nat
  BY DEF Save, Inv, TypeOK, IInv, PageInv, PageRow
<1>2. \/ /\ edit' = [edit EXCEPT ![e] = [edit[e] EXCEPT !.pc = "insert"]]
         /\ edit[e].base < MaxRevisions
      \/ edit' = [edit EXCEPT ![e] = NoPage]
  BY <1>1 DEF Save, MayRevise, Inv, TypeOK
<1>3. \E row \in PageRow :
         /\ edit' = [edit EXCEPT ![e] = row]
         /\ row.pc # "idle" => row.output = edit[e].output
         /\ row.pc = "insert" => row.base < MaxRevisions
  <2>1. NoPage.pc = "idle" /\ NoPage \in PageRow
    BY DEF NoPage, PageRow
  <2>2. edit[e] \in PageRow
    BY DEF Inv, TypeOK
  <2> DEFINE row == [edit[e] EXCEPT !.pc = "insert"]
  <2>3. /\ row \in PageRow
        /\ row.output = edit[e].output /\ row.base = edit[e].base
    BY <2>2 DEF PageRow
  <2> HIDE DEF row
  <2>4. CASE edit' = [edit EXCEPT ![e] = row] /\ edit[e].base < MaxRevisions
    BY <2>3, <2>4
  <2>5. CASE edit' = [edit EXCEPT ![e] = NoPage]
    BY <2>1, <2>5
  <2>6. QED BY <1>2, <2>4, <2>5 DEF row
<1>4. TypeOK' /\ PageInv'
  <2>1. PICK row \in PageRow :
           /\ edit' = [edit EXCEPT ![e] = row]
           /\ row.pc # "idle" => row.output = edit[e].output
           /\ row.pc = "insert" => row.base < MaxRevisions
    BY <1>3
  <2>2. TypeOK'
    BY <1>1, <2>1 DEF Inv, TypeOK
  <2>3. \A d \in Editors : edit'[d] = IF d = e THEN row ELSE edit[d]
    BY <2>1 DEF Inv, TypeOK
  <2>4. PageInv'
    BY <1>1, <2>1, <2>3 DEF Inv, IInv, PageInv
  <2>5. QED BY <2>2, <2>4
<1>5. LockInv' /\ RequestInv' /\ RoomInv' /\ FutureInv' /\ LedgerWithinCap' /\ PaidInv'
  BY <1>1 DEF Inv, IInv, LockInv, RequestInv, RoomInv, FutureInv, LedgerWithinCap, PaidInv,
              RevisionsOnLedger
<1>6. QED BY <1>4, <1>5 DEF Inv, IInv

\* What an edit's insert does to the revisions.
LEMMA InsertRevisions ==
    ASSUME Inv, NEW e \in Editors, InsertEdit(e)
    PROVE  \/ UNCHANGED rev
           \/ \E o \in Outputs :
                 /\ rev[o] # <<>> /\ Len(rev[o]) <= MaxRevisions
                 /\ rev' = [rev EXCEPT ![o] = Append(@, History!Edited(Len(@) - 1))]
<1>1. /\ edit[e].output \in Outputs /\ rev[edit[e].output] # <<>>
      /\ edit[e].base \in Nat /\ edit[e].base < MaxRevisions
      /\ rev[edit[e].output] \in Seq(Revision)
  BY DEF InsertEdit, Inv, TypeOK, IInv, PageInv, PageRow
<1>2. CASE /\ Follows(e)
           /\ rev' = [rev EXCEPT ![edit[e].output] = Append(@, History!Edited(edit[e].base))]
  <2>1. edit[e].base = Len(rev[edit[e].output]) - 1
    BY <1>2 DEF Follows, Latest
  <2>2. Len(rev[edit[e].output]) <= MaxRevisions
    BY <1>1, <2>1, GenerationAssumption
  <2>3. QED BY <1>1, <1>2, <2>1, <2>2
<1>3. QED BY <1>2 DEF InsertEdit

LEMMA InsertEditInv ==
    ASSUME Inv, NEW e \in Editors, InsertEdit(e)
    PROVE  Inv'
<1>1. /\ UNCHANGED <<month, spent, kept, lock, req, billed>>
      /\ edit' = [edit EXCEPT ![e] = NoPage]
  BY DEF InsertEdit
<1>2. /\ rev' \in [Outputs -> Seq(Revision)]
      /\ \A o \in Outputs : /\ Len(rev'[o]) <= MaxRevisions + 1
                            /\ rev'[o] # <<>> <=> rev[o] # <<>>
  <2>1. CASE UNCHANGED rev
    BY <2>1 DEF Inv, TypeOK
  <2>2. ASSUME NEW o \in Outputs, rev[o] # <<>>, Len(rev[o]) <= MaxRevisions,
               rev' = [rev EXCEPT ![o] = Append(@, History!Edited(Len(@) - 1))]
        PROVE  <1>2
    <3>1. rev[o] \in Seq(Revision) /\ Len(rev[o]) - 1 \in Nat
      BY <2>2 DEF Inv, TypeOK
    <3>2. History!Edited(Len(rev[o]) - 1) \in Revision
      BY <3>1 DEF History!Edited, Revision
    <3>3. /\ Append(rev[o], History!Edited(Len(rev[o]) - 1)) \in Seq(Revision)
          /\ Len(Append(rev[o], History!Edited(Len(rev[o]) - 1))) = Len(rev[o]) + 1
          /\ Append(rev[o], History!Edited(Len(rev[o]) - 1)) # <<>>
      BY <3>1, <3>2
    <3>4. \A p \in Outputs :
             rev'[p] = IF p = o THEN Append(rev[o], History!Edited(Len(rev[o]) - 1)) ELSE rev[p]
      BY <2>2 DEF Inv, TypeOK
    <3>5. Len(rev[o]) + 1 <= MaxRevisions + 1
      BY <2>2, <3>1, GenerationAssumption
    <3>6. rev' \in [Outputs -> Seq(Revision)]
      BY <2>2, <3>3 DEF Inv, TypeOK
    <3>7. \A p \in Outputs : Len(rev[p]) <= MaxRevisions + 1
      BY DEF Inv, TypeOK
    <3>8. QED BY <2>2, <3>3, <3>4, <3>5, <3>6, <3>7
  <2>3. QED BY <2>1, <2>2, InsertRevisions
<1>3. TypeOK'
  BY <1>1, <1>2 DEF Inv, TypeOK, NoPage, PageRow
<1>4. PageInv'
  BY <1>1, <1>2 DEF Inv, TypeOK, IInv, PageInv, NoPage
<1>5. LockInv' /\ RequestInv' /\ RoomInv' /\ FutureInv' /\ LedgerWithinCap'
  BY <1>1 DEF Inv, IInv, LockInv, RequestInv, RoomInv, FutureInv, LedgerWithinCap
<1>6. PaidInv'
  BY <1>1, <1>2 DEF Inv, IInv, PaidInv, RevisionsOnLedger
<1>7. QED BY <1>3, <1>4, <1>5, <1>6 DEF Inv, IInv

LEMMA MonthEndsInv ==
    ASSUME Inv, MonthEnds
    PROVE  Inv'
<1>1. /\ UNCHANGED <<rev, spent, kept, lock, req, edit, billed>>
      /\ month' \in Months /\ month' = month + 1
      /\ month \in Nat
  BY GenerationAssumption DEF MonthEnds, Inv, TypeOK
<1>2. RoomInv'
  <2>1. \A r \in Requests : req[r].month \in Nat
    BY RowTypes DEF Inv
  <2>2. QED BY <1>1, <2>1 DEF Inv, IInv, RoomInv
<1>3. FutureInv'
  BY <1>1, GenerationAssumption DEF Inv, IInv, FutureInv
<1>4. QED
  BY <1>1, <1>2, <1>3
     DEF Inv, TypeOK, IInv, LockInv, RequestInv, LedgerWithinCap, PaidInv, RevisionsOnLedger,
         PageInv

-----------------------------------------------------------------------------
LEMMA NextInv == Inv /\ [Next]_vars => Inv'
<1> SUFFICES ASSUME Inv, [Next]_vars PROVE Inv'
  OBVIOUS
<1>1. ASSUME NEW r \in Requests, Generate(r) PROVE Inv'
  BY <1>1, BeginInv, ClaimInv, CheckInv, CheckCapInv, CallActionInv, ModelBillsInv,
     AnswerInv, LedgerInv, PersistInv, DieInv
     DEF Generate, Handle
<1>2. ASSUME NEW e \in Editors, Revise(e) PROVE Inv'
  BY <1>2, OpenPageInv, SaveInv, InsertEditInv DEF Revise
<1>3. CASE MonthEnds
  BY <1>3, MonthEndsInv
<1>4. CASE UNCHANGED vars
  BY <1>4 DEF vars, Inv, TypeOK, IInv, LockInv, RequestInv, RoomInv, FutureInv,
              LedgerWithinCap, PaidInv, RevisionsOnLedger, PageInv
<1>5. QED BY <1>1, <1>2, <1>3, <1>4 DEF Next

THEOREM Invariance == Spec => []Inv
BY InitInv, NextInv, PTL DEF Spec

\* Every variable keeps its type; an output never has more revisions than
\* MAX_DRAFT_REVISIONS allows.
THEOREM TypeCorrect == Spec => []TypeOK
BY Invariance, PTL DEF Inv

\* However many requests are submitted, at most one is past the lock.
THEOREM OneCall == Spec => []OneCallInFlight
<1>1. Inv => OneCallInFlight
  BY DEF Inv, IInv, LockInv, OneCallInFlight
<1>2. QED BY <1>1, Invariance, PTL

\* The ledger of no month passes the cap.
THEOREM WithinCap == Spec => []LedgerWithinCap
<1>1. Inv => LedgerWithinCap
  BY DEF Inv, IInv
<1>2. QED BY <1>1, Invariance, PTL

\* No generated text without its completed ledger row.
THEOREM PaidFor == Spec => []RevisionsOnLedger
<1>1. Inv => RevisionsOnLedger
  BY DEF Inv, IInv, PaidInv
<1>2. QED BY <1>1, Invariance, PTL

\* The revisions implement the history the outputs promise: a step generates
\* an output whole, adds an edit to the revision it was made from, or leaves
\* the revisions alone.
THEOREM HistoryImplemented == Spec => ImplementsHistory
<1>1. Init => History!Init
  BY Zenon DEF Init, History!Init
<1>2. Inv /\ [Next]_vars => [History!Next]_rev
  <2> SUFFICES ASSUME Inv, Next, rev' # rev PROVE History!Next
    BY DEF vars
  <2>1. ASSUME NEW r \in Requests, Persist(r) PROVE History!Next
    <3>1. req[r].output \in Outputs
      BY <2>1 DEF Persist, Inv, IInv, RequestInv
    <3>2. rev[req[r].output] = <<>>
      BY <2>1, <3>1 DEF Persist, Inv, TypeOK
    <3>3. History!Generate(req[r].output)
      BY <2>1, <3>1, <3>2 DEF Persist, History!Generate
    <3>4. QED BY <3>1, <3>3 DEF History!Next
  <2>2. ASSUME NEW e \in Editors, InsertEdit(e) PROVE History!Next
    <3>1. PICK o \in Outputs :
             /\ rev[o] # <<>>
             /\ rev' = [rev EXCEPT ![o] = Append(@, History!Edited(Len(@) - 1))]
      BY <2>2, InsertRevisions
    <3>2. QED BY Zenon, <3>1 DEF History!Next, History!Edit
  <2>3. QED
    BY <2>1, <2>2
       DEF Next, Generate, Handle, Revise, Begin, Claim, Check, CheckCap, Call, ModelBills,
           Answer, Retry, GiveUp, Ledger, Die, OpenPage, Save, MonthEnds
<1>3. QED BY <1>1, <1>2, Invariance, PTL DEF Spec, ImplementsHistory, History!Spec
-----------------------------------------------------------------------------
(* The editorial week. *)

Classifying == {"classify", "freeze", "waiting", "reading", "refused", "duplicate", "classified"}
ClusteringNow == {"cluster", "insert", "engine", "repeated", "clustered"}
Ending == {"finish", "superseded"}

\* A worker past the manifest has a week of its own.
Owns(w) == worker[w].pc \notin {"idle", "batch", "fresh"}

\* The children of a week that nothing failed in, in their order.
Expected(cats, i) ==
    IF i = 1 THEN [kind |-> "import", category |-> "none", outcome |-> "done"]
    ELSE IF i <= 1 + Len(cats)
      THEN [kind |-> "classification", category |-> cats[i - 1], outcome |-> "done"]
      ELSE [kind |-> "clustering", category |-> cats[i - 1 - Len(cats)], outcome |-> "done"]

Shaped(children, cats, m) ==
    Len(children) = m /\ \A i \in 1..m : children[i] = Expected(cats, i)

ClassifiedUpTo(b, cats, m) == \A i \in 1..m : classified[<<b, cats[i]>>] # 0
ClusteredUpTo(b, cats, m) == \A i \in 1..m : <<b, cats[i]>> \in clustered

Failures(children) == {m \in DOMAIN children : children[m].outcome = "failed"}

\* What a worker knows of its batch.
BatchKnown(w) ==
    LET x == worker[w] IN
    /\ x.pc # "idle" => batch[x.batch].rows > 0
    /\ x.pc = "reading" => batch[x.batch].holder = w /\ x.rows = batch[x.batch].rows
    /\ x.pc = "waiting" => x.stale \/ x.rows = batch[x.batch].rows

\* And of its week: the children are those of the steps it has taken.
WeekKnown(w) ==
    LET x == worker[w]
        done == weeks[x.week].children
        cats == x.categories
    IN
    /\ x.pc \in {"batch", "fresh", "begun"} => x.at = 1
    /\ Owns(w) => /\ x.week \in DOMAIN weeks /\ weeks[x.week].status = "running"
                  /\ weeks[x.week].batch = x.batch /\ weeks[x.week].categories = cats
    /\ x.pc = "begun" => Shaped(done, cats, 0)
    /\ x.pc \in Classifying => Shaped(done, cats, x.at) /\ ClassifiedUpTo(x.batch, cats, x.at - 1)
    /\ x.pc \in ClusteringNow => /\ Shaped(done, cats, Len(cats) + x.at)
                                 /\ ClassifiedUpTo(x.batch, cats, Len(cats))
                                 /\ ClusteredUpTo(x.batch, cats, x.at - 1)
    /\ x.pc \in Ending => /\ Shaped(done, cats, 1 + 2 * Len(cats))
                          /\ ClusteredUpTo(x.batch, cats, Len(cats))
    /\ x.pc = "classified" => classified[W!Key(w)] # 0
    /\ x.pc \in {"repeated", "clustered"} => W!Key(w) \in clustered
    /\ x.pc = "superseded" => W!CompletedWeeks(x.batch, cats) # {}
    /\ x.pc = "failing" => Shaped(done, cats, x.at) \/ Shaped(done, cats, Len(cats) + x.at)
    /\ x.pc = "child failed" => Failures(done) = {Len(done)}

OwnWeeks ==
    \A v, w \in Workers : v # w /\ Owns(v) /\ Owns(w) => worker[v].week # worker[w].week

BatchesSound ==
    \A b \in Batches : batch[b].holder = Hand => ~batch[b].frozen /\ batch[b].rows \in 1..(MaxRows - 1)

RunsSound ==
    \A k \in W!Keys :
        /\ classified[k] # 0 => classified[k] = batch[k[1]].rows /\ batch[k[1]].frozen
        /\ k \in clustered => classified[k] # 0

WeekSound(n) ==
    LET week == weeks[n] IN
    /\ week.status = "completed" =>
          /\ W!CompletedWeeks(week.batch, week.categories) = {n}
          /\ Shaped(week.children, week.categories, 1 + 2 * Len(week.categories))
          /\ ClusteredUpTo(week.batch, week.categories, Len(week.categories))
    /\ week.status = "failed" => Failures(week.children) = {Len(week.children)}
    /\ week.status = "superseded" =>
          Failures(week.children) = {} /\ W!CompletedWeeks(week.batch, week.categories) # {}

WeekInv ==
    /\ W!TypeOK /\ BatchesSound /\ RunsSound /\ OwnWeeks
    /\ \A w \in Workers : BatchKnown(w) /\ WeekKnown(w)
    /\ \A n \in DOMAIN weeks : WeekSound(n)

-----------------------------------------------------------------------------
LEMMA Lists ==
    ASSUME NEW cats \in CategoryLists
    PROVE  /\ Len(cats) \in Nat \ {0} /\ DOMAIN cats = 1..Len(cats)
           /\ \A i \in DOMAIN cats : cats[i] \in W!Categories
BY PipelineAssumption

LEMMA WeekInit == W!Init => WeekInv
<1> SUFFICES ASSUME W!Init PROVE WeekInv
  OBVIOUS
<1>1. /\ W!Idle.pc = "idle" /\ W!Idle.batch \in Batches /\ W!Idle.categories \in CategoryLists
      /\ W!Idle.week = 0 /\ W!Idle.at = 1 /\ W!Idle.rows = 0 /\ W!Idle.stale = FALSE
  BY PipelineAssumption DEF W!Idle
<1>2. W!Idle \in W!WorkerRow /\ W!Idle.at \in DOMAIN W!Idle.categories
  <2>1. W!Idle.at \in DOMAIN W!Idle.categories
    BY <1>1, Lists
  <2>2. 0 \in 0..MaxRows /\ 0 \in 0..MaxWeeks
    BY PipelineAssumption
  <2>3. W!Idle \in W!WorkerRow
    BY <1>1, <2>2 DEF W!Idle, W!WorkerRow
  <2>4. QED BY <2>1, <2>3
<1>3. W!TypeOK
  <2>1. batch \in [Batches -> [rows : 0..MaxRows, frozen : BOOLEAN, holder : Workers \cup {Hand, NoOne}]]
    BY PipelineAssumption DEF W!Init
  <2>2. classified \in [W!Keys -> 0..MaxRows] /\ clustered \subseteq W!Keys
    BY PipelineAssumption DEF W!Init
  <2>3. weeks \in Seq(W!Week) /\ Len(weeks) <= MaxWeeks
    BY PipelineAssumption DEF W!Init
  <2>4. worker \in [Workers -> W!WorkerRow]
        /\ \A w \in Workers : worker[w].at \in DOMAIN worker[w].categories
    BY <1>2 DEF W!Init
  <2>5. QED BY <2>1, <2>2, <2>3, <2>4 DEF W!TypeOK
<1>4. BatchesSound
  BY PipelineAssumption DEF W!Init, BatchesSound
<1>5. RunsSound
  BY DEF W!Init, RunsSound
<1>6. \A w \in Workers : worker[w].pc = "idle"
  BY <1>1 DEF W!Init
<1>7. \A w \in Workers : BatchKnown(w) /\ WeekKnown(w)
  BY <1>6 DEF BatchKnown, WeekKnown, Owns, Classifying, ClusteringNow, Ending
<1>8. OwnWeeks
  BY <1>6 DEF OwnWeeks, Owns
<1>9. \A n \in DOMAIN weeks : WeekSound(n)
  BY DEF W!Init
<1>10. QED BY <1>3, <1>4, <1>5, <1>7, <1>8, <1>9 DEF WeekInv

\* What is recorded of a batch, a run or a week stays.
Persists ==
    /\ \A b \in Batches : batch[b].rows > 0 => batch'[b].rows > 0
    /\ \A k \in W!Keys : classified[k] # 0 => classified'[k] # 0
    /\ clustered \subseteq clustered'
    /\ \A n \in DOMAIN weeks : n \in DOMAIN weeks'

CompletedStay ==
    \A b \in Batches, cats \in CategoryLists :
        W!CompletedWeeks(b, cats) # {} => W!CompletedWeeks(b, cats)' # {}

LEMMA KeyIs ==
    ASSUME W!TypeOK, NEW w \in Workers
    PROVE  /\ W!Key(w) \in W!Keys /\ W!Key(w)[1] = worker[w].batch
           /\ W!Key(w) = <<worker[w].batch, worker[w].categories[worker[w].at]>>
           /\ W!Category(w) = worker[w].categories[worker[w].at] /\ W!Category(w) \in W!Categories
           /\ worker[w].batch \in Batches /\ worker[w].categories \in CategoryLists
           /\ worker[w].at \in 1..Len(worker[w].categories)
<1>1. worker[w] \in W!WorkerRow /\ worker[w].at \in DOMAIN worker[w].categories
  BY DEF W!TypeOK
<1>2. worker[w].batch \in Batches /\ worker[w].categories \in CategoryLists
  BY <1>1 DEF W!WorkerRow
<1>3. QED BY <1>1, <1>2, Lists DEF W!Key, W!Category, W!Keys

LEMMA WeekTypes ==
    ASSUME W!TypeOK, NEW w \in Workers
    PROVE  /\ worker[w].batch \in Batches /\ worker[w].categories \in CategoryLists
           /\ worker[w].week \in Nat /\ worker[w].at \in 1..Len(worker[w].categories)
           /\ worker[w].at \in Nat
           /\ worker[w].rows \in 0..MaxRows /\ worker[w].stale \in BOOLEAN
<1>1. worker[w] \in W!WorkerRow
  BY DEF W!TypeOK
<1>2. /\ worker[w].batch \in Batches /\ worker[w].categories \in CategoryLists
      /\ worker[w].week \in 0..MaxWeeks /\ worker[w].rows \in 0..MaxRows /\ worker[w].stale \in BOOLEAN
  BY <1>1 DEF W!WorkerRow
<1>3. worker[w].week \in Nat
  BY <1>2, PipelineAssumption
<1>4. worker[w].at \in 1..Len(worker[w].categories) /\ Len(worker[w].categories) \in Nat
  BY <1>2, KeyIs, Lists
<1>5. QED BY <1>2, <1>3, <1>4

LEMMA BatchTypes ==
    ASSUME W!TypeOK, NEW b \in Batches
    PROVE  /\ batch[b].rows \in Nat /\ batch[b].rows \in 0..MaxRows /\ batch[b].frozen \in BOOLEAN
           /\ batch[b].holder \in Workers \cup {Hand, NoOne}
BY PipelineAssumption DEF W!TypeOK

LEMMA RowOf ==
    ASSUME W!TypeOK, NEW n \in DOMAIN weeks
    PROVE  /\ weeks[n] \in W!Week /\ n \in Nat \ {0} /\ weeks[n].batch \in Batches
           /\ weeks[n].categories \in CategoryLists /\ weeks[n].children \in Seq(W!Child)
<1>1. weeks \in Seq(W!Week)
  BY DEF W!TypeOK
<1>2. weeks[n] \in W!Week /\ n \in Nat \ {0}
  BY <1>1
<1>3. QED BY <1>2 DEF W!Week

\* Nothing that a worker knows is taken from it by a step of another.
LEMMA OthersKnow ==
    ASSUME WeekInv, W!TypeOK', NEW v \in Workers, Persists, CompletedStay,
           /\ worker'[v].pc = worker[v].pc /\ worker'[v].batch = worker[v].batch
           /\ worker'[v].categories = worker[v].categories /\ worker'[v].week = worker[v].week
           /\ worker'[v].at = worker[v].at /\ worker'[v].rows = worker[v].rows
           /\ worker[v].stale => worker'[v].stale,
           Owns(v) => weeks'[worker[v].week] = weeks[worker[v].week],
           worker[v].pc = "reading" => /\ batch'[worker[v].batch].holder = v
                                       /\ batch'[worker[v].batch].rows = batch[worker[v].batch].rows,
           worker[v].pc = "waiting" => \/ worker'[v].stale
                                       \/ batch'[worker[v].batch].rows = batch[worker[v].batch].rows
    PROVE  BatchKnown(v)' /\ WeekKnown(v)'
<1> DEFINE x == worker[v]
           cats == x.categories
<1>t. W!TypeOK /\ BatchKnown(v) /\ WeekKnown(v)
  BY DEF WeekInv
<1>1. /\ x.batch \in Batches /\ cats \in CategoryLists /\ x.at \in 1..Len(cats) /\ Len(cats) \in Nat
      /\ \A i \in 1..Len(cats) : <<x.batch, cats[i]>> \in W!Keys
      /\ W!Key(v) \in W!Keys /\ W!Key(v) = <<x.batch, cats[x.at]>> /\ W!Key(v)' = W!Key(v)
  BY <1>t, KeyIs, Lists DEF W!Key, W!Category, W!Keys
<1>2. BatchKnown(v)'
  BY <1>t, <1>1 DEF BatchKnown, Persists
<1>3. \A m \in 0..Len(cats) :
         /\ ClassifiedUpTo(x.batch, cats, m) => ClassifiedUpTo(x.batch, cats, m)'
         /\ ClusteredUpTo(x.batch, cats, m) => ClusteredUpTo(x.batch, cats, m)'
  BY <1>1 DEF ClassifiedUpTo, ClusteredUpTo, Persists
<1>4. Owns(v)' <=> Owns(v)
  BY DEF Owns
<1>5. W!CompletedWeeks(x.batch, cats) # {} => W!CompletedWeeks(x.batch, cats)' # {}
  BY <1>1 DEF CompletedStay
<1>6. /\ x.pc \in {"batch", "fresh", "begun"} => x.at = 1
      /\ Owns(v) => /\ x.week \in DOMAIN weeks /\ weeks[x.week].status = "running"
                    /\ weeks[x.week].batch = x.batch /\ weeks[x.week].categories = cats
  BY <1>t DEF WeekKnown
<1>7. /\ x'.pc \in {"batch", "fresh", "begun"} => x'.at = 1
      /\ Owns(v)' => /\ x'.week \in DOMAIN weeks' /\ weeks'[x'.week].status = "running"
                     /\ weeks'[x'.week].batch = x'.batch /\ weeks'[x'.week].categories = cats'
  BY <1>4, <1>6 DEF Persists
<1>8. /\ x'.pc = "classified" => classified'[W!Key(v)'] # 0
      /\ x'.pc \in {"repeated", "clustered"} => W!Key(v)' \in clustered'
      /\ x'.pc = "superseded" => W!CompletedWeeks(x.batch, cats)' # {}
  BY <1>t, <1>1, <1>5 DEF WeekKnown, Persists
<1>9. x.pc \in {"begun"} \cup Classifying \cup ClusteringNow \cup Ending \cup {"failing", "child failed"} =>
         weeks'[x'.week] = weeks[x.week]
  BY DEF Owns, Classifying, ClusteringNow, Ending
<1>10. /\ x'.pc = "begun" => Shaped(weeks'[x'.week].children, cats', 0)
       /\ x'.pc = "failing" => \/ Shaped(weeks'[x'.week].children, cats', x'.at)
                                \/ Shaped(weeks'[x'.week].children, cats', Len(cats') + x'.at)
       /\ x'.pc = "child failed" =>
             Failures(weeks'[x'.week].children) = {Len(weeks'[x'.week].children)}
  BY <1>t, <1>9 DEF WeekKnown
<1>11. x'.pc \in Classifying => /\ Shaped(weeks'[x'.week].children, cats', x'.at)
                               /\ ClassifiedUpTo(x.batch, cats, x.at - 1)'
  <2>1. x.at - 1 \in 0..Len(cats) /\ x'.at = x.at
    BY <1>1
  <2>2. QED BY <1>t, <1>3, <1>9, <2>1 DEF WeekKnown
<1>12. x'.pc \in ClusteringNow => /\ Shaped(weeks'[x'.week].children, cats', Len(cats') + x'.at)
                                 /\ ClassifiedUpTo(x.batch, cats, Len(cats))'
                                 /\ ClusteredUpTo(x.batch, cats, x.at - 1)'
  <2>1. x.at - 1 \in 0..Len(cats) /\ Len(cats) \in 0..Len(cats) /\ x'.at = x.at /\ cats' = cats
    BY <1>1
  <2>2. QED BY <1>t, <1>3, <1>9, <2>1 DEF WeekKnown
<1>13. x'.pc \in Ending => /\ Shaped(weeks'[x'.week].children, cats', 1 + 2 * Len(cats'))
                          /\ ClusteredUpTo(x.batch, cats, Len(cats))'
  <2>1. Len(cats) \in 0..Len(cats) /\ cats' = cats
    BY <1>1
  <2>2. QED BY <1>t, <1>3, <1>9, <2>1 DEF WeekKnown
<1>14. QED BY <1>2, <1>7, <1>8, <1>10, <1>11, <1>12, <1>13 DEF WeekKnown

\* A week as sound as it was: its row is what it was, and so is what was
\* completed of its key.
LEMMA WeekStays ==
    ASSUME WeekInv, NEW n \in DOMAIN weeks, n \in DOMAIN weeks', weeks'[n] = weeks[n],
           clustered \subseteq clustered', CompletedStay,
           weeks[n].status = "completed" =>
               W!CompletedWeeks(weeks[n].batch, weeks[n].categories)' =
               W!CompletedWeeks(weeks[n].batch, weeks[n].categories)
    PROVE  WeekSound(n)'
<1>1. WeekSound(n) /\ W!TypeOK
  BY DEF WeekInv
<1>2. weeks[n].batch \in Batches /\ weeks[n].categories \in CategoryLists
  BY <1>1, RowOf
<1>3. W!CompletedWeeks(weeks[n].batch, weeks[n].categories) # {} =>
          W!CompletedWeeks(weeks[n].batch, weeks[n].categories)' # {}
  BY <1>2 DEF CompletedStay
<1>4. ClusteredUpTo(weeks[n].batch, weeks[n].categories, Len(weeks[n].categories)) =>
          ClusteredUpTo(weeks[n].batch, weeks[n].categories, Len(weeks[n].categories))'
  BY DEF ClusteredUpTo
<1>5. QED BY <1>1, <1>3, <1>4 DEF WeekSound

LEMMA NothingCompleted ==
    ASSUME W!TypeOK, W!TypeOK', NEW b, NEW cats,
           \A n \in DOMAIN weeks : /\ n \in DOMAIN weeks' /\ weeks'[n].batch = weeks[n].batch
                                   /\ weeks'[n].categories = weeks[n].categories
                                   /\ (weeks'[n].status = "completed") <=> (weeks[n].status = "completed"),
           \A n \in DOMAIN weeks' \ DOMAIN weeks : weeks'[n].status # "completed"
    PROVE  W!CompletedWeeks(b, cats)' = W!CompletedWeeks(b, cats)
BY DEF W!CompletedWeeks, W!SameWeek

\* What the steps that leave the weeks and the runs alone have in common.
LEMMA Quiet ==
    ASSUME WeekInv, NEW w \in Workers, NEW new \in W!WorkerRow, new.at \in DOMAIN new.categories,
           worker' = [worker EXCEPT ![w] = new],
           UNCHANGED <<classified, clustered, weeks>>,
           batch' \in [Batches -> [rows : 0..MaxRows, frozen : BOOLEAN,
                                   holder : Workers \cup {Hand, NoOne}]],
           \A b \in Batches :
               /\ batch'[b].frozen = batch[b].frozen
               /\ batch[b].rows # 0 => batch'[b].rows = batch[b].rows
               /\ \/ batch'[b].holder = batch[b].holder
                  \/ batch[b].holder = NoOne /\ batch'[b].holder = w
                  \/ batch[b].holder = w /\ batch'[b].holder = NoOne,
           Owns(w)' => Owns(w) /\ new.week = worker[w].week,
           BatchKnown(w)' /\ WeekKnown(w)'
    PROVE  WeekInv'
<1>t. W!TypeOK /\ RunsSound /\ BatchesSound /\ OwnWeeks
  BY DEF WeekInv
<1>f. worker \in [Workers -> W!WorkerRow]
  BY <1>t DEF W!TypeOK
<1>g. worker'[w] = new /\ \A v \in Workers \ {w} : worker'[v] = worker[v]
  BY <1>f
<1>1. W!TypeOK'
  <2>1. worker' \in [Workers -> W!WorkerRow] /\ \A v \in Workers : worker'[v].at \in DOMAIN worker'[v].categories
    BY <1>t, <1>f, <1>g DEF W!TypeOK
  <2>2. QED BY <1>t, <2>1 DEF W!TypeOK
<1>2. Persists
  <2>1. ASSUME NEW b \in Batches, batch[b].rows > 0 PROVE batch'[b].rows > 0
    BY <2>1, <1>t, BatchTypes
  <2>2. QED BY <2>1 DEF Persists
<1>3. \A b, cats : W!CompletedWeeks(b, cats)' = W!CompletedWeeks(b, cats)
  BY DEF W!CompletedWeeks, W!SameWeek
<1>4. CompletedStay
  BY <1>3 DEF CompletedStay
<1>5. BatchesSound'
  <2> SUFFICES ASSUME NEW b \in Batches, batch'[b].holder = Hand
               PROVE ~batch'[b].frozen /\ batch'[b].rows \in 1..(MaxRows - 1)
    BY DEF BatchesSound
  <2>1. batch[b].holder = Hand
    BY PipelineAssumption
  <2>2. QED BY <2>1, <1>t, BatchTypes DEF BatchesSound
<1>6. RunsSound'
  <2> SUFFICES ASSUME NEW k \in W!Keys, classified[k] # 0
               PROVE classified[k] = batch'[k[1]].rows /\ batch'[k[1]].frozen
    BY <1>t DEF RunsSound
  <2>1. k[1] \in Batches
    BY DEF W!Keys
  <2>2. QED BY <2>1, <1>t, BatchTypes DEF RunsSound
<1>7. ASSUME NEW v \in Workers PROVE BatchKnown(v)' /\ WeekKnown(v)'
  <2>1. CASE v = w
    BY <2>1
  <2>2. CASE v # w
    <3>1. worker'[v] = worker[v]
      BY <2>2, <1>g
    <3>2. worker[v].batch \in Batches
      BY <1>t, WeekTypes
    <3>3. BatchKnown(v)
      BY DEF WeekInv
    <3>4. worker[v].pc = "reading" => /\ batch'[worker[v].batch].holder = v
                                      /\ batch'[worker[v].batch].rows = batch[worker[v].batch].rows
      BY <3>2, <3>3, <2>2, <1>t, BatchTypes, PipelineAssumption DEF BatchKnown
    <3>5. worker[v].pc = "waiting" => batch'[worker[v].batch].rows = batch[worker[v].batch].rows
      BY <3>2, <3>3, <1>t, BatchTypes DEF BatchKnown
    <3>6. QED BY <3>1, <3>4, <3>5, <1>1, <1>2, <1>4, OthersKnow
  <2>3. QED BY <2>1, <2>2
<1>8. OwnWeeks'
  <2>1. \A v \in Workers : Owns(v)' => Owns(v) /\ worker'[v].week = worker[v].week
    BY <1>g DEF Owns
  <2>2. QED BY <2>1, <1>t DEF OwnWeeks
<1>9. ASSUME NEW n \in DOMAIN weeks' PROVE WeekSound(n)'
  BY <1>3, <1>4, WeekStays
<1>10. QED BY <1>1, <1>5, <1>6, <1>7, <1>8, <1>9 DEF WeekInv

\* Only the holder of a row changes, from nobody to the worker or back.
HoldsOnly(w) ==
    /\ batch' \in [Batches -> [rows : 0..MaxRows, frozen : BOOLEAN,
                               holder : Workers \cup {Hand, NoOne}]]
    /\ \A b \in Batches :
        /\ batch'[b].frozen = batch[b].frozen /\ batch'[b].rows = batch[b].rows
        /\ \/ batch'[b].holder = batch[b].holder
           \/ batch[b].holder = NoOne /\ batch'[b].holder = w
           \/ batch[b].holder = w /\ batch'[b].holder = NoOne

LEMMA HeldStill ==
    ASSUME W!TypeOK, NEW w, UNCHANGED batch PROVE HoldsOnly(w)
BY DEF W!TypeOK, HoldsOnly

LEMMA HeldNow ==
    ASSUME W!TypeOK, NEW w \in Workers, NEW b \in Batches, batch[b].holder = NoOne,
           batch' = [batch EXCEPT ![b].holder = w]
    PROVE  HoldsOnly(w) /\ batch'[b].holder = w
BY DEF W!TypeOK, HoldsOnly

LEMMA HeldNoMore ==
    ASSUME W!TypeOK, NEW w \in Workers, NEW b \in Batches, batch[b].holder = w, W!Release(b)
    PROVE  HoldsOnly(w)
BY DEF W!TypeOK, HoldsOnly, W!Release

\* The steps that move a worker on within what it is doing.
LEMMA QuietMove ==
    ASSUME WeekInv, NEW w \in Workers, NEW new \in W!WorkerRow,
           worker' = [worker EXCEPT ![w] = new],
           UNCHANGED <<classified, clustered, weeks>>, HoldsOnly(w),
           /\ new.batch = worker[w].batch /\ new.categories = worker[w].categories
           /\ new.week = worker[w].week /\ new.at = worker[w].at,
           worker[w].pc # "idle",
           new.pc \notin {"idle", "batch", "begun", "child failed", "finish"},
           new.pc = "fresh" => worker[w].pc = "batch",
           new.pc \in Classifying => worker[w].pc \in Classifying,
           new.pc \in ClusteringNow => worker[w].pc \in ClusteringNow,
           new.pc = "superseded" =>
               /\ worker[w].pc = "finish"
               /\ W!CompletedWeeks(worker[w].batch, worker[w].categories) # {},
           new.pc = "failing" => worker[w].pc \in Classifying \cup ClusteringNow,
           new.pc = "classified" => classified[W!Key(w)] # 0,
           new.pc \in {"repeated", "clustered"} => W!Key(w) \in clustered,
           new.pc = "reading" => /\ batch'[new.batch].holder = w
                                 /\ new.rows = batch[new.batch].rows,
           new.pc = "waiting" => new.stale \/ new.rows = batch[new.batch].rows
    PROVE  WeekInv'
<1> DEFINE x == worker[w]
           cats == x.categories
<1>t. W!TypeOK /\ BatchKnown(w) /\ WeekKnown(w) /\ worker \in [Workers -> W!WorkerRow]
  BY DEF WeekInv, W!TypeOK
<1>1. worker'[w] = new
  BY <1>t
<1>2. /\ x.batch \in Batches /\ cats \in CategoryLists /\ x.at \in 1..Len(cats) /\ Len(cats) \in Nat
      /\ W!Key(w)' = W!Key(w) /\ new.at \in DOMAIN new.categories
  BY <1>t, <1>1, KeyIs, Lists DEF W!Key, W!Category
<1>3. new.pc \in {"fresh", "failing", "superseded"} \cup Classifying \cup ClusteringNow
  <2>1. new.pc \in {"idle", "batch", "fresh", "begun",
           "classify", "freeze", "waiting", "reading", "refused", "duplicate", "classified",
           "cluster", "insert", "engine", "repeated", "clustered",
           "failing", "child failed", "finish", "superseded"}
    BY DEF W!WorkerRow
  <2>2. QED BY <2>1 DEF Classifying, ClusteringNow
<1>4. Owns(w)' => Owns(w)
  BY <1>1, <1>3 DEF Owns, Classifying, ClusteringNow
<1>5. /\ \A b, cs : W!CompletedWeeks(b, cs)' = W!CompletedWeeks(b, cs)
      /\ \A b, cs, m : /\ ClassifiedUpTo(b, cs, m)' <=> ClassifiedUpTo(b, cs, m)
                       /\ ClusteredUpTo(b, cs, m)' <=> ClusteredUpTo(b, cs, m)
  BY DEF W!CompletedWeeks, W!SameWeek, ClassifiedUpTo, ClusteredUpTo
<1>6. BatchKnown(w)'
  <2>1. batch'[x.batch].rows = batch[x.batch].rows
    BY <1>2 DEF HoldsOnly
  <2>2. QED BY <1>1, <1>t, <2>1 DEF BatchKnown
<1>7. WeekKnown(w)'
  <2>1. /\ new.pc \in {"batch", "fresh", "begun"} => new.at = 1
        /\ Owns(w)' => /\ new.week \in DOMAIN weeks /\ weeks[new.week].status = "running"
                       /\ weeks[new.week].batch = new.batch /\ weeks[new.week].categories = new.categories
    BY <1>1, <1>t, <1>4 DEF WeekKnown
  <2>2. new.pc \in Classifying => /\ Shaped(weeks[new.week].children, cats, x.at)
                                  /\ ClassifiedUpTo(x.batch, cats, x.at - 1)
    BY <1>t DEF WeekKnown
  <2>3. new.pc \in ClusteringNow => /\ Shaped(weeks[new.week].children, cats, Len(cats) + x.at)
                                    /\ ClassifiedUpTo(x.batch, cats, Len(cats))
                                    /\ ClusteredUpTo(x.batch, cats, x.at - 1)
    BY <1>t DEF WeekKnown
  <2>4. new.pc \in Ending => /\ Shaped(weeks[new.week].children, cats, 1 + 2 * Len(cats))
                             /\ ClusteredUpTo(x.batch, cats, Len(cats))
    BY <1>t DEF WeekKnown, Ending
  <2>5. new.pc = "failing" => \/ Shaped(weeks[new.week].children, cats, x.at)
                              \/ Shaped(weeks[new.week].children, cats, Len(cats) + x.at)
    BY <1>t DEF WeekKnown
  <2>6. QED BY <1>1, <1>2, <1>5, <2>1, <2>2, <2>3, <2>4, <2>5 DEF WeekKnown
<1>8. QED BY <1>1, <1>2, <1>4, <1>6, <1>7, Quiet DEF HoldsOnly, Owns


LEMMA QuietGo ==
    ASSUME WeekInv, NEW w \in Workers,
           NEW pc \in {"fresh", "classify", "freeze", "reading", "refused", "duplicate", "classified",
                       "cluster", "insert", "engine", "repeated", "clustered", "failing", "superseded"},
           W!Go(w, pc), UNCHANGED <<classified, clustered, weeks>>, HoldsOnly(w),
           worker[w].pc # "idle",
           pc = "fresh" => worker[w].pc = "batch",
           pc \in Classifying => worker[w].pc \in Classifying,
           pc \in ClusteringNow => worker[w].pc \in ClusteringNow,
           pc = "superseded" =>
               /\ worker[w].pc = "finish"
               /\ W!CompletedWeeks(worker[w].batch, worker[w].categories) # {},
           pc = "failing" => worker[w].pc \in Classifying \cup ClusteringNow,
           pc = "classified" => classified[W!Key(w)] # 0,
           pc \in {"repeated", "clustered"} => W!Key(w) \in clustered,
           pc = "reading" => /\ batch'[worker[w].batch].holder = w
                             /\ worker[w].rows = batch[worker[w].batch].rows
    PROVE  WeekInv'
<1>t. W!TypeOK
  BY DEF WeekInv
<1> DEFINE new == [worker[w] EXCEPT !.pc = pc]
<1>1. /\ new \in W!WorkerRow /\ new.pc = pc /\ new.batch = worker[w].batch
      /\ new.categories = worker[w].categories /\ new.week = worker[w].week /\ new.at = worker[w].at
      /\ new.rows = worker[w].rows /\ new.stale = worker[w].stale
  <2>1. worker[w] \in W!WorkerRow
    BY <1>t DEF W!TypeOK
  <2>2. QED BY <2>1 DEF W!WorkerRow
<1>2. worker' = [worker EXCEPT ![w] = new]
  BY DEF W!Go, W!Become
<1> HIDE DEF new
<1>3. /\ new.pc \notin {"idle", "batch", "begun", "child failed", "finish"}
      /\ new.pc # "waiting"
  BY <1>1
<1>4. /\ new.pc = "fresh" => worker[w].pc = "batch"
      /\ new.pc \in Classifying => worker[w].pc \in Classifying
      /\ new.pc \in ClusteringNow => worker[w].pc \in ClusteringNow
      /\ new.pc = "superseded" =>
             /\ worker[w].pc = "finish"
             /\ W!CompletedWeeks(worker[w].batch, worker[w].categories) # {}
      /\ new.pc = "failing" => worker[w].pc \in Classifying \cup ClusteringNow
      /\ new.pc = "classified" => classified[W!Key(w)] # 0
      /\ new.pc \in {"repeated", "clustered"} => W!Key(w) \in clustered
  BY <1>1
<1>5. new.pc = "reading" => /\ batch'[new.batch].holder = w
                            /\ new.rows = batch[new.batch].rows
  BY <1>1
<1>6. QED BY ZenonT(60), <1>1, <1>2, <1>3, <1>4, <1>5, QuietMove

LEMMA IdleRow ==
    /\ W!Idle \in W!WorkerRow /\ W!Idle.pc = "idle" /\ W!Idle.at = 1
    /\ W!Idle.at \in DOMAIN W!Idle.categories
<1>1. /\ W!Idle.pc = "idle" /\ W!Idle.batch \in Batches /\ W!Idle.categories \in CategoryLists
      /\ W!Idle.week = 0 /\ W!Idle.at = 1 /\ W!Idle.rows = 0 /\ W!Idle.stale = FALSE
  BY PipelineAssumption DEF W!Idle
<1>2. 0 \in 0..MaxRows /\ 0 \in 0..MaxWeeks
  BY PipelineAssumption
<1>3. QED BY <1>1, <1>2, Lists DEF W!Idle, W!WorkerRow

LEMMA KnowsNothing ==
    ASSUME NEW w, worker'[w].pc = "idle" PROVE BatchKnown(w)' /\ WeekKnown(w)' /\ ~Owns(w)'
BY DEF BatchKnown, WeekKnown, Owns, Classifying, ClusteringNow, Ending

LEMMA QuietIdle ==
    ASSUME WeekInv, NEW w \in Workers, W!Become(w, W!Idle),
           UNCHANGED <<classified, clustered, weeks>>, HoldsOnly(w)
    PROVE  WeekInv'
<1>1. worker'[w] = W!Idle
  BY DEF WeekInv, W!TypeOK, W!Become
<1>2. QED BY <1>1, IdleRow, KnowsNothing, Quiet DEF W!Become, HoldsOnly

LEMMA QuietSteps ==
    ASSUME WeekInv, NEW w \in Workers,
           \/ W!LookForWeek(w) \/ W!LookForClassification(w) \/ W!ClassifiedMeanwhile(w)
           \/ W!LookForClustering(w) \/ W!InsertClustering(w) \/ W!ReportClustered(w)
           \/ W!ChildFails(w) \/ W!Stop(w)
    PROVE  WeekInv'
<1>t. W!TypeOK /\ worker[w].batch \in Batches /\ BatchKnown(w)
  BY WeekTypes DEF WeekInv
<1>1. CASE W!LookForWeek(w)
  BY <1>1, <1>t, HeldStill, QuietIdle, QuietGo DEF W!LookForWeek, Classifying, ClusteringNow
<1>2. CASE W!LookForClassification(w)
  BY <1>2, <1>t, HeldStill, QuietGo DEF W!LookForClassification, Classifying, ClusteringNow
<1>3. CASE W!ClassifiedMeanwhile(w)
  <2>1. batch[worker[w].batch].holder = w
    BY <1>3, <1>t DEF W!ClassifiedMeanwhile, BatchKnown
  <2>2. QED BY <1>3, <1>t, <2>1, HeldNoMore, QuietGo DEF W!ClassifiedMeanwhile, Classifying, ClusteringNow
<1>4. CASE W!LookForClustering(w)
  BY <1>4, <1>t, HeldStill, QuietGo DEF W!LookForClustering, Classifying, ClusteringNow
<1>5. CASE W!InsertClustering(w)
  BY <1>5, <1>t, HeldStill, QuietGo DEF W!InsertClustering, Classifying, ClusteringNow
<1>6. CASE W!ReportClustered(w)
  <2>1. W!Key(w) \in clustered
    BY <1>6 DEF W!ReportClustered, WeekInv, WeekKnown
  <2>2. QED BY <1>6, <1>t, <2>1, HeldStill, QuietGo DEF W!ReportClustered, Classifying, ClusteringNow
<1>7. CASE W!ChildFails(w)
  <2>1. HoldsOnly(w)
    <3>1. CASE worker[w].pc = "reading"
      BY <3>1, <1>7, <1>t, HeldNoMore DEF W!ChildFails, BatchKnown
    <3>2. CASE worker[w].pc # "reading"
      BY <3>2, <1>7, <1>t, HeldStill DEF W!ChildFails
    <3>3. QED BY <3>1, <3>2
  <2>2. QED BY <1>7, <1>t, <2>1, QuietGo DEF W!ChildFails, Classifying, ClusteringNow
<1>8. CASE W!Stop(w)
  <2>1. HoldsOnly(w)
    BY <1>8, <1>t, HeldStill, HeldNoMore DEF W!Stop
  <2>2. QED BY <1>8, <2>1, QuietIdle DEF W!Stop
<1>9. QED BY <1>1, <1>2, <1>3, <1>4, <1>5, <1>6, <1>7, <1>8


LEMMA FreezeStep ==
    ASSUME WeekInv, NEW w \in Workers, W!Freeze(w) PROVE WeekInv'
<1> DEFINE b == worker[w].batch
           free == batch[b].holder = NoOne
           pc == IF free THEN "reading" ELSE "waiting"
           new == [worker[w] EXCEPT !.pc = pc, !.rows = batch[b].rows, !.stale = FALSE]
<1>t. W!TypeOK /\ b \in Batches /\ worker[w] \in W!WorkerRow
  BY WeekTypes DEF WeekInv, W!TypeOK
<1>1. /\ new \in W!WorkerRow /\ new.pc = pc /\ new.week = worker[w].week /\ new.at = worker[w].at
      /\ new.rows = batch[b].rows /\ new.stale = FALSE
      /\ new.batch = worker[w].batch /\ new.categories = worker[w].categories
  BY <1>t, BatchTypes DEF W!WorkerRow
<1>2. /\ worker' = [worker EXCEPT ![w] = new] /\ worker[w].pc = "freeze"
      /\ UNCHANGED <<classified, clustered, weeks>>
      /\ batch' = IF free THEN [batch EXCEPT ![b].holder = w] ELSE batch
  BY DEF W!Freeze, W!Become
<1>3. HoldsOnly(w) /\ (free => batch'[b].holder = w)
  BY <1>t, <1>2, HeldNow, HeldStill
<1>4. pc \in {"reading", "waiting"} /\ pc \in Classifying /\ worker[w].pc \in Classifying
      /\ pc \notin ClusteringNow /\ (pc = "reading" => free)
  BY <1>2 DEF Classifying, ClusteringNow
<1> HIDE DEF new, pc, free, b
<1>5. QED BY <1>1, <1>2, <1>3, <1>4, QuietMove DEF b

LEMMA ReportStep ==
    ASSUME WeekInv, NEW w \in Workers, W!ReportClassified(w) PROVE WeekInv'
<1> DEFINE new == [worker[w] EXCEPT !.pc = "classified", !.rows = 0, !.stale = FALSE]
<1>t. W!TypeOK /\ worker[w] \in W!WorkerRow /\ HoldsOnly(w)
  BY HeldStill DEF WeekInv, W!TypeOK, W!ReportClassified
<1>1. CASE classified[W!Key(w)] # 0
  <2>1. /\ new \in W!WorkerRow /\ new.pc = "classified" /\ new.week = worker[w].week
        /\ new.at = worker[w].at
        /\ new.batch = worker[w].batch /\ new.categories = worker[w].categories
    <3>1. 0 \in 0..MaxRows
      BY PipelineAssumption
    <3>2. QED BY <1>t, <3>1 DEF W!WorkerRow
  <2>2. worker' = [worker EXCEPT ![w] = new] /\ UNCHANGED <<classified, clustered, weeks>>
        /\ worker[w].pc \in {"refused", "duplicate"}
    BY <1>1 DEF W!ReportClassified, W!Become
  <2> HIDE DEF new
  <2>3. worker[w].pc \in Classifying /\ new.pc \notin ClusteringNow
    BY <2>1, <2>2 DEF Classifying, ClusteringNow
  <2>4. QED BY <1>1, <1>t, <2>1, <2>2, <2>3, QuietMove
<1>2. CASE classified[W!Key(w)] = 0
  BY <1>2, <1>t, QuietGo DEF W!ReportClassified, Classifying, ClusteringNow
<1>3. QED BY <1>1, <1>2

LEMMA ResumeStep ==
    ASSUME WeekInv, NEW w \in Workers, W!Resume(w) PROVE WeekInv'
<1>t. W!TypeOK /\ worker[w].batch \in Batches /\ BatchKnown(w)
  BY WeekTypes DEF WeekInv
<1>1. CASE worker[w].stale
  BY <1>1, <1>t, HeldStill, QuietGo DEF W!Resume, W!Unchanged, Classifying, ClusteringNow
<1>2. CASE ~worker[w].stale
  <2>1. worker[w].rows = batch[worker[w].batch].rows
    BY <1>2, <1>t DEF W!Resume, BatchKnown
  <2>2. QED BY <1>2, <1>t, <2>1, HeldNow, QuietGo DEF W!Resume, W!Unchanged, Classifying, ClusteringNow
<1>3. QED BY <1>1, <1>2

LEMMA AskStep ==
    ASSUME WeekInv, NEW w \in Workers, W!AskWeek(w) PROVE WeekInv'
<1>t. W!TypeOK
  BY DEF WeekInv
<1>1. PICK b \in Batches, cats \in CategoryLists :
        /\ batch' = IF batch[b].rows = 0 THEN [batch EXCEPT ![b].rows = 1] ELSE batch
        /\ worker' = [worker EXCEPT ![w] = [W!Idle EXCEPT !.pc = "batch", !.batch = b, !.categories = cats]]
        /\ UNCHANGED <<classified, clustered, weeks>> /\ worker[w].pc = "idle"
  BY DEF W!AskWeek, W!Become
<1> DEFINE new == [W!Idle EXCEPT !.pc = "batch", !.batch = b, !.categories = cats]
<1>2. /\ new \in W!WorkerRow /\ new.pc = "batch" /\ new.batch = b /\ new.categories = cats /\ new.at = 1
  BY IdleRow DEF W!WorkerRow
<1>3. new.at \in DOMAIN new.categories
  BY <1>2, Lists
<1>4. batch' \in [Batches -> [rows : 0..MaxRows, frozen : BOOLEAN, holder : Workers \cup {Hand, NoOne}]]
  <2>1. 1 \in 0..MaxRows
    BY PipelineAssumption
  <2>2. batch \in [Batches -> [rows : 0..MaxRows, frozen : BOOLEAN, holder : Workers \cup {Hand, NoOne}]]
    BY <1>t DEF W!TypeOK
  <2>3. [batch[b] EXCEPT !.rows = 1] \in [rows : 0..MaxRows, frozen : BOOLEAN, holder : Workers \cup {Hand, NoOne}]
    BY <2>1, <2>2
  <2>4. QED BY <1>1, <2>2, <2>3
<1>5. \A a \in Batches :
        /\ batch'[a].frozen = batch[a].frozen /\ batch'[a].holder = batch[a].holder
        /\ batch[a].rows # 0 => batch'[a].rows = batch[a].rows
  BY <1>1, <1>t DEF W!TypeOK
<1>6. batch'[b].rows > 0
  BY <1>1, <1>t, BatchTypes DEF W!TypeOK
<1> HIDE DEF new
<1>7. worker' = [worker EXCEPT ![w] = new] /\ worker'[w] = new
  BY <1>1, <1>t DEF new, W!TypeOK
<1>8. BatchKnown(w)' /\ WeekKnown(w)' /\ ~Owns(w)'
  BY <1>2, <1>6, <1>7 DEF BatchKnown, WeekKnown, Owns, Classifying, ClusteringNow, Ending
<1>9. QED BY <1>1, <1>2, <1>3, <1>4, <1>5, <1>7, <1>8, Quiet

LEMMA SameWeeks ==
    ASSUME WeekInv, UNCHANGED weeks, clustered \subseteq clustered'
    PROVE  /\ CompletedStay
           /\ \A n \in DOMAIN weeks' : WeekSound(n)'
<1>1. \A b, cats : W!CompletedWeeks(b, cats)' = W!CompletedWeeks(b, cats)
  BY DEF W!CompletedWeeks, W!SameWeek
<1>2. CompletedStay
  BY <1>1 DEF CompletedStay
<1>3. QED BY <1>1, <1>2, WeekStays

LEMMA ClusterStep ==
    ASSUME WeekInv, NEW w \in Workers, W!Cluster(w) PROVE WeekInv'
<1> DEFINE x == worker[w]
           cats == x.categories
           new == [x EXCEPT !.pc = "clustered"]
<1>t. W!TypeOK /\ RunsSound /\ BatchesSound /\ OwnWeeks /\ BatchKnown(w) /\ WeekKnown(w)
      /\ x \in W!WorkerRow /\ worker \in [Workers -> W!WorkerRow]
  BY DEF WeekInv, W!TypeOK
<1>1. CASE W!Key(w) \in Oversized
  BY <1>1, <1>t, HeldStill, QuietGo DEF W!Cluster, Classifying, ClusteringNow
<1>2. CASE W!Key(w) \notin Oversized
  <2>1. /\ x.pc = "engine" /\ clustered' = clustered \cup {W!Key(w)} /\ UNCHANGED <<batch, classified, weeks>>
        /\ worker' = [worker EXCEPT ![w] = new]
    BY <1>2 DEF W!Cluster, W!Go, W!Become
  <2>2. /\ new \in W!WorkerRow /\ new.pc = "clustered" /\ new.batch = x.batch /\ new.categories = cats
        /\ new.week = x.week /\ new.at = x.at /\ new.rows = x.rows /\ new.stale = x.stale
    BY <1>t DEF W!WorkerRow
  <2> HIDE DEF new
  <2>3. worker'[w] = new /\ \A v \in Workers \ {w} : worker'[v] = worker[v]
    BY <1>t, <2>1
  <2>4. /\ x.batch \in Batches /\ cats \in CategoryLists /\ x.at \in 1..Len(cats) /\ Len(cats) \in Nat
        /\ W!Key(w) \in W!Keys /\ W!Key(w) = <<x.batch, cats[x.at]>> /\ W!Key(w)' = W!Key(w)
        /\ x.at \in DOMAIN cats
    BY <1>t, <2>2, <2>3, KeyIs, Lists DEF W!Key, W!Category
  <2>5. classified[W!Key(w)] # 0
    BY <1>t, <2>1, <2>4 DEF WeekKnown, ClusteringNow, ClassifiedUpTo
  <2>6. W!TypeOK'
    <3>1. worker' \in [Workers -> W!WorkerRow] /\ \A v \in Workers : worker'[v].at \in DOMAIN worker'[v].categories
      BY <1>t, <2>1, <2>2, <2>3, <2>4 DEF W!TypeOK
    <3>2. QED BY <1>t, <2>1, <2>4, <3>1 DEF W!TypeOK
  <2>7. BatchesSound' /\ RunsSound'
    BY <1>t, <2>1, <2>5 DEF BatchesSound, RunsSound
  <2>8. Persists /\ CompletedStay /\ \A n \in DOMAIN weeks' : WeekSound(n)'
    BY <2>1, SameWeeks DEF Persists
  <2>9. ASSUME NEW v \in Workers \ {w} PROVE BatchKnown(v)' /\ WeekKnown(v)'
    <3>1. BatchKnown(v)
      BY DEF WeekInv
    <3>2. QED BY <2>1, <2>3, <2>6, <2>8, <3>1, OthersKnow DEF BatchKnown
  <2>10. BatchKnown(w)'
    BY <1>t, <2>1, <2>2, <2>3 DEF BatchKnown
  <2>11. WeekKnown(w)'
    <3>1. /\ ClassifiedUpTo(x.batch, cats, Len(cats))' <=> ClassifiedUpTo(x.batch, cats, Len(cats))
          /\ ClusteredUpTo(x.batch, cats, x.at - 1) => ClusteredUpTo(x.batch, cats, x.at - 1)'
      BY <2>1, <2>2, <2>3 DEF ClassifiedUpTo, ClusteredUpTo
    <3>2. Owns(w) /\ W!Key(w) \in clustered'
      BY <2>1 DEF Owns
    <3>3. /\ new.pc \notin {"batch", "fresh", "begun", "classified", "superseded", "failing", "child failed"}
          /\ new.pc \notin Classifying /\ new.pc \notin Ending /\ x.pc \in ClusteringNow
      BY <2>1, <2>2 DEF Classifying, Ending, ClusteringNow
    <3>4. QED BY <1>t, <2>1, <2>2, <2>3, <2>4, <3>1, <3>2, <3>3 DEF WeekKnown, Owns
  <2>12. OwnWeeks'
    BY <1>t, <2>1, <2>2, <2>3 DEF OwnWeeks, Owns
  <2>13. QED BY <2>6, <2>7, <2>8, <2>9, <2>10, <2>11, <2>12 DEF WeekInv
<1>3. QED BY <1>1, <1>2

LEMMA InsertRowStep ==
    ASSUME WeekInv, NEW b \in Batches, W!InsertRow(b) PROVE WeekInv'
<1>t. W!TypeOK /\ RunsSound /\ BatchesSound /\ OwnWeeks
  BY DEF WeekInv
<1>1. /\ UNCHANGED <<classified, clustered, weeks, worker>> /\ batch[b].holder = NoOne
      /\ batch[b].rows \in 1..(MaxRows - 1) /\ ~batch[b].frozen
      /\ batch' = [batch EXCEPT ![b].holder = Hand]
  BY DEF W!InsertRow, W!Amendable
<1>2. W!TypeOK'
  BY <1>t, <1>1 DEF W!TypeOK
<1>3. \A a \in Batches : /\ batch'[a].rows = batch[a].rows /\ batch'[a].frozen = batch[a].frozen
                         /\ batch'[a].holder = IF a = b THEN Hand ELSE batch[a].holder
  BY <1>t, <1>1 DEF W!TypeOK
<1>4. BatchesSound'
  BY <1>t, <1>1, <1>3 DEF BatchesSound
<1>5. RunsSound'
  BY <1>t, <1>1, <1>3 DEF RunsSound, W!Keys
<1>6. Persists /\ CompletedStay /\ \A n \in DOMAIN weeks' : WeekSound(n)'
  BY <1>1, <1>3, SameWeeks DEF Persists
<1>7. ASSUME NEW v \in Workers PROVE BatchKnown(v)' /\ WeekKnown(v)'
  <2>1. BatchKnown(v) /\ worker[v].batch \in Batches
    BY <1>t, WeekTypes DEF WeekInv
  <2>2. worker[v].pc = "reading" => worker[v].batch # b
    BY <1>1, <2>1, PipelineAssumption DEF BatchKnown
  <2>3. QED BY <1>1, <1>2, <1>3, <1>6, <2>1, <2>2, OthersKnow DEF BatchKnown
<1>8. OwnWeeks'
  BY <1>t, <1>1 DEF OwnWeeks, Owns
<1>9. QED BY <1>2, <1>4, <1>5, <1>6, <1>7, <1>8 DEF WeekInv

\* Raising the flag of those that wait changes nothing else of a worker.
LEMMA StaleRows ==
    ASSUME W!TypeOK, NEW b, NEW ws \in [Workers -> W!WorkerRow], worker' = W!Stale(b, ws)
    PROVE  /\ worker' \in [Workers -> W!WorkerRow]
           /\ \A v \in Workers :
                /\ worker'[v].pc = ws[v].pc /\ worker'[v].batch = ws[v].batch
                /\ worker'[v].categories = ws[v].categories /\ worker'[v].week = ws[v].week
                /\ worker'[v].at = ws[v].at /\ worker'[v].rows = ws[v].rows
                /\ ws[v].stale => worker'[v].stale
                /\ ws[v].pc = "waiting" /\ ws[v].batch = b => worker'[v].stale
<1> DEFINE raised(v) == [ws[v] EXCEPT !.stale = TRUE]
<1>1. ASSUME NEW v \in Workers
      PROVE  /\ raised(v) \in W!WorkerRow /\ raised(v).pc = ws[v].pc /\ raised(v).batch = ws[v].batch
             /\ raised(v).categories = ws[v].categories /\ raised(v).week = ws[v].week
             /\ raised(v).at = ws[v].at /\ raised(v).rows = ws[v].rows /\ raised(v).stale = TRUE
  <2>1. ws[v] \in W!WorkerRow
    OBVIOUS
  <2>2. QED BY <2>1 DEF W!WorkerRow
<1>2. worker' = [v \in Workers |-> IF ws[v].pc = "waiting" /\ ws[v].batch = b THEN raised(v) ELSE ws[v]]
  BY DEF W!Stale
<1> HIDE DEF raised
<1>3. QED BY <1>1, <1>2

LEMMA CommitRowStep ==
    ASSUME WeekInv, NEW b \in Batches, W!CommitRow(b) PROVE WeekInv'
<1>t. W!TypeOK /\ RunsSound /\ BatchesSound /\ OwnWeeks /\ worker \in [Workers -> W!WorkerRow]
  BY DEF WeekInv, W!TypeOK
<1>1. /\ UNCHANGED <<classified, clustered, weeks>> /\ batch[b].holder = Hand
      /\ batch[b].rows \in 1..(MaxRows - 1) /\ ~batch[b].frozen
      /\ batch' = [batch EXCEPT ![b].holder = NoOne, ![b].rows = @ + 1]
      /\ worker' = W!Stale(b, worker)
  BY <1>t DEF W!CommitRow, BatchesSound
<1>2. /\ worker' \in [Workers -> W!WorkerRow]
      /\ \A v \in Workers :
           /\ worker'[v].pc = worker[v].pc /\ worker'[v].batch = worker[v].batch
           /\ worker'[v].categories = worker[v].categories /\ worker'[v].week = worker[v].week
           /\ worker'[v].at = worker[v].at /\ worker'[v].rows = worker[v].rows
           /\ worker[v].stale => worker'[v].stale
           /\ worker[v].pc = "waiting" /\ worker[v].batch = b => worker'[v].stale
  BY <1>t, <1>1, StaleRows
<1>3. batch[b].rows + 1 \in 0..MaxRows /\ batch[b].rows + 1 > 0
  BY <1>1, PipelineAssumption
<1>4. batch' \in [Batches -> [rows : 0..MaxRows, frozen : BOOLEAN, holder : Workers \cup {Hand, NoOne}]]
  <2>1. batch \in [Batches -> [rows : 0..MaxRows, frozen : BOOLEAN, holder : Workers \cup {Hand, NoOne}]]
    BY <1>t DEF W!TypeOK
  <2>2. [batch[b] EXCEPT !.holder = NoOne, !.rows = batch[b].rows + 1]
          \in [rows : 0..MaxRows, frozen : BOOLEAN, holder : Workers \cup {Hand, NoOne}]
    BY <1>3, <2>1
  <2>3. QED BY <1>1, <2>1, <2>2
<1>5. W!TypeOK'
  BY <1>t, <1>1, <1>2, <1>4 DEF W!TypeOK
<1>6. /\ \A a \in Batches : /\ batch'[a].frozen = batch[a].frozen
                            /\ a # b => batch'[a] = batch[a]
      /\ batch'[b].rows = batch[b].rows + 1 /\ batch'[b].holder = NoOne
  BY <1>t, <1>1 DEF W!TypeOK
<1>7. BatchesSound'
  BY <1>t, <1>6, PipelineAssumption DEF BatchesSound
<1>8. RunsSound'
  <2> SUFFICES ASSUME NEW k \in W!Keys, classified[k] # 0
               PROVE classified[k] = batch'[k[1]].rows /\ batch'[k[1]].frozen
    BY <1>t, <1>1 DEF RunsSound
  <2>1. k[1] \in Batches /\ classified[k] = batch[k[1]].rows /\ batch[k[1]].frozen
    BY <1>t DEF W!Keys, RunsSound
  <2>2. k[1] # b
    BY <1>1, <2>1
  <2>3. QED BY <1>6, <2>1, <2>2
<1>9. Persists /\ CompletedStay /\ \A n \in DOMAIN weeks' : WeekSound(n)'
  <2>1. \A a \in Batches : batch[a].rows > 0 => batch'[a].rows > 0
    BY <1>3, <1>6
  <2>2. QED BY <1>1, <2>1, SameWeeks DEF Persists
<1>10. ASSUME NEW v \in Workers PROVE BatchKnown(v)' /\ WeekKnown(v)'
  <2>1. BatchKnown(v) /\ worker[v].batch \in Batches
    BY <1>t, WeekTypes DEF WeekInv
  <2>2. worker[v].pc = "reading" => worker[v].batch # b
    BY <1>1, <2>1, PipelineAssumption DEF BatchKnown
  <2>3. worker[v].pc = "reading" => /\ batch'[worker[v].batch].holder = v
                                    /\ batch'[worker[v].batch].rows = batch[worker[v].batch].rows
    BY <1>6, <2>1, <2>2 DEF BatchKnown
  <2>4. worker[v].pc = "waiting" => \/ worker'[v].stale
                                    \/ batch'[worker[v].batch].rows = batch[worker[v].batch].rows
    BY <1>2, <1>6, <2>1
  <2>5. Owns(v) => weeks'[worker[v].week] = weeks[worker[v].week]
    BY <1>1
  <2>6. QED BY <1>2, <1>5, <1>9, <2>3, <2>4, <2>5, OthersKnow
<1>11. OwnWeeks'
  BY <1>t, <1>2 DEF OwnWeeks, Owns
<1>12. QED BY <1>5, <1>7, <1>8, <1>9, <1>10, <1>11 DEF WeekInv

LEMMA ClassifyStep ==
    ASSUME WeekInv, NEW w \in Workers, W!Classify(w) PROVE WeekInv'
<1> DEFINE x == worker[w]
           cats == x.categories
           b == x.batch
           new == [x EXCEPT !.pc = "classified", !.rows = 0]
           ws == [worker EXCEPT ![w] = new]
<1>t. W!TypeOK /\ RunsSound /\ BatchesSound /\ OwnWeeks /\ BatchKnown(w) /\ WeekKnown(w)
      /\ x \in W!WorkerRow /\ worker \in [Workers -> W!WorkerRow]
  BY DEF WeekInv, W!TypeOK
<1>1. /\ x.pc = "reading" /\ classified[W!Key(w)] = 0
      /\ classified' = [classified EXCEPT ![W!Key(w)] = x.rows]
      /\ batch' = [batch EXCEPT ![b].frozen = TRUE, ![b].holder = NoOne]
      /\ UNCHANGED <<clustered, weeks>>
  BY DEF W!Classify
<1>2. /\ new \in W!WorkerRow /\ new.pc = "classified" /\ new.batch = b /\ new.categories = cats
      /\ new.week = x.week /\ new.at = x.at
  <2>1. 0 \in 0..MaxRows
    BY PipelineAssumption
  <2>2. QED BY <1>t, <2>1 DEF W!WorkerRow
<1>3. ws = [worker EXCEPT ![w].pc = "classified", ![w].rows = 0]
  BY <1>t
<1>4. worker' = W!Stale(b, ws)
  BY <1>3 DEF W!Classify
<1> HIDE DEF new
<1>5. ws \in [Workers -> W!WorkerRow] /\ ws[w] = new /\ \A v \in Workers \ {w} : ws[v] = worker[v]
  BY <1>t, <1>2
<1> HIDE DEF ws
<1>6. /\ worker' \in [Workers -> W!WorkerRow]
      /\ \A v \in Workers :
           /\ worker'[v].pc = ws[v].pc /\ worker'[v].batch = ws[v].batch
           /\ worker'[v].categories = ws[v].categories /\ worker'[v].week = ws[v].week
           /\ worker'[v].at = ws[v].at /\ worker'[v].rows = ws[v].rows
           /\ ws[v].stale => worker'[v].stale
  BY <1>t, <1>4, <1>5, StaleRows
<1>7. /\ b \in Batches /\ cats \in CategoryLists /\ x.at \in 1..Len(cats) /\ Len(cats) \in Nat
      /\ W!Key(w) \in W!Keys /\ W!Key(w) = <<b, cats[x.at]>> /\ W!Key(w)[1] = b
      /\ x.at \in DOMAIN cats /\ x.rows \in 0..MaxRows
  BY <1>t, KeyIs, Lists, WeekTypes
<1>8. /\ worker'[w].pc = "classified" /\ worker'[w].batch = b /\ worker'[w].categories = cats
      /\ worker'[w].week = x.week /\ worker'[w].at = x.at /\ W!Key(w)' = W!Key(w)
  BY <1>2, <1>5, <1>6, <1>7 DEF W!Key, W!Category
<1>9. \A v \in Workers \ {w} :
           /\ worker'[v].pc = worker[v].pc /\ worker'[v].batch = worker[v].batch
           /\ worker'[v].categories = worker[v].categories /\ worker'[v].week = worker[v].week
           /\ worker'[v].at = worker[v].at /\ worker'[v].rows = worker[v].rows
           /\ worker[v].stale => worker'[v].stale
  BY <1>5, <1>6
<1>10. batch[b].holder = w /\ x.rows = batch[b].rows /\ batch[b].rows > 0
  BY <1>t, <1>1 DEF BatchKnown
<1>11. /\ \A a \in Batches : batch'[a].rows = batch[a].rows /\ (a # b => batch'[a] = batch[a])
       /\ batch'[b].frozen = TRUE /\ batch'[b].holder = NoOne
  BY <1>t, <1>1, <1>7 DEF W!TypeOK
<1>12. W!TypeOK'
  <2>1. batch' \in [Batches -> [rows : 0..MaxRows, frozen : BOOLEAN, holder : Workers \cup {Hand, NoOne}]]
    BY <1>t, <1>1 DEF W!TypeOK
  <2>2. classified' \in [W!Keys -> 0..MaxRows]
    BY <1>t, <1>1, <1>7 DEF W!TypeOK
  <2>3. \A v \in Workers : worker'[v].at \in DOMAIN worker'[v].categories
    BY <1>t, <1>7, <1>8, <1>9 DEF W!TypeOK
  <2>4. QED BY <1>t, <1>1, <1>6, <2>1, <2>2, <2>3 DEF W!TypeOK
<1>13. BatchesSound'
  BY <1>t, <1>11, PipelineAssumption DEF BatchesSound
<1>14. \A k \in W!Keys : classified'[k] = IF k = W!Key(w) THEN x.rows ELSE classified[k]
  BY <1>t, <1>1, <1>7 DEF W!TypeOK
<1>15. RunsSound'
  <2>1. ASSUME NEW k \in W!Keys, classified'[k] # 0
        PROVE classified'[k] = batch'[k[1]].rows /\ batch'[k[1]].frozen
    <3>1. k[1] \in Batches
      BY DEF W!Keys
    <3>2. CASE k = W!Key(w)
      BY <3>2, <1>7, <1>10, <1>11, <1>14
    <3>3. CASE k # W!Key(w)
      BY <3>1, <3>3, <2>1, <1>t, <1>11, <1>14 DEF RunsSound
    <3>4. QED BY <3>2, <3>3
  <2>2. ASSUME NEW k \in W!Keys, k \in clustered' PROVE classified'[k] # 0
    BY <2>2, <1>t, <1>1, <1>14 DEF RunsSound
  <2>3. QED BY <2>1, <2>2 DEF RunsSound
<1>16. Persists /\ CompletedStay /\ \A n \in DOMAIN weeks' : WeekSound(n)'
  <2>1. \A k \in W!Keys : classified[k] # 0 => classified'[k] # 0
    BY <1>1, <1>14
  <2>2. QED BY <1>1, <1>11, <2>1, SameWeeks DEF Persists
<1>17. ASSUME NEW v \in Workers \ {w} PROVE BatchKnown(v)' /\ WeekKnown(v)'
  <2>1. BatchKnown(v) /\ worker[v].batch \in Batches
    BY <1>t, WeekTypes DEF WeekInv
  <2>2. worker[v].pc = "reading" => /\ batch'[worker[v].batch].holder = v
                                    /\ batch'[worker[v].batch].rows = batch[worker[v].batch].rows
    BY <1>10, <1>11, <2>1 DEF BatchKnown
  <2>3. worker[v].pc = "waiting" => batch'[worker[v].batch].rows = batch[worker[v].batch].rows
    BY <1>11, <2>1
  <2>4. Owns(v) => weeks'[worker[v].week] = weeks[worker[v].week]
    BY <1>1
  <2>5. QED BY <1>9, <1>12, <1>16, <2>2, <2>3, <2>4, OthersKnow
<1>18. BatchKnown(w)'
  BY <1>7, <1>8, <1>10, <1>11 DEF BatchKnown
<1>19. WeekKnown(w)'
  <2>1. ClassifiedUpTo(b, cats, x.at - 1) => ClassifiedUpTo(b, cats, x.at - 1)'
    <3>1. \A i \in 1..(x.at - 1) : <<b, cats[i]>> \in W!Keys
      BY <1>7, Lists DEF W!Keys
    <3>2. ASSUME NEW i \in 1..(x.at - 1), classified[<<b, cats[i]>>] # 0
          PROVE classified'[<<b', cats'[i]>>] # 0
      BY <3>1, <3>2, <1>8, <1>16 DEF Persists
    <3>3. QED BY <3>2, <1>8 DEF ClassifiedUpTo
  <2>2. Owns(w) /\ classified'[W!Key(w)'] # 0
    <3>1. Owns(w)
      BY <1>1 DEF Owns
    <3>2. W!Key(w)' = W!Key(w) /\ W!Key(w) \in W!Keys
      BY <1>7, <1>8
    <3>3. classified'[W!Key(w)] # 0
      BY <1>10, <1>14, <3>2
    <3>4. QED BY <3>1, <3>2, <3>3
  <2>3. /\ worker'[w].pc \notin {"batch", "fresh", "begun", "repeated", "clustered", "superseded",
                                 "failing", "child failed"} \cup ClusteringNow \cup Ending
        /\ x.pc \in Classifying
    BY <1>1, <1>8 DEF Classifying, Ending, ClusteringNow
  <2>4. QED BY <1>t, <1>1, <1>8, <2>1, <2>2, <2>3 DEF WeekKnown, Owns
<1>20. OwnWeeks'
  <2>1. \A v \in Workers : Owns(v)' => Owns(v) /\ worker'[v].week = worker[v].week
    BY <1>1, <1>8, <1>9 DEF Owns
  <2>2. QED BY <2>1, <1>t DEF OwnWeeks
<1>21. QED BY <1>12, <1>13, <1>15, <1>16, <1>17, <1>18, <1>19, <1>20 DEF WeekInv

LEMMA BeginStep ==
    ASSUME WeekInv, NEW w \in Workers, W!BeginWeek(w) PROVE WeekInv'
<1> DEFINE x == worker[w]
           row == [batch |-> x.batch, categories |-> x.categories, children |-> <<>>, status |-> "running"]
           new == [x EXCEPT !.pc = "begun", !.week = Len(weeks) + 1]
<1>t. W!TypeOK /\ RunsSound /\ BatchesSound /\ OwnWeeks /\ BatchKnown(w) /\ WeekKnown(w)
      /\ x \in W!WorkerRow /\ worker \in [Workers -> W!WorkerRow] /\ weeks \in Seq(W!Week)
      /\ Len(weeks) <= MaxWeeks
  BY DEF WeekInv, W!TypeOK
<1>1. /\ x.pc = "fresh" /\ Len(weeks) < MaxWeeks /\ weeks' = Append(weeks, row)
      /\ worker' = [worker EXCEPT ![w] = new] /\ UNCHANGED <<batch, classified, clustered>>
  BY DEF W!BeginWeek, W!Become
<1>2. x.batch \in Batches /\ x.categories \in CategoryLists /\ x.at \in DOMAIN x.categories
  BY <1>t, WeekTypes, Lists
<1>3. row \in W!Week /\ row.batch = x.batch /\ row.categories = x.categories
      /\ row.children = <<>> /\ row.status = "running"
  BY <1>2 DEF W!Week
<1>4. Len(weeks) + 1 \in 0..MaxWeeks /\ Len(weeks) \in Nat
  BY <1>t, <1>1, PipelineAssumption
<1>5. /\ new \in W!WorkerRow /\ new.pc = "begun" /\ new.batch = x.batch /\ new.categories = x.categories
      /\ new.week = Len(weeks) + 1 /\ new.at = x.at /\ new.at \in DOMAIN new.categories
  BY <1>t, <1>2, <1>4 DEF W!WorkerRow
<1> HIDE DEF row, new
<1>6. worker'[w] = new /\ \A v \in Workers \ {w} : worker'[v] = worker[v]
  BY <1>t, <1>1
<1>7. /\ weeks' \in Seq(W!Week) /\ Len(weeks') = Len(weeks) + 1 /\ DOMAIN weeks' = 1..(Len(weeks) + 1)
      /\ DOMAIN weeks = 1..Len(weeks)
      /\ weeks'[Len(weeks) + 1] = row /\ \A n \in DOMAIN weeks : weeks'[n] = weeks[n]
  BY <1>t, <1>1, <1>3
<1>8. W!TypeOK'
  <2>1. worker' \in [Workers -> W!WorkerRow] /\ \A v \in Workers : worker'[v].at \in DOMAIN worker'[v].categories
    BY <1>t, <1>1, <1>5, <1>6 DEF W!TypeOK
  <2>2. Len(weeks') <= MaxWeeks
    BY <1>4, <1>7
  <2>3. QED BY <1>t, <1>1, <1>7, <2>1, <2>2 DEF W!TypeOK
<1>9. BatchesSound' /\ RunsSound'
  BY <1>t, <1>1 DEF BatchesSound, RunsSound
<1>10. \A b, cats : W!CompletedWeeks(b, cats)' = W!CompletedWeeks(b, cats)
  <2>1. \A n \in DOMAIN weeks : n \in DOMAIN weeks' /\ weeks'[n] = weeks[n]
    BY <1>4, <1>7
  <2>2. \A n \in DOMAIN weeks' \ DOMAIN weeks : weeks'[n].status # "completed"
    BY <1>3, <1>4, <1>7
  <2>3. QED BY <1>t, <1>8, <2>1, <2>2, NothingCompleted
<1>11. Persists /\ CompletedStay
  BY <1>1, <1>4, <1>7, <1>10 DEF Persists, CompletedStay
<1>12. ASSUME NEW v \in Workers \ {w} PROVE BatchKnown(v)' /\ WeekKnown(v)'
  <2>1. BatchKnown(v) /\ WeekKnown(v)
    BY DEF WeekInv
  <2>2. Owns(v) => weeks'[worker[v].week] = weeks[worker[v].week]
    BY <1>7, <2>1 DEF WeekKnown
  <2>3. QED BY <1>1, <1>6, <1>8, <1>11, <2>1, <2>2, OthersKnow DEF BatchKnown
<1>13. BatchKnown(w)'
  BY <1>t, <1>1, <1>5, <1>6 DEF BatchKnown
<1>14. WeekKnown(w)'
  <2>1. new.week \in DOMAIN weeks' /\ weeks'[new.week] = row
    BY <1>4, <1>5, <1>7
  <2>2. Shaped(row.children, new.categories, 0)
    BY <1>3 DEF Shaped
  <2>3. new.at = 1
    BY <1>t, <1>1, <1>5 DEF WeekKnown
  <2>4. new.pc \notin Classifying \cup ClusteringNow \cup Ending \cup {"failing", "child failed",
            "superseded", "repeated", "clustered", "classified"}
    BY <1>5 DEF Classifying, ClusteringNow, Ending
  <2>5. QED BY <1>3, <1>5, <1>6, <2>1, <2>2, <2>3, <2>4 DEF WeekKnown
<1>15. OwnWeeks'
  <2>1. ASSUME NEW v \in Workers \ {w}, Owns(v)' PROVE worker'[v].week # Len(weeks) + 1 /\ Owns(v)
    <3>1. Owns(v) /\ WeekKnown(v) /\ worker'[v].week = worker[v].week
      BY <2>1, <1>6 DEF Owns, WeekInv
    <3>2. worker[v].week \in DOMAIN weeks
      BY <3>1 DEF WeekKnown
    <3>3. QED BY <3>1, <3>2, <1>4, <1>7
  <2>2. QED BY <1>t, <1>5, <1>6, <2>1 DEF OwnWeeks
<1>16. ASSUME NEW n \in DOMAIN weeks' PROVE WeekSound(n)'
  <2>1. CASE n \in DOMAIN weeks
    BY <2>1, <1>1, <1>7, <1>10, <1>11, WeekStays
  <2>2. CASE n \notin DOMAIN weeks
    <3>1. weeks'[n].status = "running"
      BY <2>2, <1>3, <1>4, <1>7
    <3>2. QED BY <3>1 DEF WeekSound
  <2>3. QED BY <2>1, <2>2
<1>17. QED BY <1>8, <1>9, <1>12, <1>13, <1>14, <1>15, <1>16 DEF WeekInv

\* What a step that writes the row of its own week makes of what is completed.
Completes(row, own) ==
    \A b, cats : W!CompletedWeeks(b, cats)' =
        W!CompletedWeeks(b, cats) \cup
            (IF row.status = "completed" /\ row.batch = b
                    /\ W!CategorySet(row.categories) = W!CategorySet(cats)
               THEN {own} ELSE {})

LEMMA OwnCompletion ==
    ASSUME WeekInv, NEW w \in Workers, Owns(w), NEW row \in W!Week, NEW own, own = worker[w].week,
           weeks' = [weeks EXCEPT ![own] = row],
           row.batch = worker[w].batch, row.categories = worker[w].categories
    PROVE  Completes(row, own)
<1>1. WeekKnown(w) /\ weeks \in Seq(W!Week)
  BY DEF WeekInv, W!TypeOK
<1>2. own \in DOMAIN weeks /\ weeks[own].status = "running"
  BY <1>1 DEF WeekKnown
<1>3. /\ DOMAIN weeks' = DOMAIN weeks
      /\ weeks'[own] = row /\ \A n \in DOMAIN weeks : n # own => weeks'[n] = weeks[n]
  BY <1>1, <1>2
<1>4. QED BY <1>2, <1>3 DEF Completes, W!CompletedWeeks, W!SameWeek

LEMMA OwnRow ==
    ASSUME WeekInv, NEW w \in Workers, Owns(w), NEW row \in W!Week, NEW own, own = worker[w].week,
           weeks' = [weeks EXCEPT ![own] = row],
           row.batch = worker[w].batch, row.categories = worker[w].categories,
           row.status = "completed" => W!CompletedWeeks(worker[w].batch, worker[w].categories) = {},
           UNCHANGED <<batch, classified, clustered>>,
           NEW new \in W!WorkerRow, new.at \in DOMAIN new.categories,
           worker' = [worker EXCEPT ![w] = new],
           Owns(w)' => new.week = worker[w].week,
           BatchKnown(w)' /\ WeekKnown(w)', WeekSound(own)'
    PROVE  WeekInv'
<1> DEFINE x == worker[w]
           mine(b, cats) == IF row.status = "completed" /\ row.batch = b
                                 /\ W!CategorySet(row.categories) = W!CategorySet(cats)
                              THEN {own} ELSE {}
<1>t. W!TypeOK /\ RunsSound /\ BatchesSound /\ OwnWeeks /\ WeekKnown(w)
      /\ worker \in [Workers -> W!WorkerRow] /\ weeks \in Seq(W!Week)
  BY DEF WeekInv, W!TypeOK
<1>1. x.week \in DOMAIN weeks /\ weeks[x.week].status = "running"
      /\ weeks[x.week].batch = x.batch /\ weeks[x.week].categories = x.categories
  BY <1>t DEF WeekKnown
<1>2. worker'[w] = new /\ \A v \in Workers \ {w} : worker'[v] = worker[v]
  BY <1>t
<1>3. /\ weeks' \in Seq(W!Week) /\ DOMAIN weeks' = DOMAIN weeks /\ Len(weeks') = Len(weeks)
      /\ weeks'[x.week] = row /\ \A n \in DOMAIN weeks : n # x.week => weeks'[n] = weeks[n]
  BY <1>t, <1>1
<1>4. W!TypeOK'
  <2>1. worker' \in [Workers -> W!WorkerRow] /\ \A v \in Workers : worker'[v].at \in DOMAIN worker'[v].categories
    BY <1>t, <1>2 DEF W!TypeOK
  <2>2. QED BY <1>t, <1>3, <2>1 DEF W!TypeOK
<1>5. BatchesSound' /\ RunsSound'
  BY <1>t DEF BatchesSound, RunsSound
<1>o. Completes(row, own)
  BY OwnCompletion
<1>6. \A b, cats : W!CompletedWeeks(b, cats)' =
                W!CompletedWeeks(b, cats) \cup
                    (IF row.status = "completed" /\ row.batch = b
                            /\ W!CategorySet(row.categories) = W!CategorySet(cats)
                       THEN {own} ELSE {})
  BY <1>o DEF Completes
<1>7. CompletedStay /\ Persists
  BY <1>3, <1>6 DEF CompletedStay, Persists
<1>8. ASSUME NEW v \in Workers \ {w} PROVE BatchKnown(v)' /\ WeekKnown(v)'
  <2>1. BatchKnown(v) /\ WeekKnown(v)
    BY DEF WeekInv
  <2>2. Owns(v) => weeks'[worker[v].week] = weeks[worker[v].week]
    BY <1>t, <1>3, <2>1 DEF WeekKnown, OwnWeeks
  <2>3. QED BY <1>2, <1>4, <1>7, <2>1, <2>2, OthersKnow DEF BatchKnown
<1>9. OwnWeeks'
  <2>1. \A v \in Workers : Owns(v)' => Owns(v) /\ worker'[v].week = worker[v].week
    BY <1>2 DEF Owns
  <2>2. QED BY <2>1, <1>t DEF OwnWeeks
<1>10. ASSUME NEW n \in DOMAIN weeks' PROVE WeekSound(n)'
  <2>1. CASE n = own
    BY <2>1, <1>6
  <2>2. CASE n # own
    <3>1. n \in DOMAIN weeks /\ weeks'[n] = weeks[n]
      BY <2>2, <1>3
    <3>2. ASSUME weeks[n].status = "completed"
          PROVE  mine(weeks[n].batch, weeks[n].categories) = {}
      <4> SUFFICES ASSUME row.status = "completed", row.batch = weeks[n].batch,
                          W!CategorySet(row.categories) = W!CategorySet(weeks[n].categories)
                   PROVE FALSE
        OBVIOUS
      <4>1. n \in W!CompletedWeeks(x.batch, x.categories)
        BY <3>1, <3>2 DEF W!CompletedWeeks, W!SameWeek
      <4>2. QED BY <4>1
    <3>3. QED BY <3>1, <3>2, <1>6, <1>7, WeekStays
  <2>3. QED BY <2>1, <2>2
<1>11. QED BY <1>4, <1>5, <1>7, <1>8, <1>9, <1>10 DEF WeekInv

LEMMA ShapedGrows ==
    ASSUME NEW cats, NEW ch \in Seq(W!Child), NEW m \in Nat, Shaped(ch, cats, m),
           NEW c \in W!Child, c = Expected(cats, m + 1)
    PROVE  Shaped(Append(ch, c), cats, m + 1)
<1>1. Len(ch) = m /\ \A i \in 1..m : ch[i] = Expected(cats, i)
  BY DEF Shaped
<1>2. Len(Append(ch, c)) = m + 1 /\ Append(ch, c)[m + 1] = c
      /\ \A i \in 1..m : Append(ch, c)[i] = ch[i]
  BY <1>1
<1>3. QED BY <1>1, <1>2 DEF Shaped

LEMMA ExpectedIsDone ==
    ASSUME NEW cats, NEW i PROVE Expected(cats, i).outcome = "done"
BY DEF Expected

LEMMA NoneFailed ==
    ASSUME NEW cats, NEW ch \in Seq(W!Child), NEW m \in Nat, Shaped(ch, cats, m)
    PROVE  Failures(ch) = {}
BY ExpectedIsDone DEF Shaped, Failures

LEMMA OneFailed ==
    ASSUME NEW cats, NEW ch \in Seq(W!Child), NEW m \in Nat, Shaped(ch, cats, m),
           NEW c \in W!Child, c.outcome = "failed"
    PROVE  Failures(Append(ch, c)) = {Len(Append(ch, c))}
<1>1. Len(ch) = m /\ \A i \in 1..m : ch[i].outcome # "failed"
  BY ExpectedIsDone DEF Shaped
<1>2. /\ DOMAIN Append(ch, c) = 1..(m + 1) /\ Len(Append(ch, c)) = m + 1 /\ Append(ch, c)[m + 1] = c
      /\ \A i \in 1..m : Append(ch, c)[i] = ch[i]
  BY <1>1
<1>3. ASSUME NEW i \in 1..(m + 1) PROVE Append(ch, c)[i].outcome = "failed" <=> i = m + 1
  BY <1>1, <1>2
<1>4. QED BY <1>2, <1>3 DEF Failures

\* What the steps that append a child to their week have in common.
LEMMA Recorded ==
    ASSUME WeekInv, NEW w \in Workers, Owns(w), NEW c \in W!Child,
           weeks' = [weeks EXCEPT ![worker[w].week].children = Append(@, c)]
    PROVE  LET own == worker[w].week IN
           /\ own \in DOMAIN weeks' /\ weeks'[own] \in W!Week
           /\ weeks'[own].status = "running" /\ weeks'[own].batch = worker[w].batch
           /\ weeks'[own].categories = worker[w].categories
           /\ weeks'[own].children = Append(weeks[own].children, c)
           /\ weeks' = [weeks EXCEPT ![own] = weeks'[own]]
           /\ weeks[own].children \in Seq(W!Child)
<1> DEFINE own == worker[w].week
           row == [weeks[own] EXCEPT !.children = Append(@, c)]
<1>t. W!TypeOK /\ WeekKnown(w) /\ weeks \in Seq(W!Week)
  BY DEF WeekInv, W!TypeOK
<1>1. own \in DOMAIN weeks /\ weeks[own].status = "running"
      /\ weeks[own].batch = worker[w].batch /\ weeks[own].categories = worker[w].categories
  BY <1>t DEF WeekKnown
<1>2. weeks[own] \in W!Week /\ weeks[own].children \in Seq(W!Child)
  BY <1>t, <1>1, RowOf
<1>3. row \in W!Week /\ row.batch = worker[w].batch /\ row.categories = worker[w].categories
      /\ row.status = "running" /\ row.children = Append(weeks[own].children, c)
  <2>1. Append(weeks[own].children, c) \in Seq(W!Child)
    BY <1>2
  <2>2. QED BY <1>1, <1>2, <2>1 DEF W!Week
<1>4. weeks' = [weeks EXCEPT ![own] = row]
  OBVIOUS
<1> HIDE DEF row
<1>5. own \in DOMAIN weeks' /\ weeks'[own] = row
  BY <1>t, <1>1, <1>4
<1>6. QED BY <1>2, <1>3, <1>4, <1>5

LEMMA RecordStep ==
    ASSUME WeekInv, NEW w \in Workers, Owns(w), NEW c \in W!Child,
           weeks' = [weeks EXCEPT ![worker[w].week].children = Append(@, c)],
           UNCHANGED <<batch, classified, clustered>>,
           NEW new \in W!WorkerRow,
           /\ new.batch = worker[w].batch /\ new.categories = worker[w].categories
           /\ new.week = worker[w].week /\ new.at \in DOMAIN new.categories
           /\ new.pc \notin {"waiting", "reading"} /\ worker[w].pc # "idle",
           worker' = [worker EXCEPT ![w] = new],
           WeekKnown(w)'
    PROVE  WeekInv'
<1>t. W!TypeOK /\ BatchKnown(w) /\ worker \in [Workers -> W!WorkerRow]
  BY DEF WeekInv, W!TypeOK
<1>1. PICK own : own = worker[w].week
  BY Zenon
<1>2. PICK row \in W!Week : /\ row = weeks'[own] /\ row.status = "running"
                            /\ row.batch = worker[w].batch /\ row.categories = worker[w].categories
                            /\ weeks' = [weeks EXCEPT ![own] = row]
  BY <1>1, Recorded
<1>3. worker'[w] = new
  BY <1>t
<1>4. BatchKnown(w)'
  BY <1>t, <1>3 DEF BatchKnown
<1>5. WeekSound(own)'
  BY <1>2 DEF WeekSound
<1>6. row.status # "completed"
  BY <1>2
<1>7. QED BY <1>1, <1>2, <1>4, <1>5, <1>6, OwnRow

LEMMA RecordImportStep ==
    ASSUME WeekInv, NEW w \in Workers, W!RecordImport(w) PROVE WeekInv'
<1> DEFINE x == worker[w]
           cats == x.categories
           new == [x EXCEPT !.pc = "classify"]
           c == [kind |-> "import", category |-> "none", outcome |-> "done"]
           done == weeks[x.week].children
<1>t. W!TypeOK /\ WeekKnown(w) /\ x \in W!WorkerRow /\ worker \in [Workers -> W!WorkerRow]
  BY DEF WeekInv, W!TypeOK
<1>1. /\ x.pc = "begun" /\ weeks' = [weeks EXCEPT ![x.week].children = Append(@, c)]
      /\ worker' = [worker EXCEPT ![w] = new]
      /\ UNCHANGED <<batch, classified, clustered>>
  BY DEF W!RecordImport, W!Record, W!Go, W!Become
<1>2. /\ new \in W!WorkerRow /\ new.pc = "classify" /\ new.batch = x.batch /\ new.categories = cats
      /\ new.week = x.week /\ new.at = x.at
  BY <1>t DEF W!WorkerRow
<1>3. Owns(w) /\ Shaped(done, cats, 0) /\ x.at = 1
  BY <1>t, <1>1 DEF Owns, WeekKnown
<1>4. c \in W!Child /\ c = Expected(cats, 0 + 1)
  BY DEF W!Child, Expected
<1>5. new.at \in DOMAIN new.categories
  BY <1>t, <1>2 DEF W!TypeOK
<1>w. worker' = [worker EXCEPT ![w] = new] /\ worker \in [Workers -> W!WorkerRow]
  BY Zenon, <1>t, <1>1
<1> HIDE DEF new, c, x
<1>6. worker'[w] = new
  BY <1>w
<1> USE DEF x
<1>7. /\ x.week \in DOMAIN weeks' /\ weeks'[x.week].status = "running"
      /\ weeks'[x.week].batch = x.batch /\ weeks'[x.week].categories = cats
      /\ weeks'[x.week].children = Append(done, c) /\ done \in Seq(W!Child)
  BY Zenon, <1>1, <1>3, <1>4, Recorded
<1>8. Shaped(Append(done, c), cats, 1)
  <2>1. Shaped(Append(done, c), cats, 0 + 1)
    BY <1>3, <1>4, <1>7, ShapedGrows
  <2>2. QED BY <2>1
<1>9. WeekKnown(w)'
  <2>1. new.pc \notin {"batch", "fresh", "begun", "classified", "superseded", "failing", "child failed",
                       "repeated", "clustered"} \cup ClusteringNow \cup Ending
    BY <1>2 DEF ClusteringNow, Ending
  <2>2. ClassifiedUpTo(x.batch, cats, x.at - 1)'
    BY <1>2, <1>3, <1>6 DEF ClassifiedUpTo
  <2>3. QED BY <1>2, <1>3, <1>6, <1>7, <1>8, <2>1, <2>2 DEF WeekKnown
<1>10. QED BY <1>1, <1>2, <1>3, <1>4, <1>5, <1>9, RecordStep

LEMMA RecordClassificationStep ==
    ASSUME WeekInv, NEW w \in Workers, W!RecordClassification(w) PROVE WeekInv'
<1> DEFINE x == worker[w]
           cats == x.categories
           last == x.at = Len(cats)
           pc == IF last THEN "cluster" ELSE "classify"
           at == IF last THEN 1 ELSE x.at + 1
           new == [x EXCEPT !.pc = pc, !.at = at]
           c == [kind |-> "classification", category |-> W!Category(w), outcome |-> "done"]
           done == weeks[x.week].children
<1>t. W!TypeOK /\ WeekKnown(w) /\ x \in W!WorkerRow /\ worker \in [Workers -> W!WorkerRow]
  BY DEF WeekInv, W!TypeOK
<1>1. /\ x.pc = "classified" /\ weeks' = [weeks EXCEPT ![x.week].children = Append(@, c)]
      /\ worker' = [worker EXCEPT ![w] = new]
      /\ UNCHANGED <<batch, classified, clustered>>
  BY DEF W!RecordClassification, W!Record, W!Become
<1>2. /\ x.batch \in Batches /\ cats \in CategoryLists /\ x.at \in 1..Len(cats) /\ Len(cats) \in Nat \ {0}
      /\ x.at \in Nat /\ DOMAIN cats = 1..Len(cats)
      /\ W!Key(w) = <<x.batch, cats[x.at]>> /\ W!Category(w) = cats[x.at] /\ W!Category(w) \in W!Categories
  BY <1>t, KeyIs, Lists
<1>a. pc \in {"cluster", "classify"} /\ at \in Nat
  BY <1>2
<1>b. pc = (IF last THEN "cluster" ELSE "classify") /\ at = (IF last THEN 1 ELSE x.at + 1)
  OBVIOUS
<1> HIDE DEF pc, at
<1>c. /\ new \in W!WorkerRow /\ new.batch = x.batch /\ new.categories = cats /\ new.week = x.week
      /\ new.pc = pc /\ new.at = at
  BY <1>t, <1>a DEF W!WorkerRow
<1>3. /\ new \in W!WorkerRow /\ new.batch = x.batch /\ new.categories = cats /\ new.week = x.week
      /\ new.pc = (IF last THEN "cluster" ELSE "classify")
      /\ new.at = (IF last THEN 1 ELSE x.at + 1)
  BY <1>b, <1>c
<1>4. Owns(w) /\ Shaped(done, cats, x.at) /\ ClassifiedUpTo(x.batch, cats, x.at - 1)
      /\ classified[W!Key(w)] # 0
  BY <1>t, <1>1 DEF Owns, WeekKnown, Classifying
<1>5. c \in W!Child /\ c = Expected(cats, x.at + 1)
  <2>1. x.at + 1 # 1 /\ x.at + 1 <= 1 + Len(cats) /\ x.at + 1 - 1 = x.at
    BY <1>2
  <2>2. QED BY <1>2, <2>1 DEF W!Child, Expected
<1>w. worker' = [worker EXCEPT ![w] = new] /\ worker \in [Workers -> W!WorkerRow]
  BY Zenon, <1>t, <1>1
<1> HIDE DEF new, c
<1>6. new.at \in DOMAIN new.categories
  BY <1>2, <1>3
<1> HIDE DEF x
<1>7. worker'[w] = new
  BY <1>w
<1> USE DEF x
<1>8. /\ x.week \in DOMAIN weeks' /\ weeks'[x.week].status = "running"
      /\ weeks'[x.week].batch = x.batch /\ weeks'[x.week].categories = cats
      /\ weeks'[x.week].children = Append(done, c) /\ done \in Seq(W!Child)
  BY Zenon, <1>1, <1>4, <1>5, Recorded
<1>9. Shaped(Append(done, c), cats, x.at + 1)
  BY <1>2, <1>4, <1>5, <1>8, ShapedGrows
<1>10. \A i \in 1..x.at : classified'[<<new.batch, new.categories[i]>>] # 0
  <2>1. \A i \in 1..x.at : i \in 1..(x.at - 1) \/ i = x.at
    BY <1>2
  <2>2. QED BY <1>1, <1>2, <1>3, <1>4, <2>1 DEF ClassifiedUpTo
<1>11. WeekKnown(w)'
  <2>1. CASE last
    <3>1. new.pc = "cluster" /\ new.at = 1 /\ x.at = Len(cats)
      BY <2>1, <1>3
    <3>2. new.pc \notin {"begun", "classified", "superseded", "failing", "child failed",
                         "repeated", "clustered"} \cup Classifying \cup Ending
      BY <3>1 DEF Classifying, Ending
    <3>3. ClassifiedUpTo(x.batch, cats, Len(cats))' /\ ClusteredUpTo(x.batch, cats, x.at - 1)'
      BY <1>3, <1>7, <1>10, <3>1 DEF ClassifiedUpTo, ClusteredUpTo
    <3>4. Shaped(Append(done, c), cats, Len(cats) + new.at)
      BY <1>9, <3>1
    <3>5. QED BY <1>3, <1>7, <1>8, <3>1, <3>2, <3>3, <3>4 DEF WeekKnown
  <2>2. CASE ~last
    <3>1. new.pc = "classify" /\ new.at = x.at + 1 /\ new.at - 1 = x.at
      BY <2>2, <1>2, <1>3
    <3>2. new.pc \notin {"batch", "fresh", "begun", "classified", "superseded", "failing", "child failed",
                         "repeated", "clustered"} \cup ClusteringNow \cup Ending
      BY <3>1 DEF ClusteringNow, Ending
    <3>3. ClassifiedUpTo(x.batch, cats, x.at - 1)'
      BY <1>3, <1>7, <1>10, <3>1 DEF ClassifiedUpTo
    <3>4. QED BY <1>3, <1>7, <1>8, <1>9, <3>1, <3>2, <3>3 DEF WeekKnown
  <2>3. QED BY <2>1, <2>2
<1>12. new.pc \notin {"waiting", "reading"} /\ x.pc # "idle"
  BY <1>1, <1>3
<1>13. QED BY <1>1, <1>3, <1>4, <1>5, <1>6, <1>11, <1>12, RecordStep

LEMMA RecordClusteringStep ==
    ASSUME WeekInv, NEW w \in Workers, W!RecordClustering(w) PROVE WeekInv'
<1> DEFINE x == worker[w]
           cats == x.categories
           last == x.at = Len(cats)
           pc == IF last THEN "finish" ELSE "cluster"
           at == IF last THEN x.at ELSE x.at + 1
           new == [x EXCEPT !.pc = pc, !.at = at]
           c == [kind |-> "clustering", category |-> W!Category(w), outcome |-> "done"]
           done == weeks[x.week].children
<1>t. W!TypeOK /\ WeekKnown(w) /\ x \in W!WorkerRow /\ worker \in [Workers -> W!WorkerRow]
  BY DEF WeekInv, W!TypeOK
<1>1. /\ x.pc = "clustered" /\ weeks' = [weeks EXCEPT ![x.week].children = Append(@, c)]
      /\ worker' = [worker EXCEPT ![w] = new]
      /\ UNCHANGED <<batch, classified, clustered>>
  BY DEF W!RecordClustering, W!Record, W!Become
<1>2. /\ x.batch \in Batches /\ cats \in CategoryLists /\ x.at \in 1..Len(cats) /\ Len(cats) \in Nat \ {0}
      /\ x.at \in Nat /\ DOMAIN cats = 1..Len(cats)
      /\ W!Key(w) = <<x.batch, cats[x.at]>> /\ W!Category(w) = cats[x.at] /\ W!Category(w) \in W!Categories
  BY <1>t, KeyIs, Lists
<1>a. pc \in {"finish", "cluster"} /\ at \in Nat
  BY <1>2
<1>b. pc = (IF last THEN "finish" ELSE "cluster") /\ at = (IF last THEN x.at ELSE x.at + 1)
  OBVIOUS
<1> HIDE DEF pc, at
<1>c. /\ new \in W!WorkerRow /\ new.batch = x.batch /\ new.categories = cats /\ new.week = x.week
      /\ new.pc = pc /\ new.at = at
  BY <1>t, <1>a DEF W!WorkerRow
<1>3. /\ new \in W!WorkerRow /\ new.batch = x.batch /\ new.categories = cats /\ new.week = x.week
      /\ new.pc = (IF last THEN "finish" ELSE "cluster")
      /\ new.at = (IF last THEN x.at ELSE x.at + 1)
  BY <1>b, <1>c
<1>4. Owns(w) /\ Shaped(done, cats, Len(cats) + x.at) /\ ClusteredUpTo(x.batch, cats, x.at - 1)
      /\ ClassifiedUpTo(x.batch, cats, Len(cats)) /\ W!Key(w) \in clustered
  BY <1>t, <1>1 DEF Owns, WeekKnown, ClusteringNow
<1>5. c \in W!Child /\ c = Expected(cats, Len(cats) + x.at + 1)
  <2>1. Len(cats) + x.at + 1 # 1 /\ ~(Len(cats) + x.at + 1 <= 1 + Len(cats))
        /\ Len(cats) + x.at + 1 - 1 - Len(cats) = x.at
    BY <1>2
  <2>2. QED BY <1>2, <2>1 DEF W!Child, Expected
<1>w. worker' = [worker EXCEPT ![w] = new] /\ worker \in [Workers -> W!WorkerRow]
  BY Zenon, <1>t, <1>1
<1> HIDE DEF new, c
<1>6. new.at \in DOMAIN new.categories
  BY <1>2, <1>3
<1> HIDE DEF x
<1>7. worker'[w] = new
  BY <1>w
<1> USE DEF x
<1>8. /\ x.week \in DOMAIN weeks' /\ weeks'[x.week].status = "running"
      /\ weeks'[x.week].batch = x.batch /\ weeks'[x.week].categories = cats
      /\ weeks'[x.week].children = Append(done, c) /\ done \in Seq(W!Child)
  BY Zenon, <1>1, <1>4, <1>5, Recorded
<1>9. Shaped(Append(done, c), cats, Len(cats) + x.at + 1)
  <2>1. Len(cats) + x.at \in Nat
    BY <1>2
  <2>2. QED BY <2>1, <1>4, <1>5, <1>8, ShapedGrows
<1>10. \A i \in 1..x.at : <<new.batch, new.categories[i]>> \in clustered'
  <2>1. \A i \in 1..x.at : i \in 1..(x.at - 1) \/ i = x.at
    BY <1>2
  <2>2. QED BY <1>1, <1>2, <1>3, <1>4, <2>1 DEF ClusteredUpTo
<1>11. WeekKnown(w)'
  <2>1. CASE last
    <3>1. new.pc = "finish" /\ x.at = Len(cats)
      BY <2>1, <1>3
    <3>2. new.pc \notin {"batch", "fresh", "begun", "classified", "superseded", "failing", "child failed",
                         "repeated", "clustered"} \cup Classifying \cup ClusteringNow
      BY <3>1 DEF Classifying, ClusteringNow
    <3>3. ClusteredUpTo(x.batch, cats, Len(cats))'
      BY <1>3, <1>7, <1>10, <3>1 DEF ClusteredUpTo
    <3>4. Len(cats) + x.at + 1 = 1 + 2 * Len(cats)
      BY <1>2, <3>1
    <3>5. Shaped(Append(done, c), cats, 1 + 2 * Len(cats))
      BY <1>9, <3>4
    <3>6. QED BY <1>3, <1>7, <1>8, <3>1, <3>2, <3>3, <3>5 DEF WeekKnown
  <2>2. CASE ~last
    <3>a. new.pc = "cluster" /\ new.at = x.at + 1
      BY Zenon, <2>2, <1>3
    <3>1. new.pc = "cluster" /\ new.at = x.at + 1 /\ new.at - 1 = x.at
          /\ Len(cats) + new.at = Len(cats) + x.at + 1
      <4>1. x.at \in Nat /\ Len(cats) \in Nat
        BY <1>2
      <4> HIDE DEF x, cats
      <4>2. QED BY <3>a, <4>1
    <3>2. new.pc \notin {"batch", "fresh", "begun", "classified", "superseded", "failing", "child failed",
                         "repeated", "clustered"} \cup Classifying \cup Ending
      BY <3>1 DEF Classifying, Ending
    <3>3. ClusteredUpTo(x.batch, cats, x.at - 1)'
      BY <1>3, <1>7, <1>10, <3>1 DEF ClusteredUpTo
    <3>4. ClassifiedUpTo(x.batch, cats, Len(cats))'
      BY <1>1, <1>3, <1>4, <1>7 DEF ClassifiedUpTo
    <3>5. QED BY <1>3, <1>7, <1>8, <1>9, <3>1, <3>2, <3>3, <3>4 DEF WeekKnown
  <2>3. QED BY <2>1, <2>2
<1>12. new.pc \notin {"waiting", "reading"} /\ x.pc # "idle"
  BY <1>1, <1>3
<1>13. QED BY <1>1, <1>3, <1>4, <1>5, <1>6, <1>11, <1>12, RecordStep

LEMMA RecordFailureStep ==
    ASSUME WeekInv, NEW w \in Workers, W!RecordFailure(w) PROVE WeekInv'
<1> DEFINE x == worker[w]
           cats == x.categories
           done == weeks[x.week].children
           kind == IF Len(done) > Len(cats) THEN "clustering" ELSE "classification"
           new == [x EXCEPT !.pc = "child failed"]
           c == [kind |-> kind, category |-> W!Category(w), outcome |-> "failed"]
<1>t. W!TypeOK /\ WeekKnown(w) /\ x \in W!WorkerRow /\ worker \in [Workers -> W!WorkerRow]
  BY DEF WeekInv, W!TypeOK
<1>1. /\ x.pc = "failing" /\ weeks' = [weeks EXCEPT ![x.week].children = Append(@, c)]
      /\ worker' = [worker EXCEPT ![w] = new]
      /\ UNCHANGED <<batch, classified, clustered>>
  BY DEF W!RecordFailure, W!Record, W!Go, W!Become
<1>2. /\ cats \in CategoryLists /\ x.at \in DOMAIN cats /\ x.at \in Nat /\ Len(cats) \in Nat
      /\ W!Category(w) \in W!Categories
  BY <1>t, KeyIs, Lists
<1>3. /\ new \in W!WorkerRow /\ new.pc = "child failed" /\ new.batch = x.batch /\ new.categories = cats
      /\ new.week = x.week /\ new.at = x.at
  BY <1>t DEF W!WorkerRow
<1>4. Owns(w) /\ (Shaped(done, cats, x.at) \/ Shaped(done, cats, Len(cats) + x.at))
  BY <1>t, <1>1 DEF Owns, WeekKnown
<1>5. c \in W!Child /\ c.outcome = "failed"
  BY <1>2 DEF W!Child
<1>w. worker' = [worker EXCEPT ![w] = new] /\ worker \in [Workers -> W!WorkerRow]
  BY Zenon, <1>t, <1>1
<1> HIDE DEF new, c, kind, x
<1>6. worker'[w] = new
  BY <1>w
<1> USE DEF x
<1>7. /\ x.week \in DOMAIN weeks' /\ weeks'[x.week].status = "running"
      /\ weeks'[x.week].batch = x.batch /\ weeks'[x.week].categories = cats
      /\ weeks'[x.week].children = Append(done, c) /\ done \in Seq(W!Child)
  BY Zenon, <1>1, <1>4, <1>5, Recorded
<1>8. Failures(Append(done, c)) = {Len(Append(done, c))}
  <2>1. Len(cats) + x.at \in Nat
    BY <1>2
  <2>2. QED BY <2>1, <1>2, <1>4, <1>5, <1>7, OneFailed
<1>9. WeekKnown(w)'
  <2>1. new.pc \notin {"batch", "fresh", "begun", "classified", "superseded", "failing",
                       "repeated", "clustered"} \cup Classifying \cup ClusteringNow \cup Ending
    BY <1>3 DEF Classifying, ClusteringNow, Ending
  <2>2. QED BY <1>3, <1>6, <1>7, <1>8, <2>1 DEF WeekKnown
<1>10. new.pc \notin {"waiting", "reading"} /\ x.pc # "idle" /\ new.at \in DOMAIN new.categories
  BY <1>1, <1>2, <1>3
<1>11. QED BY <1>1, <1>3, <1>4, <1>5, <1>9, <1>10, RecordStep

\* The steps that end a week: its status is written and the worker is free.
LEMMA EndStep ==
    ASSUME WeekInv, NEW w \in Workers, Owns(w),
           NEW status \in {"completed", "failed", "superseded"}, W!SetStatus(w, status),
           W!Become(w, W!Idle), UNCHANGED <<batch, classified, clustered>>,
           LET done == weeks[worker[w].week].children
               cats == worker[w].categories
           IN  /\ status = "completed" => /\ W!CompletedWeeks(worker[w].batch, cats) = {}
                                          /\ Shaped(done, cats, 1 + 2 * Len(cats))
                                          /\ ClusteredUpTo(worker[w].batch, cats, Len(cats))
               /\ status = "failed" => Failures(done) = {Len(done)}
               /\ status = "superseded" => /\ Failures(done) = {}
                                           /\ W!CompletedWeeks(worker[w].batch, cats) # {}
    PROVE  WeekInv'
<1> DEFINE x == worker[w]
           done == weeks[x.week].children
<1>t. W!TypeOK /\ WeekKnown(w) /\ worker \in [Workers -> W!WorkerRow] /\ weeks \in Seq(W!Week)
  BY DEF WeekInv, W!TypeOK
<1>1. PICK own : own = x.week
  OBVIOUS
<1>2. own \in DOMAIN weeks /\ weeks[own].batch = x.batch /\ weeks[own].categories = x.categories
  BY <1>t, <1>1 DEF WeekKnown
<1>3. PICK row : row = [weeks[own] EXCEPT !.status = status]
  OBVIOUS
<1>4. row \in W!Week /\ row.status = status /\ row.batch = x.batch /\ row.categories = x.categories
      /\ row.children = weeks[own].children
  <2>1. weeks[own] \in W!Week
    BY <1>t, <1>2
  <2>2. QED BY <2>1, <1>2, <1>3 DEF W!Week
<1>5. weeks' = [weeks EXCEPT ![own] = row]
  BY <1>1, <1>3 DEF W!SetStatus
<1>6. weeks'[own] = row
  BY <1>t, <1>2, <1>5
<1>7. worker' = [worker EXCEPT ![w] = W!Idle] /\ worker'[w] = W!Idle
  BY <1>t DEF W!Become
<1>8. BatchKnown(w)' /\ WeekKnown(w)' /\ ~Owns(w)'
  BY <1>7, IdleRow, KnowsNothing
<1>9. WeekSound(own)'
  <2>0. \A b, cats : W!CompletedWeeks(b, cats)' =
                W!CompletedWeeks(b, cats) \cup
                    (IF row.status = "completed" /\ row.batch = b
                            /\ W!CategorySet(row.categories) = W!CategorySet(cats)
                       THEN {own} ELSE {})
    <3>1. Completes(row, own)
      BY <1>1, <1>4, <1>5, OwnCompletion
    <3>2. QED BY <3>1 DEF Completes
  <2>1. W!CompletedWeeks(x.batch, x.categories) \cup (IF status = "completed" THEN {own} ELSE {}) =
           W!CompletedWeeks(row.batch, row.categories)'
    BY <1>4, <2>0
  <2>2. ClusteredUpTo(row.batch, row.categories, Len(row.categories))' <=>
           ClusteredUpTo(x.batch, x.categories, Len(x.categories))
    BY <1>4 DEF ClusteredUpTo
  <2>3. QED BY <1>1, <1>4, <1>6, <2>1, <2>2 DEF WeekSound
<1>10. row.status = "completed" => W!CompletedWeeks(x.batch, x.categories) = {}
  BY <1>4
<1>11. QED BY <1>1, <1>4, <1>5, <1>7, <1>8, <1>9, <1>10, IdleRow, OwnRow

LEMMA Endings ==
    ASSUME WeekInv, NEW w \in Workers, W!FinishWeek(w) \/ W!Supersede(w) \/ W!FailWeek(w)
    PROVE  WeekInv'
<1> DEFINE x == worker[w]
           cats == x.categories
           done == weeks[x.week].children
<1>t. W!TypeOK /\ WeekKnown(w) /\ cats \in CategoryLists
  BY WeekTypes DEF WeekInv
<1>1. x.pc \in Ending => /\ Owns(w) /\ Shaped(done, cats, 1 + 2 * Len(cats))
                         /\ ClusteredUpTo(x.batch, cats, Len(cats)) /\ Failures(done) = {}
  <2> SUFFICES ASSUME x.pc \in Ending
               PROVE  /\ Owns(w) /\ Shaped(done, cats, 1 + 2 * Len(cats))
                      /\ ClusteredUpTo(x.batch, cats, Len(cats)) /\ Failures(done) = {}
    OBVIOUS
  <2>1. Owns(w) /\ Shaped(done, cats, 1 + 2 * Len(cats)) /\ ClusteredUpTo(x.batch, cats, Len(cats))
        /\ x.week \in DOMAIN weeks
    BY <1>t DEF Owns, WeekKnown, Ending
  <2>2. done \in Seq(W!Child) /\ 1 + 2 * Len(cats) \in Nat
    BY <1>t, <2>1, RowOf, Lists
  <2>3. QED BY <2>1, <2>2, NoneFailed
<1>2. CASE W!FinishWeek(w)
  <2>1. x.pc = "finish" /\ x.pc \in Ending /\ UNCHANGED <<batch, classified, clustered>>
    BY <1>2 DEF W!FinishWeek, Ending
  <2>2. CASE W!CompletedWeeks(x.batch, cats) = {}
    BY <1>1, <1>2, <2>1, <2>2, EndStep DEF W!FinishWeek
  <2>3. CASE W!CompletedWeeks(x.batch, cats) # {}
    BY <1>t, <1>2, <2>1, <2>3, HeldStill, QuietGo DEF W!FinishWeek, Classifying, ClusteringNow
  <2>4. QED BY <2>2, <2>3
<1>3. CASE W!Supersede(w)
  <2>1. x.pc \in Ending /\ W!CompletedWeeks(x.batch, cats) # {}
    BY <1>t, <1>3 DEF W!Supersede, Ending, WeekKnown
  <2>2. QED BY <1>1, <1>3, <2>1, EndStep DEF W!Supersede
<1>4. CASE W!FailWeek(w)
  <2>1. Owns(w) /\ Failures(done) = {Len(done)}
    BY <1>t, <1>4 DEF W!FailWeek, Owns, WeekKnown
  <2>2. QED BY <1>4, <2>1, EndStep DEF W!FailWeek
<1>5. QED BY <1>2, <1>3, <1>4

LEMMA WeekStep ==
    ASSUME WeekInv, W!Next PROVE WeekInv'
<1>1. ASSUME NEW w \in Workers,
             \/ W!AskWeek(w) \/ W!LookForWeek(w) \/ W!BeginWeek(w) \/ W!RecordImport(w)
             \/ W!LookForClassification(w) \/ W!Freeze(w) \/ W!Resume(w) \/ W!Classify(w)
             \/ W!ClassifiedMeanwhile(w) \/ W!ReportClassified(w) \/ W!RecordClassification(w)
             \/ W!LookForClustering(w) \/ W!InsertClustering(w) \/ W!Cluster(w)
             \/ W!ReportClustered(w) \/ W!RecordClustering(w)
             \/ W!FinishWeek(w) \/ W!Supersede(w)
             \/ W!ChildFails(w) \/ W!RecordFailure(w) \/ W!FailWeek(w) \/ W!Stop(w)
      PROVE  WeekInv'
  BY <1>1, AskStep, QuietSteps, BeginStep, RecordImportStep, FreezeStep, ResumeStep, ClassifyStep,
     ReportStep, RecordClassificationStep, ClusterStep, RecordClusteringStep, RecordFailureStep,
     Endings
<1>2. ASSUME NEW b \in Batches, W!InsertRow(b) \/ W!CommitRow(b) PROVE WeekInv'
  BY <1>2, InsertRowStep, CommitRowStep
<1>3. QED BY <1>1, <1>2 DEF W!Next

LEMMA WeekStutter ==
    ASSUME WeekInv, UNCHANGED weekVars PROVE WeekInv'
<1>1. /\ \A b, cats : W!CompletedWeeks(b, cats)' = W!CompletedWeeks(b, cats)
      /\ \A w : W!Key(w)' = W!Key(w)
  <2>1. weeks' = weeks /\ worker' = worker
    BY DEF weekVars
  <2>2. \A b, cats : W!CompletedWeeks(b, cats)' = W!CompletedWeeks(b, cats)
    BY Zenon, <2>1 DEF W!CompletedWeeks, W!SameWeek
  <2>3. \A w : W!Key(w)' = W!Key(w)
    BY Zenon, <2>1 DEF W!Key, W!Category
  <2>4. QED BY <2>2, <2>3
<1>2. W!TypeOK' /\ BatchesSound' /\ RunsSound' /\ OwnWeeks'
  BY DEF weekVars, WeekInv, W!TypeOK, BatchesSound, RunsSound, OwnWeeks, Owns
<1>3. \A w \in Workers : BatchKnown(w)' /\ WeekKnown(w)'
  <2> SUFFICES ASSUME NEW w \in Workers PROVE BatchKnown(w)' /\ WeekKnown(w)'
    OBVIOUS
  <2>1. /\ batch' = batch /\ worker' = worker /\ weeks' = weeks
        /\ classified' = classified /\ clustered' = clustered
    BY DEF weekVars
  <2>2. BatchKnown(w) /\ WeekKnown(w)
    BY DEF WeekInv
  <2>3. BatchKnown(w)'
    BY <2>1, <2>2 DEF BatchKnown
  <2>4. Owns(w)' <=> Owns(w)
    BY <2>1 DEF Owns
  <2>5. \A b, cats, m : ClassifiedUpTo(b, cats, m)' <=> ClassifiedUpTo(b, cats, m)
    BY <2>1 DEF ClassifiedUpTo
  <2>6. \A b, cats, m : ClusteredUpTo(b, cats, m)' <=> ClusteredUpTo(b, cats, m)
    BY <2>1 DEF ClusteredUpTo
  <2>7. WeekKnown(w)'
    BY ZenonT(60), <1>1, <2>1, <2>2, <2>4, <2>5, <2>6 DEF WeekKnown
  <2>8. QED BY <2>3, <2>7
<1>4. \A n \in DOMAIN weeks' : WeekSound(n)'
  BY <1>1 DEF weekVars, WeekInv, WeekSound, ClusteredUpTo
<1>5. QED BY <1>2, <1>3, <1>4 DEF WeekInv

LEMMA WholeFromShape ==
    ASSUME NEW week, NEW cats \in CategoryLists, week.categories = cats,
           Shaped(week.children, cats, 1 + 2 * Len(cats)), week.children \in Seq(W!Child)
    PROVE  /\ Len(week.children) = 1 + 2 * Len(cats)
           /\ W!Has(week, "import", "none")
           /\ \A c \in W!CategorySet(cats) :
                W!Has(week, "classification", c) /\ W!Has(week, "clustering", c)
<1> DEFINE k == Len(cats)
<1>1. k \in Nat \ {0} /\ DOMAIN cats = 1..k
  BY Lists
<1>2. Len(week.children) = 1 + 2 * k /\ DOMAIN week.children = 1..(1 + 2 * k)
      /\ \A i \in 1..(1 + 2 * k) : week.children[i] = Expected(cats, i)
  BY <1>1 DEF Shaped
<1>3. W!Has(week, "import", "none")
  <2>1. 1 \in DOMAIN week.children
    BY <1>1, <1>2
  <2>2. week.children[1] = [kind |-> "import", category |-> "none", outcome |-> "done"]
    <3>1. 1 \in 1..(1 + 2 * k)
      BY <1>1
    <3>2. week.children[1] = Expected(cats, 1)
      BY <1>2, <3>1
    <3>3. QED BY <3>2 DEF Expected
  <2>3. QED BY <2>1, <2>2 DEF W!Has
<1>4. ASSUME NEW c \in W!CategorySet(cats)
      PROVE  W!Has(week, "classification", c) /\ W!Has(week, "clustering", c)
  <2>1. PICK i \in 1..k : c = cats[i]
    BY <1>1 DEF W!CategorySet
  <2>2. /\ i + 1 \in 1..(1 + 2 * k) /\ i + 1 # 1 /\ i + 1 <= 1 + k /\ i + 1 - 1 = i
        /\ 1 + k + i \in 1..(1 + 2 * k) /\ 1 + k + i # 1 /\ ~(1 + k + i <= 1 + k) /\ 1 + k + i - 1 - k = i
    BY <1>1
  <2>3. week.children[i + 1] = [kind |-> "classification", category |-> c, outcome |-> "done"]
    <3>1. week.children[i + 1] = Expected(cats, i + 1)
      BY <1>2, <2>2
    <3>2. Expected(cats, i + 1) = [kind |-> "classification", category |-> cats[i], outcome |-> "done"]
      BY <2>2 DEF Expected
    <3>3. QED BY <2>1, <3>1, <3>2
  <2>4. week.children[1 + k + i] = [kind |-> "clustering", category |-> c, outcome |-> "done"]
    <3>1. week.children[1 + k + i] = Expected(cats, 1 + k + i)
      BY <1>2, <2>2
    <3>2. Expected(cats, 1 + k + i) = [kind |-> "clustering", category |-> cats[i], outcome |-> "done"]
      BY <2>2 DEF Expected
    <3>3. QED BY <2>1, <3>1, <3>2
  <2> HIDE DEF k
  <2>5. W!Has(week, "classification", c)
    <3>1. i + 1 \in DOMAIN week.children
      BY <1>2, <2>2
    <3>2. QED BY <2>3, <3>1 DEF W!Has
  <2>6. W!Has(week, "clustering", c)
    <3>1. 1 + k + i \in DOMAIN week.children
      BY <1>2, <2>2
    <3>2. QED BY <2>4, <3>1 DEF W!Has
  <2>7. QED BY <2>5, <2>6
<1>5. QED BY <1>2, <1>3, <1>4

LEMMA WeekInvIsSound == WeekInv => WeeksSound
<1> SUFFICES ASSUME WeekInv PROVE WeeksSound
  OBVIOUS
<1>t. W!TypeOK /\ RunsSound
  BY DEF WeekInv
<1>1. ASSUME NEW n \in DOMAIN weeks, weeks[n].status = "completed"
      PROVE  /\ W!CompletedWeeks(weeks[n].batch, weeks[n].categories) = {n}
             /\ Len(weeks[n].children) = 1 + 2 * Len(weeks[n].categories)
             /\ W!Has(weeks[n], "import", "none")
             /\ \A c \in W!CategorySet(weeks[n].categories) :
                 /\ W!Has(weeks[n], "classification", c)
                 /\ W!Has(weeks[n], "clustering", c)
                 /\ <<weeks[n].batch, c>> \in clustered
  <2>1. /\ W!CompletedWeeks(weeks[n].batch, weeks[n].categories) = {n}
        /\ Shaped(weeks[n].children, weeks[n].categories, 1 + 2 * Len(weeks[n].categories))
        /\ ClusteredUpTo(weeks[n].batch, weeks[n].categories, Len(weeks[n].categories))
    BY <1>1 DEF WeekInv, WeekSound
  <2>2. weeks[n].categories \in CategoryLists /\ weeks[n].children \in Seq(W!Child)
    BY <1>t, RowOf
  <2>3. \A c \in W!CategorySet(weeks[n].categories) : <<weeks[n].batch, c>> \in clustered
    BY <2>1, <2>2, Lists DEF ClusteredUpTo, W!CategorySet
  <2>4. QED BY <2>1, <2>2, <2>3, WholeFromShape
<1>2. W!CompletedWeekWhole
  BY <1>1 DEF W!CompletedWeekWhole
<1>3. W!RunsCover
  BY <1>t DEF RunsSound, W!RunsCover
<1>4. W!FailureExplained
  BY DEF WeekInv, WeekSound, Failures, W!FailureExplained
<1>5. QED BY <1>t, <1>2, <1>3, <1>4 DEF WeeksSound

\* A week that says it is complete is, a completed run covers its batch for ever,
\* and a week that failed says at what, for any workers, batches, lists of
\* categories and refusals of the engine (runWeek, classifyBatch,
\* clusterClassificationRun, freezeBatchSourceSet).
THEOREM WeeksWhole == MCSpec => []WeeksSound
<1>1. MCInit => WeekInv
  BY WeekInit DEF MCInit
<1>2. WeekInv /\ [MCNext]_allVars => WeekInv'
  <2> SUFFICES ASSUME WeekInv, [MCNext]_allVars PROVE WeekInv'
    OBVIOUS
  <2>1. W!Next \/ UNCHANGED weekVars
    BY DEF MCNext, allVars
  <2>2. QED BY <2>1, WeekStep, WeekStutter
<1>3. WeekInv => WeeksSound
  BY WeekInvIsSound
<1>4. QED BY <1>1, <1>2, <1>3, PTL DEF MCSpec

-----------------------------------------------------------------------------
(* The signals: what is read of a history, the history made explicit. *)

RowsIn(ss, among) ==
    UNION {{[run |-> j, target |-> s.target, at |-> s.at] : s \in ss[j].signals} : j \in among}

EarlierIn(ss, a, b) ==
    \/ a.at < b.at
    \/ a.at = b.at /\ ss[a.run].completed < ss[b.run].completed
    \/ a.at = b.at /\ ss[a.run].completed = ss[b.run].completed /\ a.run < b.run

NewestIn(ss, found) ==
    {a \in found : S!Cardinality({b \in found : EarlierIn(ss, a, b)}) < HistoryBound}

\* Of the first n runs those of the origin of run k, completed no later than it.
BoundIn(ss, n, k) ==
    {j \in 1..n : ss[j].origin = ss[k].origin /\ ss[j].completed <= ss[k].completed}

SeriesOver(ss, among, asOf) ==
    UNION {NewestIn(ss, {a \in RowsIn(ss, among) : a.target = t /\ a.at <= asOf}) :
              t \in {a.target : a \in RowsIn(ss, among)}}

LEMMA SeriesNow == ASSUME NEW k, NEW asOf
    PROVE S!Stored(k, asOf) = SeriesOver(stored, BoundIn(stored, Len(stored), k), asOf)
<1> DEFINE Span == BoundIn(stored, Len(stored), k)
<1>1. S!Within(k) = Span
  BY Zenon DEF S!Within, S!Runs, BoundIn
<1>2. S!Rows(S!Within(k)) = RowsIn(stored, Span)
  BY Zenon, <1>1 DEF S!Rows, RowsIn
<1>3. \A f : S!Newest(f) = NewestIn(stored, f)
  BY Zenon DEF S!Newest, NewestIn, S!Before, EarlierIn
<1>4. \A t : S!HistoryOf(k, t, asOf) = NewestIn(stored, {a \in RowsIn(stored, Span) : a.target = t /\ a.at <= asOf})
  BY Zenon, <1>2, <1>3 DEF S!HistoryOf
<1>5. S!Targets(k) = {a.target : a \in RowsIn(stored, Span)}
  BY Zenon, <1>2 DEF S!Targets
<1> DEFINE seriesOf(t) == NewestIn(stored, {a \in RowsIn(stored, Span) : a.target = t /\ a.at <= asOf})
           targets == {a.target : a \in RowsIn(stored, Span)}
<1>6. SeriesOver(stored, Span, asOf) = UNION {seriesOf(t) : t \in targets}
  BY Zenon DEF SeriesOver
<1>7. (\A t : S!HistoryOf(k, t, asOf) = seriesOf(t)) /\ S!Targets(k) = targets
  BY Zenon, <1>4, <1>5
<1> HIDE DEF seriesOf, targets, Span
<1>8. S!Stored(k, asOf) = UNION {seriesOf(t) : t \in targets}
  BY <1>7 DEF S!Stored
<1>9. S!Stored(k, asOf) = SeriesOver(stored, Span, asOf)
  BY <1>6, <1>8
<1>10. QED BY <1>9 DEF Span

\* Runs that are the same give the same rows, and those the same series.
LEMMA SeriesSame ==
    ASSUME NEW ss, NEW tt, NEW among, \A j \in among : ss[j] = tt[j], NEW asOf
    PROVE  SeriesOver(ss, among, asOf) = SeriesOver(tt, among, asOf)
<1> DEFINE All == RowsIn(ss, among)
<1>1. RowsIn(tt, among) = All
  BY DEF RowsIn
<1>2. \A a \in All : a.run \in among
  BY DEF RowsIn
<1>3. ASSUME NEW f \in SUBSET All PROVE NewestIn(ss, f) = NewestIn(tt, f)
  <2> HIDE DEF All
  <2>1. \A a, b \in f : EarlierIn(ss, a, b) <=> EarlierIn(tt, a, b)
    BY <1>2 DEF EarlierIn
  <2>2. \A a \in f : {b \in f : EarlierIn(ss, a, b)} = {b \in f : EarlierIn(tt, a, b)}
    BY <2>1
  <2>3. QED BY Zenon, <2>2 DEF NewestIn
<1>4. \A t : NewestIn(ss, {a \in All : a.target = t /\ a.at <= asOf}) = NewestIn(tt, {a \in All : a.target = t /\ a.at <= asOf})
  <2> TAKE t
  <2> DEFINE f == {a \in All : a.target = t /\ a.at <= asOf}
  <2>1. f \in SUBSET All
    BY Zenon
  <2>2. NewestIn(ss, f) = NewestIn(tt, f)
    <3> HIDE DEF All, f
    <3>1. QED BY <1>3, <2>1
  <2>3. QED BY Zenon, <2>2
<1> HIDE DEF All
<1>5. SeriesOver(ss, among, asOf) = UNION {NewestIn(ss, {a \in All : a.target = t /\ a.at <= asOf}) : t \in {a.target : a \in All}}
  BY Zenon DEF SeriesOver, All
<1>6. SeriesOver(tt, among, asOf) = UNION {NewestIn(tt, {a \in All : a.target = t /\ a.at <= asOf}) : t \in {a.target : a \in All}}
  BY Zenon, <1>1 DEF SeriesOver
<1> DEFINE F(t) == NewestIn(ss, {a \in All : a.target = t /\ a.at <= asOf})
           FF(t) == NewestIn(tt, {a \in All : a.target = t /\ a.at <= asOf})
           TT == {a.target : a \in All}
<1>7. \A t \in TT : F(t) = FF(t)
  BY Zenon, <1>4
<1>8. SeriesOver(ss, among, asOf) = UNION {F(t) : t \in TT} /\ SeriesOver(tt, among, asOf) = UNION {FF(t) : t \in TT}
  BY Zenon, <1>5, <1>6
<1> HIDE DEF F, FF, TT
<1>9. {F(t) : t \in TT} = {FF(t) : t \in TT}
  BY <1>7
<1>10. QED BY <1>8, <1>9

\* A series is of rows of its runs, none later than it was asked for.
LEMMA SeriesOf ==
    ASSUME NEW ss, NEW among, NEW asOf, NEW r \in SeriesOver(ss, among, asOf)
    PROVE  r.run \in among /\ r.at <= asOf /\ r \in RowsIn(ss, among)
<1>1. r \in RowsIn(ss, among) /\ r.at <= asOf
  BY DEF SeriesOver, NewestIn
<1>2. QED BY <1>1 DEF RowsIn

-----------------------------------------------------------------------------
(* The signals: what is stored, held and told. *)

SignalRow == [target : STRING, at : Nat]

StoredRun ==
    [key : [origin : S!Origins, rows : SUBSET SignalRow], origin : S!Origins,
     signals : SUBSET SignalRow, completed : Nat, by : Submissions]

Observed == [run : Nat, target : STRING, at : Nat]

SignalTypes ==
    /\ clock \in 0..MaxClock
    /\ stored \in Seq(StoredRun) /\ Len(stored) <= MaxRuns
    /\ ingester \in [Workers ->
          [pc : {"idle", "find", "insert", "commit", "lost", "done"},
           of : Submissions \cup {S!NoSubmission}, completed : 0..clock, run : Nat]]
    /\ results \in Seq([run : Nat, asOf : Nat, series : SUBSET Observed, seen : Nat])
    /\ Len(results) <= MaxAnswers
    /\ feed \in [pc : {"idle", "reading"}, run : 0..MaxRuns, left : SUBSET STRING,
                 series : SUBSET Observed]

\* A run is what was given and accepted, at an instant that has been; no two are
\* of one key.
StoredSound ==
    /\ \A j \in 1..Len(stored) :
          /\ S!Accepts(stored[j].by) /\ stored[j].completed <= clock
          /\ stored[j] = S!Completed(stored[j].by, stored[j].completed)
    /\ \A j, k \in 1..Len(stored) : stored[j].key = stored[k].key => j = k

\* Who is about to commit holds a key that is on no run and with nobody else.
IngesterSound ==
    /\ \A h \in Workers : ingester[h].pc # "idle" =>
          ingester[h].of \in Submissions /\ S!Accepts(ingester[h].of)
    /\ \A h \in Workers : ingester[h].pc = "commit" =>
          /\ \A j \in 1..Len(stored) : stored[j].key # S!KeyOf(ingester[h].of)
          /\ \A g \in Workers \ {h} : ingester[g].pc = "commit" =>
                S!KeyOf(ingester[g].of) # S!KeyOf(ingester[h].of)
    /\ \A h \in Workers : ingester[h].pc = "done" =>
          /\ ingester[h].run \in 1..Len(stored)
          /\ stored[ingester[h].run].key = S!KeyOf(ingester[h].of)

\* A result is the series of the runs that were stored when it was asked for.
ResultsSound ==
    /\ \A a \in 1..Len(results) :
          /\ results[a].seen <= Len(stored) /\ results[a].run \in 1..results[a].seen
          /\ results[a].series =
                SeriesOver(stored, BoundIn(stored, results[a].seen, results[a].run), results[a].asOf)
    /\ \A a, b \in 1..Len(results) : a < b => results[a].seen <= results[b].seen

FeedSound ==
    /\ feed.pc = "reading" => feed.run \in 1..Len(stored)
    /\ feed.pc = "idle" => feed.series = {}
    /\ \A r \in feed.series :
          r.run \in 1..Len(stored) /\ stored[r.run].origin = stored[feed.run].origin

SignalInv == SignalTypes /\ StoredSound /\ IngesterSound /\ ResultsSound /\ FeedSound

LEMMA SignalInit == S!Init => SignalInv
<1> SUFFICES ASSUME S!Init PROVE SignalInv
  OBVIOUS
<1> USE DEF S!Init, S!Idle, S!NoFeed
<1>0. stored = <<>> /\ Len(stored) = 0 /\ results = <<>> /\ Len(results) = 0 /\ 0 \in 0..MaxClock
      /\ MaxRuns \in Nat /\ MaxAnswers \in Nat
  BY SignalsAssumption
<1>1. SignalTypes
  BY <1>0 DEF SignalTypes
<1>2. StoredSound /\ ResultsSound
  BY <1>0 DEF StoredSound, ResultsSound
<1>3. IngesterSound /\ FeedSound
  BY <1>0 DEF IngesterSound, FeedSound
<1>4. QED BY <1>1, <1>2, <1>3 DEF SignalInv

LEMMA GivenIs == ASSUME NEW s \in Submissions
    PROVE s.kind \in {"file", "client"} /\ s.origin \in S!Origins /\ s.entries \in Seq(S!Entry)
BY SignalsAssumption DEF S!Submission

LEMMA CompletedIs ==
    ASSUME NEW s \in Submissions, NEW at \in Nat
    PROVE  /\ S!Completed(s, at) \in StoredRun
           /\ S!Completed(s, at).key = S!KeyOf(s)
           /\ S!Completed(s, at).by = s /\ S!Completed(s, at).completed = at
<1>1. s.kind \in {"file", "client"} /\ s.origin \in S!Origins /\ s.entries \in Seq(S!Entry)
  BY GivenIs
<1>2. \A k \in DOMAIN s.entries : s.entries[k] \in S!Entry
  BY <1>1
<1>3. \A k \in DOMAIN s.entries : S!Row(s.entries[k]) \in SignalRow
  BY <1>2 DEF S!Row, S!Entry, SignalRow
<1>4. {S!Row(s.entries[k]) : k \in DOMAIN s.entries} \in SUBSET SignalRow
  BY <1>3
<1>5. S!OriginOf(s) \in S!Origins
  BY <1>1 DEF S!OriginOf, S!Origins
<1>6. S!KeyOf(s) \in [origin : S!Origins, rows : SUBSET SignalRow] /\ S!Signals(s) \in SUBSET SignalRow
  BY <1>4, <1>5 DEF S!KeyOf, S!Signals
<1>7. QED BY <1>5, <1>6 DEF S!Completed, StoredRun

\* Steps that store nothing, tell nothing and leave the feed.
LEMMA IngesterMoves ==
    ASSUME SignalInv, UNCHANGED <<clock, stored, results, feed>>,
           NEW h \in Workers,
           NEW to \in [pc : {"idle", "find", "insert", "commit", "lost", "done"},
                       of : Submissions \cup {S!NoSubmission}, completed : 0..clock, run : Nat],
           ingester' = [ingester EXCEPT ![h] = to],
           to.pc # "idle" => to.of \in Submissions /\ S!Accepts(to.of),
           to.pc = "commit" =>
              /\ \A j \in 1..Len(stored) : stored[j].key # S!KeyOf(to.of)
              /\ \A g \in Workers \ {h} : ingester[g].pc = "commit" => S!KeyOf(ingester[g].of) # S!KeyOf(to.of),
           to.pc = "done" => to.run \in 1..Len(stored) /\ stored[to.run].key = S!KeyOf(to.of)
    PROVE  SignalInv'
<1>1. SignalTypes'
  BY DEF SignalInv, SignalTypes
<1>2. StoredSound' /\ ResultsSound' /\ FeedSound'
  BY DEF SignalInv, StoredSound, ResultsSound, FeedSound
<1>3. \A g \in Workers : ingester'[g] = IF g = h THEN to ELSE ingester[g]
  BY DEF SignalInv, SignalTypes
<1>4. IngesterSound'
  BY <1>3 DEF SignalInv, IngesterSound
<1>5. QED BY <1>1, <1>2, <1>4 DEF SignalInv

LEMMA StoredIs == ASSUME SignalInv PROVE stored \in Seq(StoredRun) /\ \A j \in 1..Len(stored) : stored[j] \in StoredRun
<1>1. stored \in Seq(StoredRun)
  BY DEF SignalInv, SignalTypes
<1>2. QED BY <1>1, ElementOfSeq

Result == [run : Nat, asOf : Nat, series : SUBSET Observed, seen : Nat]

LEMMA ResultIs == ASSUME SignalInv PROVE results \in Seq(Result) /\ \A a \in 1..Len(results) : results[a] \in Result /\ results[a].seen \in Nat
<1>1. results \in Seq(Result)
  BY DEF SignalInv, SignalTypes, Result
<1>2. \A a \in 1..Len(results) : results[a] \in Result
  BY <1>1, ElementOfSeq
<1>3. \A x \in Result : x.seen \in Nat
  BY DEF Result
<1>4. QED BY <1>1, <1>2, <1>3

LEMMA IngesterIs ==
    ASSUME SignalInv, NEW h \in Workers
    PROVE  ingester[h] \in [pc : {"idle", "find", "insert", "commit", "lost", "done"},
                            of : Submissions \cup {S!NoSubmission}, completed : 0..clock, run : Nat]
BY DEF SignalInv, SignalTypes

LEMMA SubmitKeeps == ASSUME SignalInv, NEW h \in Workers, NEW s \in Submissions, S!Submit(h, s) PROVE SignalInv'
<1> DEFINE to == [S!Idle EXCEPT !.pc = "find", !.of = s]
<1>1. 0 \in 0..clock
  BY DEF SignalInv, SignalTypes
<1>2. /\ to \in [pc : {"idle", "find", "insert", "commit", "lost", "done"},
                 of : Submissions \cup {S!NoSubmission}, completed : 0..clock, run : Nat]
      /\ to.pc = "find" /\ to.of = s
  BY <1>1 DEF S!Idle
<1>3. ingester' = [ingester EXCEPT ![h] = to] /\ S!Accepts(s) /\ UNCHANGED <<clock, stored, results, feed>>
  BY DEF S!Submit
<1> HIDE DEF to
<1>4. QED BY <1>1, <1>2, <1>3, IngesterMoves

LEMMA FoundIs == ASSUME SignalInv, NEW h \in Workers, NEW j \in S!WithKey(S!KeyOf(ingester[h].of))
    PROVE j \in 1..Len(stored) /\ j \in Nat /\ stored[j].key = S!KeyOf(ingester[h].of)
BY DEF S!WithKey, S!Runs

LEMMA DoneKeeps ==
    ASSUME SignalInv, NEW h \in Workers, ingester[h].pc # "idle",
           NEW j \in S!WithKey(S!KeyOf(ingester[h].of)),
           ingester' = [ingester EXCEPT ![h].pc = "done", ![h].run = j],
           UNCHANGED <<clock, stored, results, feed>>
    PROVE  SignalInv'
<1> DEFINE to == [ingester[h] EXCEPT !.pc = "done", !.run = j]
<1>1. j \in 1..Len(stored) /\ j \in Nat /\ stored[j].key = S!KeyOf(ingester[h].of)
  BY FoundIs
<1>2. /\ to \in [pc : {"idle", "find", "insert", "commit", "lost", "done"},
                 of : Submissions \cup {S!NoSubmission}, completed : 0..clock, run : Nat]
      /\ to.pc = "done" /\ to.of = ingester[h].of /\ to.run = j
  BY <1>1, IngesterIs
<1>3. ingester' = [ingester EXCEPT ![h] = to]
  BY DEF SignalInv, SignalTypes
<1>4. ingester[h].of \in Submissions /\ S!Accepts(ingester[h].of)
  BY DEF SignalInv, IngesterSound
<1> HIDE DEF to
<1>5. to.of \in Submissions /\ S!Accepts(to.of) /\ to.pc # "commit"
  BY <1>2, <1>4
<1>6. to.run \in 1..Len(stored) /\ stored[to.run].key = S!KeyOf(to.of)
  BY <1>1, <1>2
<1>7. QED BY <1>2, <1>3, <1>5, <1>6, IngesterMoves

LEMMA FindKeeps == ASSUME SignalInv, NEW h \in Workers, S!Find(h) PROVE SignalInv'
<1>1. ingester[h].pc = "find" /\ UNCHANGED <<clock, stored, results, feed>>
  BY DEF S!Find
<1>2. CASE S!WithKey(S!KeyOf(ingester[h].of)) = {}
  <2> DEFINE to == [ingester[h] EXCEPT !.pc = "insert"]
  <2>1. ingester' = [ingester EXCEPT ![h].pc = "insert"]
    BY <1>2 DEF S!Find, S!Become
  <2>2. ingester' = [ingester EXCEPT ![h] = to]
    BY <2>1 DEF SignalInv, SignalTypes
  <2>3. /\ to \in [pc : {"idle", "find", "insert", "commit", "lost", "done"},
                   of : Submissions \cup {S!NoSubmission}, completed : 0..clock, run : Nat]
        /\ to.pc = "insert" /\ to.of = ingester[h].of
    BY IngesterIs
  <2>4. ingester[h].of \in Submissions /\ S!Accepts(ingester[h].of)
    BY <1>1 DEF SignalInv, IngesterSound
  <2> HIDE DEF to
  <2>5. QED BY <1>1, <2>2, <2>3, <2>4, IngesterMoves
<1>3. CASE S!WithKey(S!KeyOf(ingester[h].of)) # {}
  <2>1. PICK j \in S!WithKey(S!KeyOf(ingester[h].of)) :
            ingester' = [ingester EXCEPT ![h].pc = "done", ![h].run = j]
    BY <1>3 DEF S!Find
  <2>2. QED BY <1>1, <2>1, DoneKeeps
<1>4. QED BY <1>2, <1>3

LEMMA WinnerKeeps == ASSUME SignalInv, NEW h \in Workers, S!FindWinner(h) PROVE SignalInv'
<1>1. ingester[h].pc = "lost" /\ UNCHANGED <<clock, stored, results, feed>>
  BY DEF S!FindWinner
<1>2. PICK j \in S!WithKey(S!KeyOf(ingester[h].of)) :
            ingester' = [ingester EXCEPT ![h].pc = "done", ![h].run = j]
  BY DEF S!FindWinner
<1>3. QED BY <1>1, <1>2, DoneKeeps

LEMMA InsertKeeps == ASSUME SignalInv, NEW h \in Workers, S!Insert(h) PROVE SignalInv'
<1> DEFINE to == [ingester[h] EXCEPT !.pc = IF S!Unstored(h) THEN "commit" ELSE "lost", !.completed = clock]
<1>1. ingester[h].pc = "insert" /\ UNCHANGED <<clock, stored, results, feed>> /\ S!Free(h)
  BY DEF S!Insert
<1>2. ingester' = [ingester EXCEPT ![h].pc = IF S!Unstored(h) THEN "commit" ELSE "lost", ![h].completed = clock]
  BY DEF S!Insert
<1>3. ingester' = [ingester EXCEPT ![h] = to]
  BY <1>2 DEF SignalInv, SignalTypes
<1>4. clock \in 0..clock
  BY DEF SignalInv, SignalTypes
<1>5. /\ to \in [pc : {"idle", "find", "insert", "commit", "lost", "done"},
                 of : Submissions \cup {S!NoSubmission}, completed : 0..clock, run : Nat]
      /\ to.pc \in {"commit", "lost"} /\ to.of = ingester[h].of /\ (to.pc = "commit" => S!Unstored(h))
  BY <1>4, IngesterIs
<1>6. ingester[h].of \in Submissions /\ S!Accepts(ingester[h].of)
  BY <1>1 DEF SignalInv, IngesterSound
<1>7. S!Unstored(h) => \A j \in 1..Len(stored) : stored[j].key # S!KeyOf(ingester[h].of)
  BY DEF S!Unstored, S!WithKey, S!Runs
<1>8. \A g \in Workers \ {h} : ingester[g].pc = "commit" => S!KeyOf(ingester[g].of) # S!KeyOf(ingester[h].of)
  BY <1>1 DEF S!Free
<1> HIDE DEF to
<1>9. QED BY <1>1, <1>3, <1>5, <1>6, <1>7, <1>8, IngesterMoves

LEMMA EndKeeps == ASSUME SignalInv, NEW h \in Workers, S!End(h) PROVE SignalInv'
<1>1. S!Idle \in [pc : {"idle", "find", "insert", "commit", "lost", "done"},
                  of : Submissions \cup {S!NoSubmission}, completed : 0..clock, run : Nat]
      /\ S!Idle.pc = "idle"
  BY DEF S!Idle, SignalInv, SignalTypes
<1>2. ingester' = [ingester EXCEPT ![h] = S!Idle] /\ UNCHANGED <<clock, stored, results, feed>>
  BY DEF S!End
<1>3. QED BY <1>1, <1>2, IngesterMoves

LEMMA ClockKeeps == ASSUME SignalInv, S!Tick PROVE SignalInv'
<1>1. clock' = clock + 1 /\ clock < MaxClock /\ UNCHANGED <<stored, ingester, results, feed>>
  BY DEF S!Tick
<1>2. clock \in Nat /\ clock' \in 0..MaxClock /\ 0..clock \subseteq 0..clock' /\ clock <= clock'
  BY <1>1, SignalsAssumption DEF SignalInv, SignalTypes
<1>3. SignalTypes'
  <2>1. ingester \in [Workers ->
          [pc : {"idle", "find", "insert", "commit", "lost", "done"},
           of : Submissions \cup {S!NoSubmission}, completed : 0..clock', run : Nat]]
    BY <1>2 DEF SignalInv, SignalTypes
  <2>2. QED BY <1>1, <1>2, <2>1 DEF SignalInv, SignalTypes
<1>4. \A j \in 1..Len(stored) : stored[j].completed \in Nat
  BY StoredIs DEF StoredRun
<1>5. StoredSound'
  BY <1>1, <1>2, <1>4 DEF SignalInv, StoredSound
<1>6. IngesterSound' /\ ResultsSound' /\ FeedSound'
  BY <1>1 DEF SignalInv, IngesterSound, ResultsSound, FeedSound
<1>7. QED BY <1>3, <1>5, <1>6 DEF SignalInv

LEMMA CommitKeeps == ASSUME SignalInv, NEW h \in Workers, S!Commit(h) PROVE SignalInv'
<1> DEFINE s == ingester[h].of
           at == ingester[h].completed
           new == S!Completed(s, at)
           n == Len(stored)
<1>1. /\ ingester[h].pc = "commit" /\ n < MaxRuns /\ stored' = Append(stored, new)
      /\ ingester' = [ingester EXCEPT ![h].pc = "done", ![h].run = n + 1]
      /\ UNCHANGED <<clock, results, feed>>
  BY DEF S!Commit
<1>2. /\ s \in Submissions /\ S!Accepts(s)
      /\ \A j \in 1..n : stored[j].key # S!KeyOf(s)
      /\ \A g \in Workers \ {h} : ingester[g].pc = "commit" => S!KeyOf(ingester[g].of) # S!KeyOf(s)
  BY <1>1 DEF SignalInv, IngesterSound
<1>3. at \in 0..clock /\ at \in Nat /\ clock \in Nat
  BY IngesterIs DEF SignalInv, SignalTypes
<1>4. /\ new \in StoredRun /\ new.key = S!KeyOf(s) /\ new.by = s /\ new.completed = at
  BY <1>2, <1>3, CompletedIs
<1>5. stored \in Seq(StoredRun) /\ n \in Nat /\ MaxRuns \in Nat
  BY SignalsAssumption DEF SignalInv, SignalTypes
<1> HIDE DEF s, at, new
<1>6. /\ stored' \in Seq(StoredRun) /\ Len(stored') = n + 1 /\ stored'[n + 1] = new
      /\ \A j \in 1..n : stored'[j] = stored[j]
  BY <1>1, <1>4, <1>5, AppendProperties
<1>7. ingester' = [ingester EXCEPT ![h] = [ingester[h] EXCEPT !.pc = "done", !.run = n + 1]]
  BY <1>1 DEF SignalInv, SignalTypes
<1>8. /\ \A g \in Workers \ {h} : ingester'[g] = ingester[g]
      /\ ingester'[h].pc = "done" /\ ingester'[h].run = n + 1 /\ ingester'[h].of = s
  BY <1>7, IngesterIs DEF SignalInv, SignalTypes, s
<1>9. SignalTypes'
  <2>1. ingester' \in [Workers ->
          [pc : {"idle", "find", "insert", "commit", "lost", "done"},
           of : Submissions \cup {S!NoSubmission}, completed : 0..clock, run : Nat]]
    <3> DEFINE to == [ingester[h] EXCEPT !.pc = "done", !.run = n + 1]
    <3>0. n + 1 \in Nat
      BY <1>5
    <3>1. to \in [pc : {"idle", "find", "insert", "commit", "lost", "done"},
                 of : Submissions \cup {S!NoSubmission}, completed : 0..clock, run : Nat]
      <4> HIDE DEF n
      <4>1. QED BY <3>0, IngesterIs
    <3> HIDE DEF to
    <3>2. ingester' = [ingester EXCEPT ![h] = to]
      BY <1>7 DEF to
    <3>3. QED BY <3>1, <3>2 DEF SignalInv, SignalTypes
  <2>2. Len(stored') <= MaxRuns
    BY <1>1, <1>5, <1>6
  <2>3. QED BY <1>1, <1>6, <2>1, <2>2 DEF SignalInv, SignalTypes
<1>10. \A j \in 1..(n + 1) : j \in 1..n \/ j = n + 1
  BY <1>5
<1>11. StoredSound'
  <2>1. ASSUME NEW j \in 1..(n + 1)
        PROVE  /\ S!Accepts(stored'[j].by) /\ stored'[j].completed <= clock
               /\ stored'[j] = S!Completed(stored'[j].by, stored'[j].completed)
    <3>1. CASE j \in 1..n
      BY <1>6, <3>1 DEF SignalInv, StoredSound
    <3>2. CASE j = n + 1
      BY <1>2, <1>3, <1>4, <1>6, <3>2 DEF new
    <3>3. QED BY <1>10, <3>1, <3>2
  <2>2. ASSUME NEW j \in 1..(n + 1), NEW k \in 1..(n + 1), stored'[j].key = stored'[k].key PROVE j = k
    <3>1. CASE j \in 1..n /\ k \in 1..n
      BY <1>6, <2>2, <3>1 DEF SignalInv, StoredSound
    <3>2. QED BY <1>2, <1>4, <1>6, <1>10, <2>2, <3>1
  <2>3. QED BY <1>1, <1>6, <2>1, <2>2 DEF StoredSound
<1>12. IngesterSound'
  <2>1. ASSUME NEW g \in Workers, ingester'[g].pc # "idle"
        PROVE  ingester'[g].of \in Submissions /\ S!Accepts(ingester'[g].of)
    BY <1>2, <1>8, <2>1 DEF SignalInv, IngesterSound
  <2>2. ASSUME NEW g \in Workers, ingester'[g].pc = "commit"
        PROVE  /\ \A j \in 1..(n + 1) : stored'[j].key # S!KeyOf(ingester'[g].of)
               /\ \A i \in Workers \ {g} : ingester'[i].pc = "commit" =>
                     S!KeyOf(ingester'[i].of) # S!KeyOf(ingester'[g].of)
    <3>1. g # h /\ ingester'[g] = ingester[g] /\ ingester[g].pc = "commit"
      BY <1>8, <2>2
    <3>2. /\ \A j \in 1..n : stored[j].key # S!KeyOf(ingester[g].of)
          /\ \A i \in Workers \ {g} : ingester[i].pc = "commit" => S!KeyOf(ingester[i].of) # S!KeyOf(ingester[g].of)
      BY <3>1 DEF SignalInv, IngesterSound
    <3>3. S!KeyOf(ingester[g].of) # S!KeyOf(s)
      BY <1>2, <3>1
    <3>4. \A j \in 1..(n + 1) : stored'[j].key # S!KeyOf(ingester[g].of)
      BY <1>4, <1>6, <1>10, <3>2, <3>3
    <3>5. QED BY <1>8, <3>1, <3>2, <3>4
  <2>3. ASSUME NEW g \in Workers, ingester'[g].pc = "done"
        PROVE  ingester'[g].run \in 1..(n + 1) /\ stored'[ingester'[g].run].key = S!KeyOf(ingester'[g].of)
    <3>1. CASE g = h
      BY <1>4, <1>5, <1>6, <1>8, <3>1
    <3>2. CASE g # h
      <4>1. ingester'[g] = ingester[g] /\ ingester[g].run \in 1..n /\ stored[ingester[g].run].key = S!KeyOf(ingester[g].of)
        BY <1>8, <2>3, <3>2 DEF SignalInv, IngesterSound
      <4>2. QED BY <1>5, <1>6, <4>1
    <3>3. QED BY <3>1, <3>2
  <2>4. QED BY <1>6, <2>1, <2>2, <2>3 DEF IngesterSound
<1>13. ResultsSound'
  <2>1. ASSUME NEW a \in 1..Len(results)
        PROVE  /\ results[a].seen <= n + 1 /\ results[a].run \in 1..results[a].seen
               /\ results[a].series =
                     SeriesOver(stored', BoundIn(stored', results[a].seen, results[a].run), results[a].asOf)
    <3>1. /\ results[a].seen <= n /\ results[a].run \in 1..results[a].seen
          /\ results[a].series =
                SeriesOver(stored, BoundIn(stored, results[a].seen, results[a].run), results[a].asOf)
      BY DEF SignalInv, ResultsSound
    <3>2. results[a].seen \in Nat
      BY ResultIs
    <3>3. \A j \in 1..results[a].seen : j \in 1..n
      BY <1>5, <3>1, <3>2
    <3>4. \A j \in 1..results[a].seen : stored[j] = stored'[j]
      BY <1>6, <3>3
    <3>5. BoundIn(stored', results[a].seen, results[a].run) = BoundIn(stored, results[a].seen, results[a].run)
      BY <3>1, <3>4 DEF BoundIn
    <3>6. \A j \in BoundIn(stored, results[a].seen, results[a].run) : stored[j] = stored'[j]
      BY <3>4 DEF BoundIn
    <3>7. SeriesOver(stored', BoundIn(stored, results[a].seen, results[a].run), results[a].asOf) = results[a].series
      BY <3>1, <3>6, SeriesSame
    <3>8. QED BY <1>5, <3>1, <3>2, <3>5, <3>7
  <2>2. QED BY <1>1, <1>6, <2>1 DEF SignalInv, ResultsSound
<1>14. FeedSound'
  <2>1. ASSUME NEW r \in feed.series
        PROVE  r.run \in 1..(n + 1) /\ stored'[r.run].origin = stored'[feed.run].origin
    <3>1. r.run \in 1..n /\ stored[r.run].origin = stored[feed.run].origin
      BY DEF SignalInv, FeedSound
    <3>2. feed.pc = "reading"
      BY DEF SignalInv, FeedSound, SignalTypes
    <3>3. feed.run \in 1..n
      BY <3>2 DEF SignalInv, FeedSound
    <3>4. QED BY <1>5, <1>6, <3>1, <3>3
  <2>2. feed.pc = "reading" => feed.run \in 1..(n + 1)
    BY <1>5 DEF SignalInv, FeedSound
  <2>3. feed.pc = "idle" => feed.series = {}
    BY DEF SignalInv, FeedSound
  <2>4. QED BY <1>1, <1>6, <2>1, <2>2, <2>3 DEF FeedSound
<1>15. QED BY <1>9, <1>11, <1>12, <1>13, <1>14 DEF SignalInv

\* What the rows of runs are made of.
LEMMA RowsTyped ==
    ASSUME SignalInv, NEW among \in SUBSET (1..Len(stored)), NEW a \in RowsIn(stored, among)
    PROVE  a \in Observed /\ a.run \in among
<1>1. PICK j \in among : \E s \in stored[j].signals : a = [run |-> j, target |-> s.target, at |-> s.at]
  BY Zenon DEF RowsIn
<1>2. PICK s \in stored[j].signals : a = [run |-> j, target |-> s.target, at |-> s.at]
  BY <1>1
<1>3. stored[j] \in StoredRun /\ j \in Nat
  BY StoredIs
<1>4. s \in SignalRow
  BY <1>3 DEF StoredRun
<1>5. QED BY <1>2, <1>3, <1>4 DEF SignalRow, Observed

LEMMA RowsAre == ASSUME NEW among PROVE S!Rows(among) = RowsIn(stored, among)
BY Zenon DEF S!Rows, RowsIn

LEMMA AskKeeps ==
    ASSUME SignalInv, NEW k, NEW asOf \in 0..MaxClock, S!Ask(k, asOf)
    PROVE  SignalInv'
<1> DEFINE n == Len(results)
           among == BoundIn(stored, Len(stored), k)
           new == [run |-> k, asOf |-> asOf, series |-> S!Stored(k, asOf), seen |-> Len(stored)]
<1>1. /\ n < MaxAnswers /\ k \in 1..Len(stored) /\ results' = Append(results, new)
      /\ UNCHANGED <<clock, stored, ingester, feed>>
  BY DEF S!Ask, S!Required, S!Runs
<1>2. S!Stored(k, asOf) = SeriesOver(stored, among, asOf)
  BY SeriesNow
<1>3. among \in SUBSET (1..Len(stored)) /\ Len(stored) \in Nat /\ MaxAnswers \in Nat
  BY StoredIs, SignalsAssumption DEF BoundIn
<1>4. new.series \in SUBSET Observed
  BY <1>2, <1>3, SeriesOf, RowsTyped
<1>5. new \in Result /\ new.seen = Len(stored) /\ new.run = k /\ new.asOf = asOf
      /\ new.series = SeriesOver(stored, BoundIn(stored, new.seen, new.run), new.asOf)
  BY <1>1, <1>2, <1>3, <1>4, SignalsAssumption DEF Result
<1> HIDE DEF new
<1>6. results \in Seq(Result) /\ n \in Nat
  BY ResultIs
<1>7. /\ results' \in Seq(Result) /\ Len(results') = n + 1 /\ results'[n + 1] = new
      /\ \A a \in 1..n : results'[a] = results[a]
  BY <1>1, <1>5, <1>6, AppendProperties
<1>8. SignalTypes'
  <2>1. Len(results') <= MaxAnswers
    BY <1>1, <1>3, <1>6, <1>7
  <2>2. QED BY <1>1, <1>7, <2>1 DEF SignalInv, SignalTypes, Result
<1>9. \A a \in 1..(n + 1) : a \in 1..n \/ a = n + 1
  BY <1>6
<1>10. ResultsSound'
  <2>1. ASSUME NEW a \in 1..(n + 1)
        PROVE  /\ results'[a].seen <= Len(stored) /\ results'[a].run \in 1..results'[a].seen
               /\ results'[a].series =
                     SeriesOver(stored, BoundIn(stored, results'[a].seen, results'[a].run), results'[a].asOf)
    <3>1. CASE a \in 1..n
      BY <1>7, <3>1 DEF SignalInv, ResultsSound
    <3>2. CASE a = n + 1
      BY <1>1, <1>3, <1>5, <1>7, <3>2
    <3>3. QED BY <1>9, <3>1, <3>2
  <2>2. ASSUME NEW a \in 1..(n + 1), NEW b \in 1..(n + 1), a < b PROVE results'[a].seen <= results'[b].seen
    <3>1. CASE b \in 1..n
      BY <1>6, <1>7, <1>9, <2>2, <3>1 DEF SignalInv, ResultsSound
    <3>2. CASE b = n + 1
      <4>1. results'[b].seen = Len(stored)
        BY <1>5, <1>7, <3>2
      <4>2. QED BY <2>1, <4>1
    <3>3. QED BY <1>9, <3>1, <3>2
  <2>3. QED BY <1>1, <1>7, <2>1, <2>2 DEF ResultsSound
<1>11. StoredSound' /\ IngesterSound' /\ FeedSound'
  BY <1>1 DEF SignalInv, StoredSound, IngesterSound, FeedSound
<1>12. QED BY <1>8, <1>10, <1>11 DEF SignalInv

\* Steps of the feed alone.
LEMMA FeedMoves ==
    ASSUME SignalInv, UNCHANGED <<clock, stored, ingester, results>>,
           feed' \in [pc : {"idle", "reading"}, run : 0..MaxRuns, left : SUBSET STRING, series : SUBSET Observed],
           FeedSound'
    PROVE  SignalInv'
<1>1. SignalTypes'
  BY DEF SignalInv, SignalTypes
<1>2. StoredSound' /\ IngesterSound' /\ ResultsSound'
  BY DEF SignalInv, StoredSound, IngesterSound, ResultsSound
<1>3. QED BY <1>1, <1>2 DEF SignalInv

LEMMA FeedIs == ASSUME SignalInv
    PROVE feed \in [pc : {"idle", "reading"}, run : 0..MaxRuns, left : SUBSET STRING, series : SUBSET Observed]
BY DEF SignalInv, SignalTypes

LEMMA BeginFeedKeeps == ASSUME SignalInv, NEW k, S!BeginFeed(k) PROVE SignalInv'
<1> DEFINE among == {j \in S!Runs : stored[j].origin = stored[k].origin}
<1>1. k \in 1..Len(stored) /\ UNCHANGED <<clock, stored, ingester, results>>
      /\ feed' = [pc |-> "reading", run |-> k, series |-> {}, left |-> S!TargetsOf(stored[k].origin)]
  BY DEF S!BeginFeed, S!Runs
<1>2. among \in SUBSET (1..Len(stored)) /\ k \in 0..MaxRuns
  BY <1>1, SignalsAssumption, StoredIs DEF S!Runs, SignalInv, SignalTypes
<1>3. S!TargetsOf(stored[k].origin) = {a.target : a \in RowsIn(stored, among)}
  BY Zenon, RowsAre DEF S!TargetsOf
<1>4. \A a \in RowsIn(stored, among) : a \in Observed
  BY <1>2, RowsTyped
<1>5. S!TargetsOf(stored[k].origin) \in SUBSET STRING
  BY <1>3, <1>4 DEF Observed
<1>6. feed'.pc = "reading" /\ feed'.run = k /\ feed'.series = {}
      /\ feed' \in [pc : {"idle", "reading"}, run : 0..MaxRuns, left : SUBSET STRING, series : SUBSET Observed]
  BY <1>1, <1>2, <1>5
<1>7. FeedSound'
  BY <1>1, <1>6 DEF FeedSound
<1>8. QED BY <1>1, <1>6, <1>7, FeedMoves

LEMMA ReadHistoryKeeps == ASSUME SignalInv, NEW t, S!ReadHistory(t) PROVE SignalInv'
<1> DEFINE origin == stored[feed.run].origin
           among == S!HistoryRuns(origin)
           found == {a \in S!Rows(among) : a.target = t}
<1>1. /\ feed.pc = "reading" /\ UNCHANGED <<clock, stored, ingester, results>>
      /\ feed' = [feed EXCEPT !.left = @ \ {t}, !.series = @ \cup S!Newest(found)]
  BY DEF S!ReadHistory
<1>2. S!Newest(found) \subseteq S!Rows(among)
  BY Zenon DEF S!Newest
<1>3. among \in SUBSET (1..Len(stored)) /\ \A j \in among : stored[j].origin = origin
  BY DEF S!HistoryRuns, S!Runs
<1>4. \A a \in S!Newest(found) : a \in Observed /\ a.run \in 1..Len(stored) /\ stored[a.run].origin = origin
  BY <1>2, <1>3, RowsAre, RowsTyped
<1> HIDE DEF found, among
<1>5. /\ feed'.pc = "reading" /\ feed'.run = feed.run /\ feed'.series = feed.series \cup S!Newest(found)
      /\ feed' \in [pc : {"idle", "reading"}, run : 0..MaxRuns, left : SUBSET STRING, series : SUBSET Observed]
  BY <1>1, <1>4, FeedIs
<1>6. FeedSound'
  BY <1>1, <1>4, <1>5 DEF SignalInv, FeedSound
<1>7. QED BY <1>1, <1>5, <1>6, FeedMoves

LEMMA EndFeedKeeps == ASSUME SignalInv, S!EndFeed PROVE SignalInv'
<1>1. UNCHANGED <<clock, stored, ingester, results>> /\ feed' = S!NoFeed
  BY DEF S!EndFeed
<1>2. feed'.pc = "idle" /\ feed'.series = {} /\ MaxRuns \in Nat
  BY <1>1, SignalsAssumption DEF S!NoFeed
<1>3. feed' \in [pc : {"idle", "reading"}, run : 0..MaxRuns, left : SUBSET STRING, series : SUBSET Observed]
  BY <1>1, <1>2 DEF S!NoFeed
<1>4. FeedSound'
  BY <1>2 DEF FeedSound
<1>5. QED BY <1>1, <1>3, <1>4, FeedMoves

LEMMA SignalsStep == ASSUME SignalInv, S!Next PROVE SignalInv'
<1>1. CASE S!Tick
  BY <1>1, ClockKeeps
<1>2. ASSUME NEW h \in Workers, NEW s \in Submissions, S!Submit(h, s) PROVE SignalInv'
  BY <1>2, SubmitKeeps
<1>3. ASSUME NEW h \in Workers, S!Find(h) \/ S!Insert(h) \/ S!Commit(h) \/ S!FindWinner(h) \/ S!End(h) PROVE SignalInv'
  BY <1>3, FindKeeps, InsertKeeps, CommitKeeps, WinnerKeeps, EndKeeps
<1>4. ASSUME NEW k \in 1..MaxRuns, NEW asOf \in 0..MaxClock, S!Ask(k, asOf) PROVE SignalInv'
  BY <1>4, AskKeeps
<1>5. ASSUME NEW k \in 1..MaxRuns, S!BeginFeed(k) PROVE SignalInv'
  BY <1>5, BeginFeedKeeps
<1>6. ASSUME NEW t, S!ReadHistory(t) PROVE SignalInv'
  BY <1>6, ReadHistoryKeeps
<1>7. CASE S!EndFeed
  BY <1>7, EndFeedKeeps
<1>8. QED BY <1>1, <1>2, <1>3, <1>4, <1>5, <1>6, <1>7 DEF S!Next

LEMMA SignalStutter == ASSUME SignalInv, UNCHANGED signalVars PROVE SignalInv'
<1>1. UNCHANGED <<clock, stored, ingester, results, feed>>
  BY DEF signalVars
<1>2. SignalTypes'
  BY <1>1 DEF SignalInv, SignalTypes
<1>3. StoredSound' /\ IngesterSound' /\ ResultsSound' /\ FeedSound'
  BY <1>1 DEF SignalInv, StoredSound, IngesterSound, ResultsSound, FeedSound
<1>4. QED BY <1>2, <1>3 DEF SignalInv

-----------------------------------------------------------------------------
\* Each entry of a snapshot has a target of its own, so it has as many.
LEMMA AsManyTargets ==
    ASSUME NEW s \in Submissions, S!AssertSnapshot(s.entries)
    PROVE  Cardinality({a.target : a \in S!Signals(s)}) = Len(s.entries)
<1> DEFINE e == s.entries
           targets == {a.target : a \in S!Signals(s)}
           name == [k \in 1..Len(e) |-> e[k].target]
<1>1. e \in Seq(S!Entry) /\ Len(e) \in Nat /\ DOMAIN e = 1..Len(e)
  BY GivenIs
<1>2. \A j, k \in 1..Len(e) : e[j].target = e[k].target => j = k
  BY <1>1 DEF S!AssertSnapshot
<1>3. targets = {e[k].target : k \in 1..Len(e)}
  <2>1. S!Signals(s) = {S!Row(e[k]) : k \in 1..Len(e)}
    BY <1>1 DEF S!Signals
  <2>2. \A k \in 1..Len(e) : S!Row(e[k]).target = e[k].target
    BY DEF S!Row
  <2> HIDE DEF e
  <2>3. QED BY <2>1, <2>2
<1> HIDE DEF e, targets
<1>4. name \in Bijection(1..Len(e), targets)
  <2>1. name \in [1..Len(e) -> targets]
    BY <1>3
  <2>2. \A j, k \in 1..Len(e) : name[j] = name[k] => j = k
    BY <1>2
  <2>3. \A t \in targets : \E k \in 1..Len(e) : name[k] = t
    BY <1>3
  <2> HIDE DEF name
  <2>4. QED BY <2>1, <2>2, <2>3 DEF Bijection, Injection, Surjection, IsInjective
<1>5. ExistsBijection(1..Len(e), targets)
  BY <1>4 DEF ExistsBijection
<1>6. QED BY <1>1, <1>5, FS_CountingElements DEF targets, e

LEMMA StoredIsOnce == SignalInv => S!StoredOnce
<1> SUFFICES ASSUME SignalInv PROVE S!StoredOnce
  OBVIOUS
<1>1. \A j, k \in S!Runs : stored[j].key = stored[k].key => j = k
  BY DEF SignalInv, StoredSound, S!Runs
<1>2. ASSUME NEW j \in S!Runs
      PROVE  S!Cardinality({a.target : a \in stored[j].signals}) = Len(stored[j].by.entries)
  <2>1. j \in 1..Len(stored)
    BY DEF S!Runs
  <2>2. S!Accepts(stored[j].by) /\ stored[j] = S!Completed(stored[j].by, stored[j].completed)
    BY <2>1 DEF SignalInv, StoredSound
  <2>3. stored[j].by \in Submissions
    BY <2>1, StoredIs DEF StoredRun
  <2>4. stored[j].signals = S!Signals(stored[j].by) /\ S!AssertSnapshot(stored[j].by.entries)
    BY <2>2 DEF S!Completed, S!Accepts
  <2>5. Cardinality({a.target : a \in stored[j].signals}) = Len(stored[j].by.entries)
    BY <2>3, <2>4, AsManyTargets
  <2>6. \A X : S!Cardinality(X) = Cardinality(X)
    BY Zenon DEF S!Cardinality, Cardinality
  <2>7. QED BY <2>5, <2>6
<1>3. \A h \in Workers : ingester[h].pc = "done" =>
          ingester[h].run \in S!Runs /\ stored[ingester[h].run].key = S!KeyOf(ingester[h].of)
  BY DEF SignalInv, IngesterSound, S!Runs
<1>4. QED BY <1>1, <1>2, <1>3 DEF S!StoredOnce

LEMMA LiveIs == SignalInv => S!LiveIsQueried
<1> SUFFICES ASSUME SignalInv, NEW j \in 1..Len(stored), stored[j].origin = "live"
             PROVE  stored[j].by.kind = "client" /\ stored[j].by.valid /\ ~stored[j].by.reserved
  BY DEF S!LiveIsQueried, S!Runs
<1>1. S!Accepts(stored[j].by) /\ stored[j] = S!Completed(stored[j].by, stored[j].completed)
  BY DEF SignalInv, StoredSound
<1>2. S!OriginOf(stored[j].by) = "live"
  BY <1>1 DEF S!Completed
<1>3. QED BY <1>1, <1>2 DEF S!Accepts, S!AssertFile, S!AssertClient, S!OriginOf

\* Between two answers only late runs change what is within a boundary.
LEMMA ResultsStand == SignalInv => S!ResultStands
<1> SUFFICES ASSUME SignalInv, NEW a \in 1..Len(results), NEW b \in 1..Len(results)
             PROVE  LET x == results[a]
                        y == results[b]
                        late == {j \in x.seen + 1..y.seen : stored[j].completed <= stored[x.run].completed}
                    IN  /\ \A r \in x.series : stored[r.run].origin = stored[x.run].origin /\ r.at <= x.asOf
                        /\ x.run = y.run /\ x.asOf = y.asOf /\ a < b /\ late = {} => x.series = y.series
  <2>1. DOMAIN results = 1..Len(results)
    BY ResultIs
  <2>2. QED BY Zenon, <2>1 DEF S!ResultStands
<1> DEFINE x == results[a]
           y == results[b]
           late == {j \in x.seen + 1..y.seen : stored[j].completed <= stored[x.run].completed}
<1>1. x.series = SeriesOver(stored, BoundIn(stored, x.seen, x.run), x.asOf)
      /\ y.series = SeriesOver(stored, BoundIn(stored, y.seen, y.run), y.asOf)
  BY DEF SignalInv, ResultsSound
<1>2. x.seen \in Nat /\ y.seen \in Nat
  BY ResultIs
<1>3. \A r \in x.series : stored[r.run].origin = stored[x.run].origin /\ r.at <= x.asOf
  BY <1>1, SeriesOf DEF BoundIn
<1>4. ASSUME x.run = y.run, x.asOf = y.asOf, a < b, late = {} PROVE x.series = y.series
  <2>1. x.seen <= y.seen
    BY <1>4 DEF SignalInv, ResultsSound
  <2>2. \A j \in 1..y.seen : j \in 1..x.seen \/ j \in x.seen + 1..y.seen
    BY <1>2
  <2>3. \A j \in x.seen + 1..y.seen : ~(stored[j].completed <= stored[x.run].completed)
    BY <1>4
  <2>4. \A j \in 1..x.seen : j \in 1..y.seen
    BY <1>2, <2>1
  <2> HIDE DEF x, y, late
  <2>5. BoundIn(stored, x.seen, x.run) = BoundIn(stored, y.seen, x.run)
    BY <2>2, <2>3, <2>4 DEF BoundIn
  <2>6. QED BY <1>1, <1>4, <2>5
<1>5. QED BY Zenon, <1>3, <1>4

LEMMA SignalsAreSound ==
    SignalInv => S!TypeOK /\ S!StoredOnce /\ S!LiveIsQueried /\ S!ResultStands /\ S!FeedOfOneOrigin
<1> SUFFICES ASSUME SignalInv PROVE S!TypeOK /\ S!FeedOfOneOrigin
  BY StoredIsOnce, LiveIs, ResultsStand
<1>1. \A j \in S!Runs : stored[j].completed \in 0..clock /\ stored[j].origin \in S!Origins
  <2> SUFFICES ASSUME NEW j \in 1..Len(stored) PROVE stored[j].completed \in 0..clock /\ stored[j].origin \in S!Origins
    BY DEF S!Runs
  <2>1. stored[j].completed \in Nat /\ stored[j].origin \in S!Origins
    BY StoredIs DEF StoredRun
  <2>2. stored[j].completed <= clock /\ clock \in Nat
    BY SignalsAssumption DEF SignalInv, StoredSound, SignalTypes
  <2>3. QED BY <2>1, <2>2
<1>2. \A h \in Workers : ingester[h].pc \in {"idle", "find", "insert", "commit", "lost", "done"}
  BY IngesterIs
<1>3. feed.run \in 0..MaxRuns
  BY FeedIs
<1>4. S!TypeOK
  BY <1>1, <1>2, <1>3 DEF SignalInv, SignalTypes, S!TypeOK
<1>5. S!FeedOfOneOrigin
  BY DEF SignalInv, FeedSound, S!FeedOfOneOrigin
<1>6. QED BY <1>4, <1>5

-----------------------------------------------------------------------------
(* The reading of the sources. *)

Underway == {"target", "robots", "page"}
ReadStates == {"read", "partly_read"}

\* The codes of the stage, and what a page may fail with.
Codes ==
    {"none", "stage_timeout", "refused", "unresolved", "robots_unavailable", "robots_disallowed",
     "redirect_refused", "redirect_limit", "redirect_downgrade", "body_limit", "text_limit"}
    \cup {p.code : p \in PageAnswers}

OutcomeSet == [row : Nat, status : {"none", "not_read"} \cup ReadStates, code : Codes, chars : Nat]

FetchSet ==
    [at : {"none", "done"} \cup Underway, row : Nat, current : Urls \cup {Nowhere},
     hop : 0..RedirectLimit, outcome : OutcomeSet]

ReaderSet == [at : {"free", "waiting", "over"}, index : Nat]

Known == [A!Origins -> {A!NotAsked, A!BeingAsked} \cup Permissions]

\* What a fetch of u may be, of what is known of the origins.
FetchSound(u, f, known) ==
    /\ f.at \in Underway \/ f.outcome.status \in ReadStates =>
          f.current \in Urls \ RefusedUrls /\ (u \in Https => f.current \in Https)
    /\ f.at = "page" \/ f.outcome.status \in ReadStates =>
          /\ known[Origin[f.current]].kind \in {"none", "rules"}
          /\ A!Allows(known[Origin[f.current]], f.current)
    /\ f.at # "done" => f.outcome = A!NoOutcome
    /\ f.at = "done" => f.outcome.status # "none"

WaitsFor(r, u) == reader[r].at = "waiting" /\ Sources[reader[r].index].url = u

Told(i) == [fetch[Sources[i].url].outcome EXCEPT !.row = Sources[i].row]

ReadTypes ==
    /\ time \in 0..MaxTime /\ next \in Nat \ {0}
    /\ reader \in [Readers -> ReaderSet]
    /\ fetch \in [A!Selected -> FetchSet]
    /\ robots \in Known
    /\ DOMAIN fetched = A!Indices
    /\ reading = <<>> \/ DOMAIN reading = A!Indices

\* A reader that waits does for a source that was taken; one that is over found none left.
ReadersSound ==
    /\ \A r \in Readers : reader[r].at = "waiting" => reader[r].index \in A!Indices
    /\ \A r \in Readers : reader[r].at = "over" => next > Len(Sources)

\* What is under way is waited for.
Awaited == \A u \in A!Selected : fetch[u].at \in Underway => \E r \in Readers : WaitsFor(r, u)

\* A source that was taken is waited for, or has its outcome.
Delivered ==
    \A i \in A!Indices : i < next =>
        \/ \E r \in Readers : reader[r].at = "waiting" /\ reader[r].index = i
        \/ fetch[Sources[i].url].at = "done" /\ fetched[i] = Told(i)

ReadingSound ==
    reading # <<>> =>
        /\ \A r \in Readers : reader[r].at = "over"
        /\ \A i \in A!Indices :
              /\ fetch[Sources[i].url].at = "done"
              /\ reading[i] = A!Unread(Sources[i].row, "text_limit") \/ reading[i] = Told(i)

ReadInv ==
    /\ ReadTypes /\ ReadersSound /\ Awaited /\ Delivered /\ ReadingSound
    /\ \A u \in A!Selected : FetchSound(u, fetch[u], robots)

LEMMA SourceIs ==
    /\ A!Indices = 1..Len(Sources) /\ Len(Sources) \in Nat
    /\ \A i \in A!Indices : Sources[i].row \in Nat /\ Sources[i].url \in Urls /\ Sources[i].url \in A!Selected
    /\ \A u \in A!Selected : u \in Urls
<1>1. Sources \in Seq([row : Nat, url : Urls])
  BY ReadingAssumption
<1>2. A!Indices = 1..Len(Sources) /\ Len(Sources) \in Nat
  BY <1>1 DEF A!Indices
<1>3. \A i \in 1..Len(Sources) : Sources[i] \in [row : Nat, url : Urls]
  BY <1>1, ElementOfSeq
<1>4. \A i \in A!Indices : Sources[i].row \in Nat /\ Sources[i].url \in Urls /\ Sources[i].url \in A!Selected
  BY <1>2, <1>3 DEF A!Selected
<1>5. QED BY <1>2, <1>4 DEF A!Selected

LEMMA NoneIs ==
    /\ A!NoOutcome \in OutcomeSet /\ A!NoOutcome.status = "none"
    /\ A!NoFetch \in FetchSet /\ A!NoFetch.at = "none" /\ A!NoFetch.outcome = A!NoOutcome
    /\ A!NoFetch.hop = 0 /\ RedirectLimit \in Nat
<1>1. RedirectLimit \in Nat
  BY ReadingAssumption
<1>2. A!NoOutcome = [row |-> 0, status |-> "none", code |-> "none", chars |-> 0]
  BY DEF A!NoOutcome, A!Outcome
<1>3. A!NoOutcome \in OutcomeSet /\ A!NoOutcome.status = "none"
  BY <1>2 DEF OutcomeSet, Codes
<1>4. A!NoFetch = [at |-> "none", row |-> 0, current |-> Nowhere, hop |-> 0, outcome |-> A!NoOutcome]
  BY DEF A!NoFetch
<1>5. 0 \in 0..RedirectLimit
  BY <1>1
<1>6. A!NoFetch \in FetchSet
  BY <1>3, <1>4, <1>5 DEF FetchSet
<1>7. QED BY <1>1, <1>3, <1>4, <1>6

LEMMA ReadInit == A!Init => ReadInv
<1> SUFFICES ASSUME A!Init PROVE ReadInv
  OBVIOUS
<1>1. \A u \in A!Selected : fetch[u] = A!NoFetch
  BY DEF A!Init
<1>2. \A r \in Readers : reader[r].at = "free"
  BY DEF A!Init
<1>3. reader \in [Readers -> ReaderSet] /\ fetch \in [A!Selected -> FetchSet] /\ robots \in Known
  BY NoneIs DEF A!Init, ReaderSet, Known
<1>4. time \in 0..MaxTime /\ next = 1 /\ DOMAIN fetched = A!Indices /\ reading = <<>>
  BY ReadingAssumption DEF A!Init
<1>5. ReadTypes
  BY <1>3, <1>4 DEF ReadTypes
<1>6. ReadersSound /\ Awaited
  BY <1>1, <1>2, NoneIs DEF ReadersSound, Awaited, Underway
<1>7. Delivered
  BY <1>4, SourceIs DEF Delivered
<1>8. ReadingSound
  BY <1>4 DEF ReadingSound
<1>9. \A u \in A!Selected : FetchSound(u, fetch[u], robots)
  BY <1>1, NoneIs DEF FetchSound, Underway, ReadStates
<1>10. QED BY <1>5, <1>6, <1>7, <1>8, <1>9 DEF ReadInv

\* What is known of an origin stays known.
Keeps(known, later) ==
    \A o \in A!Origins : known[o].kind \in {"none", "rules"} => later[o] = known[o]

LEMMA SoundLater ==
    ASSUME NEW u, NEW f, NEW known, NEW later, FetchSound(u, f, known), Keeps(known, later)
    PROVE  FetchSound(u, f, later)
<1>1. \A v \in Urls : Origin[v] \in A!Origins
  BY DEF A!Origins
<1>2. f.at = "page" => f.at \in Underway
  BY DEF Underway
<1>3. f.at = "page" \/ f.outcome.status \in ReadStates =>
          Origin[f.current] \in A!Origins /\ later[Origin[f.current]] = known[Origin[f.current]]
  BY <1>1, <1>2 DEF FetchSound, Keeps
<1>4. QED BY <1>3 DEF FetchSound

\* A step of one fetch that is under way.
LEMMA FetchMoves ==
    ASSUME ReadInv, NEW u \in A!Selected, fetch[u].at \in Underway,
           NEW f \in FetchSet, f.at # "none", fetch' = [fetch EXCEPT ![u] = f],
           robots' \in Known, Keeps(robots, robots'), FetchSound(u, f, robots'),
           UNCHANGED <<time, next, reader, fetched, reading>>
    PROVE  ReadInv'
<1>1. ReadTypes'
  BY DEF ReadInv, ReadTypes
<1>2. /\ fetch'[u] = f
      /\ \A v \in A!Selected : v # u => fetch'[v] = fetch[v]
  BY DEF ReadInv, ReadTypes
<1>3. ReadersSound'
  BY DEF ReadInv, ReadersSound
<1>4. Awaited'
  <2>1. \A v \in A!Selected : fetch'[v].at \in Underway => fetch[v].at \in Underway
    BY <1>2
  <2>2. \A v \in A!Selected : fetch'[v].at \in Underway => \E r \in Readers : WaitsFor(r, v)
    BY <2>1 DEF ReadInv, Awaited
  <2>3. QED BY <2>2 DEF Awaited, WaitsFor
<1>5. fetch[u].at # "done"
  BY DEF Underway
<1>6. \A i \in A!Indices : fetch[Sources[i].url].at = "done" => fetch'[Sources[i].url] = fetch[Sources[i].url]
  BY <1>2, <1>5, SourceIs
<1>7. Delivered'
  <2> SUFFICES ASSUME NEW i \in A!Indices, i < next
               PROVE  \/ \E r \in Readers : reader[r].at = "waiting" /\ reader[r].index = i
                      \/ fetch'[Sources[i].url].at = "done" /\ fetched[i] = Told(i)'
    BY DEF Delivered
  <2>1. CASE \E r \in Readers : reader[r].at = "waiting" /\ reader[r].index = i
    BY <2>1
  <2>2. CASE fetch[Sources[i].url].at = "done" /\ fetched[i] = Told(i)
    BY <1>6, <2>2 DEF Told
  <2>3. QED BY <2>1, <2>2 DEF ReadInv, Delivered
<1>8. ReadingSound'
  <2>1. \E r \in Readers : WaitsFor(r, u)
    BY DEF ReadInv, Awaited
  <2>2. reading = <<>>
    BY <2>1 DEF ReadInv, ReadingSound, WaitsFor
  <2>3. QED BY <2>2 DEF ReadingSound
<1>9. ASSUME NEW v \in A!Selected PROVE FetchSound(v, fetch'[v], robots')
  <2>1. CASE v = u
    BY <1>2, <2>1
  <2>2. CASE v # u
    <3>1. FetchSound(v, fetch[v], robots)
      BY DEF ReadInv
    <3>2. QED BY <1>2, <2>2, <3>1, SoundLater
  <2>3. QED BY <2>1, <2>2
<1>10. QED BY <1>1, <1>3, <1>4, <1>7, <1>8, <1>9 DEF ReadInv

LEMMA FetchIs == ASSUME ReadInv, NEW u \in A!Selected
    PROVE  fetch[u] \in FetchSet /\ FetchSound(u, fetch[u], robots)
BY DEF ReadInv, ReadTypes

LEMMA RobotsAre == ASSUME ReadInv PROVE robots \in Known /\ Keeps(robots, robots)
BY DEF ReadInv, ReadTypes, Keeps

\* A fetch that fails was nowhere it may not be.
LEMMA FailedIs ==
    ASSUME NEW f \in FetchSet, NEW code \in Codes
    PROVE  /\ A!Failed(f, code) \in FetchSet /\ A!Failed(f, code).at = "done"
           /\ \A u, known : FetchSound(u, A!Failed(f, code), known)
<1> DEFINE out == A!Unread(f.row, code)
<1>1. out \in OutcomeSet /\ out.status = "not_read"
  BY DEF A!Unread, A!Outcome, OutcomeSet, FetchSet, ReadStates
<1>2. A!Failed(f, code) = [f EXCEPT !.at = "done", !.outcome = out]
  BY DEF A!Failed, A!Ended
<1> HIDE DEF out
<1>3. A!Failed(f, code) \in FetchSet /\ A!Failed(f, code).at = "done" /\ A!Failed(f, code).outcome = out
  BY <1>1, <1>2 DEF FetchSet
<1>4. QED BY <1>1, <1>3 DEF FetchSound, Underway, ReadStates

LEMMA FailedKeeps ==
    ASSUME ReadInv, NEW u \in A!Selected, fetch[u].at \in Underway, NEW code \in Codes,
           fetch' = [fetch EXCEPT ![u] = A!Failed(fetch[u], code)],
           UNCHANGED <<time, next, reader, robots, fetched, reading>>
    PROVE  ReadInv'
<1>1. fetch[u] \in FetchSet
  BY FetchIs
<1> DEFINE f == A!Failed(fetch[u], code)
<1>2. f \in FetchSet /\ f.at = "done" /\ FetchSound(u, f, robots)
  BY <1>1, FailedIs
<1> HIDE DEF f
<1>3. fetch' = [fetch EXCEPT ![u] = f]
  BY DEF f
<1>4. QED BY <1>2, <1>3, RobotsAre, FetchMoves

LEMMA ResolveKeeps == ASSUME ReadInv, NEW u \in A!Selected, A!Resolve(u) PROVE ReadInv'
<1>1. fetch[u].at = "target" /\ fetch[u].at \in Underway /\ UNCHANGED <<time, next, reader, fetched, reading>>
  BY DEF A!Resolve, Underway
<1>2. CASE fetch' = [fetch EXCEPT ![u] = A!Failed(fetch[u], "unresolved")] /\ UNCHANGED robots
  <2>1. "unresolved" \in Codes
    BY DEF Codes
  <2>2. QED BY <1>1, <1>2, <2>1, FailedKeeps
<1> DEFINE f == [fetch[u] EXCEPT !.at = "robots"]
           o == Origin[fetch[u].current]
<1>3. CASE /\ fetch' = [fetch EXCEPT ![u] = f]
           /\ robots' = IF robots[o] = A!NotAsked THEN [robots EXCEPT ![o] = A!BeingAsked] ELSE robots
  <2>1. fetch[u] \in FetchSet /\ FetchSound(u, fetch[u], robots)
    BY FetchIs
  <2>2. f \in FetchSet /\ f.at = "robots" /\ f.current = fetch[u].current /\ f.outcome = fetch[u].outcome
    BY <2>1 DEF FetchSet, Underway
  <2>3. robots' \in Known /\ Keeps(robots, robots')
    <3> HIDE DEF o
    <3>1. robots' \in Known
      BY <1>3, RobotsAre DEF Known
    <3>2. A!NotAsked.kind = "unasked"
      BY DEF A!NotAsked
    <3>3. Keeps(robots, robots')
      BY <1>3, <3>2, RobotsAre DEF Keeps, Known
    <3>4. QED BY <3>1, <3>3
  <2>4. fetch[u].outcome = A!NoOutcome /\ f.outcome.status = "none"
    BY <1>1, <2>1, <2>2, NoneIs DEF FetchSound
  <2> HIDE DEF f, o
  <2>5. FetchSound(u, f, robots')
    BY <1>1, <2>1, <2>2, <2>4 DEF FetchSound, ReadStates
  <2>6. QED BY <1>1, <1>3, <2>2, <2>3, <2>5, FetchMoves
<1> HIDE DEF f, o
<1>4. \/ fetch' = [fetch EXCEPT ![u] = A!Failed(fetch[u], "unresolved")] /\ UNCHANGED robots
      \/ /\ fetch' = [fetch EXCEPT ![u] = f]
         /\ robots' = IF robots[o] = A!NotAsked THEN [robots EXCEPT ![o] = A!BeingAsked] ELSE robots
  BY Zenon DEF A!Resolve, A!Go, f, o
<1>5. QED BY <1>2, <1>3, <1>4

LEMMA RobotsAnsweredKeeps == ASSUME ReadInv, NEW o \in A!Origins, A!RobotsAnswered(o) PROVE ReadInv'
<1>1. PICK p \in Permissions : robots' = [robots EXCEPT ![o] = p]
  BY DEF A!RobotsAnswered
<1>2. robots[o] = A!BeingAsked /\ UNCHANGED <<time, next, reader, fetch, fetched, reading>>
  BY DEF A!RobotsAnswered
<1>3. robots' \in Known
  BY <1>1, RobotsAre DEF Known
<1>4. robots[o].kind = "asked"
  BY <1>2 DEF A!BeingAsked
<1>5. Keeps(robots, robots')
  BY <1>1, <1>4, RobotsAre DEF Keeps, Known
<1>6. ReadTypes'
  BY <1>2, <1>3 DEF ReadInv, ReadTypes
<1>7. ReadersSound' /\ Awaited' /\ Delivered' /\ ReadingSound'
  BY <1>2 DEF ReadInv, ReadersSound, Awaited, WaitsFor, Delivered, ReadingSound, Told
<1>8. \A u \in A!Selected : FetchSound(u, fetch[u], robots')
  BY <1>5, FetchIs, SoundLater
<1>9. QED BY <1>2, <1>6, <1>7, <1>8 DEF ReadInv

LEMMA PermitKeeps == ASSUME ReadInv, NEW u \in A!Selected, A!Permit(u) PROVE ReadInv'
<1> DEFINE permission == robots[Origin[fetch[u].current]]
           f == [fetch[u] EXCEPT !.at = "page"]
<1>1. /\ fetch[u].at = "robots" /\ fetch[u].at \in Underway /\ permission \in Permissions
      /\ UNCHANGED <<time, next, reader, robots, fetched, reading>>
      /\ fetch' = [fetch EXCEPT ![u] =
            IF permission.kind = "unavailable" THEN A!Failed(fetch[u], "robots_unavailable")
            ELSE IF ~A!Allows(permission, fetch[u].current) THEN A!Failed(fetch[u], "robots_disallowed")
            ELSE f]
  BY DEF A!Permit, A!Go, Underway
<1> "robots_unavailable" \in Codes /\ "robots_disallowed" \in Codes
  BY DEF Codes
<1>2. CASE permission.kind = "unavailable"
  <2>1. fetch' = [fetch EXCEPT ![u] = A!Failed(fetch[u], "robots_unavailable")]
    BY <1>1, <1>2
  <2> HIDE DEF permission, f
  <2>2. QED BY <1>1, <2>1, FailedKeeps
<1>3. CASE permission.kind # "unavailable" /\ ~A!Allows(permission, fetch[u].current)
  <2>1. fetch' = [fetch EXCEPT ![u] = A!Failed(fetch[u], "robots_disallowed")]
    BY <1>1, <1>3
  <2> HIDE DEF permission, f
  <2>2. QED BY <1>1, <2>1, FailedKeeps
<1>4. CASE permission.kind # "unavailable" /\ A!Allows(permission, fetch[u].current)
  <2>1. fetch[u] \in FetchSet /\ FetchSound(u, fetch[u], robots)
    BY FetchIs
  <2>2. f \in FetchSet /\ f.at = "page" /\ f.current = fetch[u].current /\ f.outcome = fetch[u].outcome
    BY <2>1 DEF FetchSet, Underway
  <2>3. permission.kind \in {"none", "rules"}
    BY <1>1, <1>4, ReadingAssumption
  <2>4. fetch[u].outcome = A!NoOutcome /\ f.outcome.status = "none"
    BY <1>1, <2>1, <2>2, NoneIs DEF FetchSound
  <2>5. FetchSound(u, f, robots)
    BY <1>1, <1>4, <2>1, <2>2, <2>3, <2>4 DEF FetchSound, ReadStates
  <2>6. fetch' = [fetch EXCEPT ![u] = f]
    BY <1>1, <1>4
  <2> HIDE DEF f, permission
  <2>7. QED BY <1>1, <2>2, <2>5, <2>6, RobotsAre, FetchMoves
<1>5. QED BY <1>2, <1>3, <1>4

\* What a redirect comes to.
LEMMA RedirectedIs ==
    ASSUME ReadInv, NEW u \in A!Selected, fetch[u].at = "page", NEW to \in Urls \cup {Nowhere}
    PROVE  LET f == A!Redirected(fetch[u], to) IN f \in FetchSet /\ f.at # "none" /\ FetchSound(u, f, robots)
<1>1. fetch[u] \in FetchSet /\ FetchSound(u, fetch[u], robots) /\ fetch[u].at \in Underway
  BY FetchIs DEF Underway
<1>2. CASE to = Nowhere \/ fetch[u].hop >= RedirectLimit \/ A!Rejected(to) \/ (fetch[u].current \in Https /\ to \notin Https)
  <2>1. \E code \in {"redirect_refused", "redirect_limit", "refused", "redirect_downgrade"} :
            A!Redirected(fetch[u], to) = A!Failed(fetch[u], code)
    BY <1>2 DEF A!Redirected
  <2>2. PICK code \in Codes : A!Redirected(fetch[u], to) = A!Failed(fetch[u], code)
    BY <2>1 DEF Codes
  <2>3. QED BY <1>1, <2>2, FailedIs
<1>3. CASE ~(to = Nowhere \/ fetch[u].hop >= RedirectLimit \/ A!Rejected(to) \/ (fetch[u].current \in Https /\ to \notin Https))
  <2> DEFINE g == [fetch[u] EXCEPT !.hop = @ + 1]
             f == [g EXCEPT !.at = "target", !.current = to]
  <2>1. A!Redirected(fetch[u], to) = f
    BY <1>3 DEF A!Redirected, A!Toward
  <2>2. fetch[u].hop + 1 \in 0..RedirectLimit
    BY <1>1, <1>3, NoneIs DEF FetchSet
  <2>3. g \in FetchSet /\ g.outcome = fetch[u].outcome
    BY <1>1, <2>2 DEF FetchSet
  <2> HIDE DEF g
  <2>4. f \in FetchSet /\ f.at = "target" /\ f.current = to /\ f.outcome = fetch[u].outcome
    BY <2>3 DEF FetchSet, Underway
  <2> HIDE DEF f
  <2>5. to \in Urls \ RefusedUrls /\ (u \in Https => to \in Https)
    BY <1>1, <1>3 DEF FetchSound, A!Rejected
  <2>6. f.outcome = A!NoOutcome /\ f.outcome.status = "none"
    BY <1>1, <2>4, NoneIs DEF FetchSound
  <2>7. FetchSound(u, f, robots)
    BY <2>4, <2>5, <2>6 DEF FetchSound, ReadStates
  <2>8. QED BY <2>1, <2>4, <2>7
<1>4. QED BY <1>2, <1>3

\* What a page read comes to.
LEMMA ReadAsIs ==
    ASSUME ReadInv, NEW u \in A!Selected, fetch[u].at = "page", NEW page, page.chars \in Nat,
           NEW chars \in A!Kept(page)
    PROVE  LET f == A!ReadAs(fetch[u], page, chars) IN f \in FetchSet /\ f.at # "none" /\ FetchSound(u, f, robots)
<1>1. fetch[u] \in FetchSet /\ FetchSound(u, fetch[u], robots) /\ fetch[u].at \in Underway
  BY FetchIs DEF Underway
<1>2. chars \in Nat
  BY ReadingAssumption DEF A!Kept, A!Extracted
<1> DEFINE code == A!Completeness(page, chars)
           out == A!Outcome(fetch[u].row, IF code = "none" THEN "read" ELSE "partly_read", code, chars)
           f == [fetch[u] EXCEPT !.at = "done", !.outcome = out]
<1>3. A!ReadAs(fetch[u], page, chars) = f
  BY DEF A!ReadAs, A!Ended
<1>4. code \in Codes
  <2>1. code \in {"body_limit", "text_limit", "none"}
    BY DEF A!Completeness
  <2>2. QED BY <2>1 DEF Codes
<1> HIDE DEF code
<1>5. out \in OutcomeSet /\ out.status \in ReadStates
  BY <1>1, <1>2, <1>4 DEF A!Outcome, OutcomeSet, FetchSet, ReadStates
<1> HIDE DEF out
<1>6. f \in FetchSet /\ f.at = "done" /\ f.outcome = out /\ f.current = fetch[u].current
  BY <1>1, <1>5 DEF FetchSet
<1> HIDE DEF f
<1>7. FetchSound(u, f, robots)
  BY <1>1, <1>5, <1>6 DEF FetchSound, ReadStates
<1>8. QED BY <1>3, <1>6, <1>7

LEMMA AnswerKeeps == ASSUME ReadInv, NEW u \in A!Selected, A!Answer(u) PROVE ReadInv'
<1>1. fetch[u].at = "page" /\ fetch[u].at \in Underway /\ UNCHANGED <<time, next, reader, robots, fetched, reading>>
  BY DEF A!Answer, Underway
<1>2. PICK page \in PageAnswers :
        \/ page.kind = "redirect" /\ A!Go(u, A!Redirected(fetch[u], page.to))
        \/ page.kind = "failed" /\ A!Go(u, A!Failed(fetch[u], page.code))
        \/ page.kind = "page" /\ A!DeclaredTooLong(page) /\ A!Go(u, A!Failed(fetch[u], "body_limit"))
        \/ page.kind = "page" /\ \E chars \in A!Kept(page) : A!Go(u, A!ReadAs(fetch[u], page, chars))
  BY Zenon DEF A!Answer
<1>3. CASE page.kind = "redirect" /\ A!Go(u, A!Redirected(fetch[u], page.to))
  <2> DEFINE f == A!Redirected(fetch[u], page.to)
  <2>1. page.to \in Urls \cup {Nowhere}
    BY <1>3, ReadingAssumption
  <2>2. f \in FetchSet /\ f.at # "none" /\ FetchSound(u, f, robots)
    BY <1>1, <2>1, RedirectedIs
  <2>3. fetch' = [fetch EXCEPT ![u] = f]
    BY <1>3 DEF A!Go
  <2> HIDE DEF f
  <2>4. QED BY <1>1, <2>2, <2>3, RobotsAre, FetchMoves
<1>4. CASE page.kind = "failed" /\ A!Go(u, A!Failed(fetch[u], page.code))
  <2>1. page.code \in Codes
    BY DEF Codes
  <2>2. QED BY <1>1, <1>4, <2>1, FailedKeeps DEF A!Go
<1>5. CASE A!Go(u, A!Failed(fetch[u], "body_limit"))
  <2>1. "body_limit" \in Codes
    BY DEF Codes
  <2>2. QED BY <1>1, <1>5, <2>1, FailedKeeps DEF A!Go
<1>6. CASE page.kind = "page" /\ \E chars \in A!Kept(page) : A!Go(u, A!ReadAs(fetch[u], page, chars))
  <2>1. PICK chars \in A!Kept(page) : A!Go(u, A!ReadAs(fetch[u], page, chars))
    BY <1>6
  <2> DEFINE f == A!ReadAs(fetch[u], page, chars)
  <2>2. page.chars \in Nat
    BY <1>6, ReadingAssumption
  <2>3. f \in FetchSet /\ f.at # "none" /\ FetchSound(u, f, robots)
    BY <1>1, <2>2, ReadAsIs
  <2>4. fetch' = [fetch EXCEPT ![u] = f]
    BY <2>1 DEF A!Go
  <2> HIDE DEF f
  <2>5. QED BY <1>1, <2>3, <2>4, RobotsAre, FetchMoves
<1>7. QED BY <1>2, <1>3, <1>4, <1>5, <1>6

\* What a source's fetch begins as.
LEMMA BegunIs ==
    ASSUME ReadInv, NEW i \in A!Indices
    PROVE  /\ A!Begun(Sources[i]) \in FetchSet /\ A!Begun(Sources[i]).at # "none"
           /\ FetchSound(Sources[i].url, A!Begun(Sources[i]), robots)
<1> DEFINE u == Sources[i].url
           g == [A!NoFetch EXCEPT !.row = Sources[i].row]
           f == A!Begun(Sources[i])
<1>1. u \in Urls /\ Sources[i].row \in Nat
  BY SourceIs
<1>2. g \in FetchSet /\ g.outcome = A!NoOutcome
  BY <1>1, NoneIs DEF FetchSet
<1>3. f = IF time >= StageTimeout THEN A!Failed(g, "stage_timeout") ELSE A!Toward(g, u)
  BY Zenon DEF A!Begun
<1> SUFFICES f \in FetchSet /\ f.at # "none" /\ FetchSound(u, f, robots)
  OBVIOUS
<1> HIDE DEF f, g, u
<1>4. CASE f = A!Failed(g, "stage_timeout") \/ f = A!Failed(g, "refused")
  <2>1. PICK code \in Codes : f = A!Failed(g, code)
    BY <1>4 DEF Codes
  <2>2. QED BY <1>2, <2>1, FailedIs
<1>5. CASE ~A!Rejected(u) /\ f = [g EXCEPT !.at = "target", !.current = u]
  <2>1. f \in FetchSet /\ f.at = "target" /\ f.current = u /\ f.outcome = A!NoOutcome
    BY <1>1, <1>2, <1>5 DEF FetchSet, Underway
  <2>2. u \in Urls \ RefusedUrls
    BY <1>1, <1>5 DEF A!Rejected
  <2>3. FetchSound(u, f, robots)
    BY <2>1, <2>2, NoneIs DEF FetchSound, ReadStates
  <2>4. QED BY <2>1, <2>3
<1>6. QED BY <1>3, <1>4, <1>5 DEF A!Toward

LEMMA TakeKeeps == ASSUME ReadInv, NEW r \in Readers, A!Take(r) PROVE ReadInv'
<1>1. reader[r].at = "free" /\ next' = next + 1 /\ UNCHANGED <<time, robots, fetched, reading>>
  BY DEF A!Take
<1>2. ReadTypes /\ ReadersSound /\ Awaited /\ Delivered /\ reading = <<>>
  BY <1>1 DEF ReadInv, ReadingSound
<1>3. ReadingSound'
  BY <1>1, <1>2 DEF ReadingSound
<1>4. next \in Nat \ {0} /\ next' \in Nat \ {0} /\ reader \in [Readers -> ReaderSet]
  BY <1>1, <1>2 DEF ReadTypes
<1>5. CASE next \notin A!Indices /\ reader' = [reader EXCEPT ![r].at = "over"] /\ UNCHANGED fetch
  <2>1. next > Len(Sources)
    BY <1>4, <1>5, SourceIs
  <2>2. /\ reader' \in [Readers -> ReaderSet] /\ reader'[r].at = "over"
        /\ \A q \in Readers : q # r => reader'[q] = reader[q]
    BY <1>4, <1>5 DEF ReaderSet
  <2>3. ReadTypes'
    BY <1>1, <1>2, <1>4, <1>5, <2>2 DEF ReadTypes
  <2>4. ReadersSound'
    BY <1>1, <1>2, <1>4, <2>1, <2>2, SourceIs DEF ReadersSound
  <2>5. Awaited'
    BY <1>1, <1>2, <1>5, <2>2 DEF Awaited, WaitsFor
  <2>6. Delivered'
    <3>1. \A i \in A!Indices : i < next
      BY <1>4, <2>1, SourceIs
    <3>2. QED BY <1>1, <1>2, <1>5, <2>2, <3>1 DEF Delivered, Told
  <2>7. \A u \in A!Selected : FetchSound(u, fetch'[u], robots')
    BY <1>1, <1>5, FetchIs
  <2>8. QED BY <1>3, <2>3, <2>4, <2>5, <2>6, <2>7 DEF ReadInv
<1> DEFINE f == A!Begun(Sources[next])
           mine == Sources[next].url
<1>6. CASE /\ next \in A!Indices
           /\ reader' = [reader EXCEPT ![r] = [at |-> "waiting", index |-> next]]
           /\ fetch' = IF fetch[mine].at = "none" THEN [fetch EXCEPT ![mine] = f] ELSE fetch
  <2>1. mine \in A!Selected
    BY <1>6, SourceIs
  <2>2. /\ reader' \in [Readers -> ReaderSet] /\ reader'[r] = [at |-> "waiting", index |-> next]
        /\ \A q \in Readers : q # r => reader'[q] = reader[q]
    BY <1>4, <1>6 DEF ReaderSet
  <2>3. f \in FetchSet /\ f.at # "none" /\ FetchSound(mine, f, robots)
    BY <1>6, BegunIs
  <2>4. fetch \in [A!Selected -> FetchSet] /\ \A u \in A!Selected : FetchSound(u, fetch[u], robots)
    BY DEF ReadInv, ReadTypes
  <2> HIDE DEF f
  <2>5. /\ fetch' \in [A!Selected -> FetchSet]
        /\ \A u \in A!Selected : u # mine => fetch'[u] = fetch[u]
        /\ fetch[mine].at # "none" => fetch'[mine] = fetch[mine]
        /\ fetch'[mine] = fetch[mine] \/ fetch'[mine] = f
    BY <1>6, <2>1, <2>3, <2>4
  <2>6. ReadTypes'
    BY <1>1, <1>2, <1>4, <2>2, <2>5 DEF ReadTypes
  <2>7. ReadersSound'
    <3>1. \A q \in Readers : reader'[q].at = "waiting" => reader'[q].index \in A!Indices
      BY <1>2, <1>6, <2>2 DEF ReadersSound
    <3>2. \A q \in Readers : reader'[q].at = "over" => next' > Len(Sources)
      BY <1>1, <1>2, <1>4, <2>2, SourceIs DEF ReadersSound
    <3>3. QED BY <3>1, <3>2 DEF ReadersSound
  <2>8. Awaited'
    <3>1. reader'[r].at = "waiting" /\ Sources[reader'[r].index].url = mine
      BY <2>2
    <3>2. \A q \in Readers, u \in A!Selected :
            WaitsFor(q, u) => reader'[q].at = "waiting" /\ Sources[reader'[q].index].url = u
      BY <1>1, <2>2 DEF WaitsFor
    <3> HIDE DEF mine
    <3>3. \A u \in A!Selected : fetch'[u].at \in Underway =>
            \E q \in Readers : reader'[q].at = "waiting" /\ Sources[reader'[q].index].url = u
      BY <1>2, <2>5, <3>1, <3>2 DEF Awaited
    <3>4. QED BY <3>3 DEF Awaited, WaitsFor
  <2>9. Delivered'
    <3> SUFFICES ASSUME NEW i \in A!Indices, i < next + 1
                 PROVE  \/ \E q \in Readers : reader'[q].at = "waiting" /\ reader'[q].index = i
                        \/ fetch'[Sources[i].url].at = "done" /\ fetched[i] = Told(i)'
      BY <1>1 DEF Delivered
    <3>1. CASE i = next
      BY <2>2, <3>1
    <3>2. CASE i < next
      <4>1. CASE \E q \in Readers : reader[q].at = "waiting" /\ reader[q].index = i
        BY <1>1, <2>2, <4>1
      <4>2. CASE fetch[Sources[i].url].at = "done" /\ fetched[i] = Told(i)
        <5>1. Sources[i].url \in A!Selected
          BY SourceIs
        <5>2. fetch'[Sources[i].url] = fetch[Sources[i].url]
          <6> HIDE DEF mine
          <6>1. QED BY <2>5, <4>2, <5>1
        <5>3. QED BY <4>2, <5>2 DEF Told
      <4>3. QED BY <1>2, <3>2, <4>1, <4>2 DEF Delivered
    <3>3. i \in Nat
      BY SourceIs
    <3>4. QED BY <1>4, <3>1, <3>2, <3>3
  <2>10. \A u \in A!Selected : FetchSound(u, fetch'[u], robots')
    <3> HIDE DEF mine
    <3>1. QED BY <1>1, <2>3, <2>4, <2>5
  <2>11. QED BY <1>3, <2>6, <2>7, <2>8, <2>9, <2>10 DEF ReadInv
<1> HIDE DEF f
<1>7. QED BY <1>5, <1>6 DEF A!Take, f

LEMMA DeliverKeeps == ASSUME ReadInv, NEW r \in Readers, A!Deliver(r) PROVE ReadInv'
<1> DEFINE i == reader[r].index
<1>1. /\ reader[r].at = "waiting" /\ fetch[Sources[i].url].at = "done"
      /\ fetched' = [fetched EXCEPT ![i] = Told(i)]
      /\ reader' = [reader EXCEPT ![r].at = "free"]
      /\ UNCHANGED <<time, next, fetch, robots, reading>>
  BY DEF A!Deliver, Told
<1>2. ReadTypes /\ ReadersSound /\ Awaited /\ Delivered /\ reading = <<>>
  BY <1>1 DEF ReadInv, ReadingSound
<1>3. i \in A!Indices
  BY <1>1, <1>2 DEF ReadersSound
<1>4. /\ reader' \in [Readers -> ReaderSet] /\ reader'[r].at = "free"
      /\ \A q \in Readers : q # r => reader'[q] = reader[q]
  BY <1>1, <1>2 DEF ReadTypes, ReaderSet
<1>5. /\ DOMAIN fetched' = A!Indices /\ fetched'[i] = Told(i)
      /\ \A j \in A!Indices : j # i => fetched'[j] = fetched[j]
  BY <1>1, <1>2, <1>3 DEF ReadTypes
<1>6. ReadTypes'
  BY <1>1, <1>2, <1>4, <1>5 DEF ReadTypes
<1>7. ReadersSound'
  BY <1>1, <1>2, <1>4 DEF ReadersSound
<1>8. Awaited'
  <2> SUFFICES ASSUME NEW u \in A!Selected, fetch[u].at \in Underway
               PROVE  \E q \in Readers : reader'[q].at = "waiting" /\ Sources[reader'[q].index].url = u
    BY <1>1 DEF Awaited, WaitsFor
  <2>1. PICK q \in Readers : reader[q].at = "waiting" /\ Sources[reader[q].index].url = u
    BY <1>2 DEF Awaited, WaitsFor
  <2>2. q # r
    BY <1>1, <2>1 DEF Underway
  <2>3. QED BY <1>4, <2>1, <2>2
<1>9. Delivered'
  <2> SUFFICES ASSUME NEW j \in A!Indices, j < next
               PROVE  \/ \E q \in Readers : reader'[q].at = "waiting" /\ reader'[q].index = j
                      \/ fetch[Sources[j].url].at = "done" /\ fetched'[j] = Told(j)
    BY <1>1 DEF Delivered, Told
  <2>1. CASE j = i
    BY <1>1, <1>5, <2>1
  <2>2. CASE j # i
    <3>1. CASE \E q \in Readers : reader[q].at = "waiting" /\ reader[q].index = j
      BY <1>4, <2>2, <3>1
    <3>2. CASE fetch[Sources[j].url].at = "done" /\ fetched[j] = Told(j)
      BY <1>5, <2>2, <3>2
    <3>3. QED BY <1>2, <3>1, <3>2 DEF Delivered
  <2> HIDE DEF i
  <2>3. QED BY Zenon, <2>1, <2>2
<1>10. ReadingSound'
  BY <1>1, <1>2 DEF ReadingSound
<1>11. \A u \in A!Selected : FetchSound(u, fetch'[u], robots')
  BY <1>1, FetchIs
<1>12. QED BY <1>6, <1>7, <1>8, <1>9, <1>10, <1>11 DEF ReadInv

LEMMA ReturnKeeps == ASSUME ReadInv, A!Return PROVE ReadInv'
<1>1. (\A r \in Readers : reader[r].at = "over") /\ UNCHANGED <<time, next, reader, fetch, robots, fetched>>
  BY DEF A!Return
<1>2. /\ DOMAIN reading' = A!Indices
      /\ \A i \in A!Indices :
            reading'[i] = A!Unread(fetched[i].row, "text_limit") \/ reading'[i] = fetched[i]
  BY DEF A!Return
<1>3. next > Len(Sources) /\ next \in Nat
  BY <1>1, ReadingAssumption DEF ReadInv, ReadTypes, ReadersSound
<1>4. ASSUME NEW i \in A!Indices PROVE fetch[Sources[i].url].at = "done" /\ fetched[i] = Told(i)
  <2>1. i < next
    BY <1>3, SourceIs
  <2>2. QED BY <1>1, <2>1 DEF ReadInv, Delivered
<1>5. ASSUME NEW i \in A!Indices PROVE fetched[i].row = Sources[i].row
  <2>1. fetch[Sources[i].url].outcome \in OutcomeSet
    BY SourceIs, FetchIs DEF FetchSet
  <2>2. Told(i).row = Sources[i].row
    BY <2>1 DEF Told, OutcomeSet
  <2>3. QED BY <1>4, <2>2
<1>6. ReadingSound'
  <2>1. \A i \in A!Indices :
          /\ fetch[Sources[i].url].at = "done"
          /\ reading'[i] = A!Unread(Sources[i].row, "text_limit") \/ reading'[i] = Told(i)
    BY Zenon, <1>2, <1>4, <1>5
  <2>2. QED BY Zenon, <1>1, <2>1 DEF ReadingSound, Told
<1>7. ReadTypes'
  BY <1>1, <1>2 DEF ReadInv, ReadTypes
<1>8. ReadersSound' /\ Awaited' /\ Delivered'
  BY <1>1 DEF ReadInv, ReadersSound, Awaited, WaitsFor, Delivered, Told
<1>9. QED BY <1>1, <1>6, <1>7, <1>8, FetchIs DEF ReadInv

LEMMA TickKeeps == ASSUME ReadInv, A!Tick PROVE ReadInv'
<1>1. time < MaxTime /\ time' = time + 1 /\ UNCHANGED <<next, reader, fetch, robots, fetched, reading>>
  BY DEF A!Tick
<1>2. time' \in 0..MaxTime
  BY <1>1, ReadingAssumption DEF ReadInv, ReadTypes
<1>3. QED BY <1>1, <1>2
  DEF ReadInv, ReadTypes, ReadersSound, Awaited, WaitsFor, Delivered, ReadingSound, Told

LEMMA ReadStep == ASSUME ReadInv, A!Next PROVE ReadInv'
BY TakeKeeps, DeliverKeeps, ResolveKeeps, PermitKeeps, AnswerKeeps, RobotsAnsweredKeeps, ReturnKeeps, TickKeeps
DEF A!Next

LEMMA ReadStutter == ASSUME ReadInv, UNCHANGED readingVars PROVE ReadInv'
BY DEF ReadInv, readingVars, ReadTypes, ReadersSound, Awaited, WaitsFor, Delivered, ReadingSound, Told

\* As many fetches are under way as readers wait, at most.
LEMMA FewUnderway ==
    ASSUME ReadInv
    PROVE  Cardinality({u \in A!Selected : fetch[u].at \in Underway}) <= Cardinality(Readers)
<1> DEFINE under == {u \in A!Selected : fetch[u].at \in Underway}
           who == [u \in under |-> CHOOSE r \in Readers : WaitsFor(r, u)]
<1>1. \A u \in under : who[u] \in Readers /\ WaitsFor(who[u], u)
  BY DEF ReadInv, Awaited
<1>2. who \in Injection(under, Readers)
  <2>1. who \in [under -> Readers]
    BY <1>1
  <2> HIDE DEF who, under
  <2>2. \A u, v \in under : who[u] = who[v] => u = v
    BY <1>1 DEF WaitsFor
  <2>3. QED BY <2>1, <2>2 DEF Injection, IsInjective
<1> HIDE DEF who, under
<1>3. Cardinality(under) <= Cardinality(Readers)
  BY <1>2, ReadingAssumption, FS_Injection
<1>4. QED BY <1>3 DEF under

LEMMA ReadingIsSound ==
    ReadInv => A!TypeOK /\ A!ReadingIsTheSelections /\ A!FetchesAreAwaited /\ A!AskedAsAllowed
<1> SUFFICES ASSUME ReadInv
             PROVE  A!TypeOK /\ A!ReadingIsTheSelections /\ A!FetchesAreAwaited /\ A!AskedAsAllowed
  OBVIOUS
<1>1. A!TypeOK
  <2>1. \A r \in Readers : reader[r].at \in {"free", "waiting", "over"}
    BY DEF ReadInv, ReadTypes, ReaderSet
  <2>2. \A u \in A!Selected : fetch[u].at \in {"none", "target", "robots", "page", "done"}
    BY FetchIs DEF FetchSet, Underway
  <2>3. QED BY <2>1, <2>2 DEF A!TypeOK, ReadInv, ReadTypes, Known
<1>2. A!ReadingIsTheSelections
  <2> SUFFICES ASSUME reading # <<>>, NEW i \in A!Indices
               PROVE  /\ reading[i].row = Sources[i].row
                      /\ reading[i] = A!Unread(Sources[i].row, "text_limit") \/ reading[i] = Told(i)
                      /\ reading[i].status # "none"
    BY Zenon DEF A!ReadingIsTheSelections, Told
  <2>1. fetch[Sources[i].url].at = "done" /\ Sources[i].url \in A!Selected
    BY SourceIs DEF ReadInv, ReadingSound
  <2>2. fetch[Sources[i].url].outcome \in OutcomeSet /\ fetch[Sources[i].url].outcome.status # "none"
    BY <2>1, FetchIs DEF FetchSet, FetchSound
  <2>3. Told(i).row = Sources[i].row /\ Told(i).status # "none"
    BY <2>2 DEF Told, OutcomeSet
  <2>4. A!Unread(Sources[i].row, "text_limit").row = Sources[i].row
    BY DEF A!Unread, A!Outcome
  <2>5. A!Unread(Sources[i].row, "text_limit").status # "none"
    BY DEF A!Unread, A!Outcome
  <2>6. reading[i] = A!Unread(Sources[i].row, "text_limit") \/ reading[i] = Told(i)
    BY DEF ReadInv, ReadingSound
  <2>7. QED BY <2>3, <2>4, <2>5, <2>6
<1>3. A!FetchesAreAwaited
  <2>1. \A u \in A!Selected : fetch[u].at \notin {"none", "done"} <=> fetch[u].at \in Underway
    BY FetchIs DEF FetchSet, Underway
  <2>2. {u \in A!Selected : fetch[u].at \notin {"none", "done"}} = {u \in A!Selected : fetch[u].at \in Underway}
    BY <2>1
  <2>3. \A X : A!Cardinality(X) = Cardinality(X)
    BY Zenon DEF A!Cardinality, Cardinality
  <2>4. A!Cardinality({u \in A!Selected : fetch[u].at \notin {"none", "done"}}) <= A!Cardinality(Readers)
    BY <2>2, <2>3, FewUnderway
  <2>5. \A u \in A!Selected : fetch[u].at \notin {"none", "done"} =>
            \E r \in Readers : reader[r].at = "waiting" /\ Sources[reader[r].index].url = u
    BY <2>1 DEF ReadInv, Awaited, WaitsFor
  <2>6. QED BY <2>4, <2>5 DEF A!FetchesAreAwaited
<1>4. A!AskedAsAllowed
  <2> SUFFICES ASSUME NEW u \in A!Selected,
                      fetch[u].at = "page" \/ fetch[u].outcome.status \in ReadStates
               PROVE  /\ fetch[u].current \notin RefusedUrls
                      /\ robots[Origin[fetch[u].current]].kind \in {"none", "rules"}
                      /\ A!Allows(robots[Origin[fetch[u].current]], fetch[u].current)
                      /\ fetch[u].hop <= RedirectLimit
                      /\ u \in Https => fetch[u].current \in Https
    BY DEF A!AskedAsAllowed, ReadStates
  <2>1. fetch[u].hop <= RedirectLimit
    BY FetchIs, NoneIs DEF FetchSet
  <2>2. QED BY <2>1, FetchIs DEF FetchSound, Underway
<1>5. QED BY <1>1, <1>2, <1>3, <1>4

-----------------------------------------------------------------------------
(* The registry of the categories. *)

Decided == {"include", "exclude", "review"}

AnyPolicy == Policies \cup {Loaded[n] : n \in DOMAIN Loaded}

Apart(list) ==
    \A m, n \in DOMAIN list :
        list[m].category = list[n].category \/ list[m].version = list[n].version => m = n

\* A contract is that of what is registered, and the owner of its hash.
Built ==
    \A name \in DOMAIN contracts :
        \E n \in DOMAIN registered :
            registered[n].category = name /\ contracts[name] = H!Contract(registered[n])

Owned ==
    /\ \A name \in DOMAIN contracts : contracts[name] \in DOMAIN owner /\ owner[contracts[name]] = name
    /\ \A h \in DOMAIN owner : owner[h] \in DOMAIN contracts /\ contracts[owner[h]] = h

Scored == scored # H!NothingScored => scored[1].result.decision \in Decided

HashInv ==
    /\ registered \in Seq(AnyPolicy) /\ Apart(registered)
    /\ Built /\ Owned /\ Scored /\ answer # "category_hash_shared"

\* A category has one policy: the one registered for it.
LEMMA PolicyIs ==
    ASSUME Apart(registered), NEW n \in DOMAIN registered
    PROVE  H!PolicyOf(registered[n].category) = registered[n]
<1> DEFINE name == registered[n].category
           k == CHOOSE m \in DOMAIN registered : registered[m].category = name
<1>1. k \in DOMAIN registered /\ registered[k].category = name
  OBVIOUS
<1>2. k = n
  BY <1>1 DEF Apart
<1>3. H!PolicyOf(name) = registered[k]
  BY DEF H!PolicyOf
<1>4. QED BY <1>2, <1>3

LEMMA HashInit == H!Init => HashInv
<1> SUFFICES ASSUME H!Init PROVE HashInv
  OBVIOUS
<1> DEFINE policy(name) == Loaded[CHOOSE n \in DOMAIN Loaded : Loaded[n].category = name]
           names == {Loaded[n].category : n \in DOMAIN Loaded}
<1>1. /\ registered = Loaded
      /\ contracts = [name \in names |-> H!Contract(policy(name))]
      /\ owner = [h \in {H!Contract(policy(name)) : name \in names} |->
                    CHOOSE name \in names : H!Contract(policy(name)) = h]
      /\ answer = "loaded" /\ scored = H!NothingScored
  BY Zenon DEF H!Init
<1>2. ASSUME NEW name \in names
      PROVE  \E n \in DOMAIN Loaded : Loaded[n].category = name /\ policy(name) = Loaded[n]
  OBVIOUS
<1> HIDE DEF policy
<1>3. ASSUME NEW m \in names, NEW n \in names, H!Contract(policy(m)) = H!Contract(policy(n))
      PROVE  m = n
  <2>1. policy(m).version = policy(n).version
    BY <1>3 DEF H!Contract
  <2>2. PICK j \in DOMAIN Loaded : Loaded[j].category = m /\ policy(m) = Loaded[j]
    BY <1>2
  <2>3. PICK k \in DOMAIN Loaded : Loaded[k].category = n /\ policy(n) = Loaded[k]
    BY <1>2
  <2>4. j = k
    BY <2>1, <2>2, <2>3, ClassifierAssumption
  <2>5. QED BY <2>2, <2>3, <2>4
<1> HIDE DEF names
<1>4. registered \in Seq(AnyPolicy) /\ Apart(registered)
  <2>1. Loaded \in Seq({Loaded[n] : n \in DOMAIN Loaded})
    BY ClassifierAssumption
  <2>2. \A n \in 1..Len(Loaded) : Loaded[n] \in AnyPolicy
    BY <2>1 DEF AnyPolicy
  <2>3. Loaded \in Seq(AnyPolicy)
    BY <2>1, <2>2
  <2>4. QED BY <1>1, <2>3, ClassifierAssumption DEF Apart
<1>5. \A name \in names : contracts[name] = H!Contract(policy(name))
  BY <1>1
<1>6. Built
  <2>1. \A name \in names : \E n \in DOMAIN registered :
            registered[n].category = name /\ contracts[name] = H!Contract(registered[n])
    BY <1>1, <1>2, <1>5
  <2>2. QED BY <1>1, <2>1 DEF Built
<1>7. \A name \in names : owner[H!Contract(policy(name))] = name
  <2> TAKE name \in names
  <2> DEFINE h == H!Contract(policy(name))
             o == CHOOSE n \in names : H!Contract(policy(n)) = h
  <2>1. o \in names /\ H!Contract(policy(o)) = h
    OBVIOUS
  <2>2. o = name
    BY <1>3, <2>1
  <2>3. owner[h] = o
    BY <1>1
  <2>4. QED BY <2>2, <2>3
<1>8. Owned
  <2>1. ASSUME NEW h \in DOMAIN owner PROVE owner[h] \in DOMAIN contracts /\ contracts[owner[h]] = h
    <3>1. PICK name \in names : h = H!Contract(policy(name))
      BY <1>1
    <3>2. owner[h] = name
      BY <1>7, <3>1
    <3>3. QED BY <1>1, <1>5, <3>1, <3>2
  <2>2. ASSUME NEW name \in DOMAIN contracts
        PROVE  contracts[name] \in DOMAIN owner /\ owner[contracts[name]] = name
    <3>1. name \in names
      BY <1>1
    <3>2. QED BY <1>1, <1>5, <1>7, <3>1
  <2>3. QED BY <2>1, <2>2 DEF Owned
<1>9. QED BY <1>1, <1>4, <1>6, <1>8 DEF HashInv, Scored

LEMMA RegisterKeeps == ASSUME HashInv, NEW p \in Policies, H!Register(p) PROVE HashInv'
<1>1. UNCHANGED <<contracts, owner>> /\ scored' = H!NothingScored /\ answer' # "category_hash_shared"
  BY DEF H!Register, H!Say
<1>2. CASE UNCHANGED registered
  BY <1>1, <1>2 DEF HashInv, Apart, Built, Owned, Scored
<1>3. CASE ~H!Registered(p.category) /\ ~H!VersionTaken(p) /\ registered' = Append(registered, p)
  <2>1. registered \in Seq(AnyPolicy) /\ Apart(registered) /\ p \in AnyPolicy
    BY DEF HashInv, AnyPolicy
  <2>2. /\ registered' \in Seq(AnyPolicy) /\ Len(registered) \in Nat
        /\ DOMAIN registered = 1..Len(registered) /\ DOMAIN registered' = 1..Len(registered) + 1
        /\ registered'[Len(registered) + 1] = p
        /\ \A n \in DOMAIN registered : registered'[n] = registered[n]
    BY <1>3, <2>1
  <2>3. \A n \in DOMAIN registered : registered[n].category # p.category /\ registered[n].version # p.version
    BY <1>3 DEF H!Registered, H!VersionTaken
  <2>4. Apart(registered')
    <3> SUFFICES ASSUME NEW m \in DOMAIN registered', NEW n \in DOMAIN registered', m # n
                 PROVE  registered'[m].category # registered'[n].category /\ registered'[m].version # registered'[n].version
      BY DEF Apart
    <3>1. CASE m \in DOMAIN registered /\ n \in DOMAIN registered
      BY <2>1, <2>2, <3>1 DEF Apart
    <3>2. CASE m = Len(registered) + 1 /\ n \in DOMAIN registered
      BY <2>2, <2>3, <3>2
    <3>3. CASE n = Len(registered) + 1 /\ m \in DOMAIN registered
      BY <2>2, <2>3, <3>3
    <3>4. QED BY <2>2, <3>1, <3>2, <3>3
  <2>5. Apart(registered)'
    BY <2>4 DEF Apart
  <2>6. DOMAIN registered \subseteq DOMAIN registered'
    BY <2>2
  <2>7. Built'
    BY <1>1, <2>2, <2>6 DEF HashInv, Built
  <2>8. Owned' /\ Scored'
    BY <1>1 DEF HashInv, Owned, Scored
  <2>9. QED BY <1>1, <2>2, <2>5, <2>7, <2>8 DEF HashInv
<1>4. QED BY <1>2, <1>3 DEF H!Register

LEMMA ContractForKeeps == ASSUME HashInv, NEW name \in Names, H!ContractFor(name) PROVE HashInv'
<1> DEFINE built == H!Contract(H!PolicyOf(name))
<1>1. scored' = H!NothingScored /\ UNCHANGED registered
  BY DEF H!ContractFor, H!Say
<1>2. CASE UNCHANGED <<contracts, owner>> /\ answer' # "category_hash_shared"
  BY <1>1, <1>2 DEF HashInv, Apart, Built, Owned, Scored
<1>3. CASE H!Registered(name) /\ name \notin DOMAIN contracts
  <2>1. PICK n \in DOMAIN registered : registered[n].category = name
    BY <1>3 DEF H!Registered
  <2>2. H!PolicyOf(name) = registered[n]
    BY <2>1, PolicyIs DEF HashInv
  <2>3. built \notin DOMAIN owner
    <3> SUFFICES ASSUME built \in DOMAIN owner PROVE FALSE
      OBVIOUS
    <3>1. owner[built] \in DOMAIN contracts /\ contracts[owner[built]] = built
      BY DEF HashInv, Owned
    <3>2. PICK m \in DOMAIN registered :
            registered[m].category = owner[built] /\ built = H!Contract(registered[m])
      BY <3>1 DEF HashInv, Built
    <3>3. registered[m].version = registered[n].version
      BY <2>2, <3>2 DEF H!Contract
    <3>4. m = n
      BY <3>3 DEF HashInv, Apart
    <3>5. QED BY <1>3, <2>1, <3>1, <3>2, <3>4
  <2>4. /\ answer' = "built"
        /\ contracts' = [k \in DOMAIN contracts \cup {name} |-> IF k = name THEN built ELSE contracts[k]]
        /\ owner' = [h \in DOMAIN owner \cup {built} |-> IF h = built THEN name ELSE owner[h]]
    BY <1>3, <2>3 DEF H!ContractFor, H!Say
  <2>5. built = H!Contract(registered[n])
    BY <2>2
  <2> HIDE DEF built
  <2>6. Built'
    <3>1. ASSUME NEW k \in DOMAIN contracts \cup {name}
          PROVE  \E j \in DOMAIN registered :
                    registered[j].category = k /\ contracts'[k] = H!Contract(registered[j])
      <4>1. CASE k = name
        BY <2>1, <2>4, <2>5, <4>1
      <4>2. CASE k # name
        <5>1. k \in DOMAIN contracts /\ contracts'[k] = contracts[k]
          BY <2>4, <4>2
        <5>2. QED BY <5>1 DEF HashInv, Built
      <4>3. QED BY <4>1, <4>2
    <3>2. DOMAIN contracts' = DOMAIN contracts \cup {name}
      BY <2>4
    <3>3. QED BY <1>1, <3>1, <3>2 DEF Built
  <2>7. Owned'
    <3>1. /\ \A k \in DOMAIN contracts : contracts'[k] = contracts[k] /\ contracts[k] \in DOMAIN owner
          /\ \A h \in DOMAIN owner : owner'[h] = owner[h] /\ owner[h] \in DOMAIN contracts
          /\ contracts'[name] = built /\ owner'[built] = name
          /\ DOMAIN contracts' = DOMAIN contracts \cup {name} /\ DOMAIN owner' = DOMAIN owner \cup {built}
      BY <1>3, <2>3, <2>4 DEF HashInv, Owned
    <3>2. QED BY <3>1 DEF HashInv, Owned
  <2>8. QED BY <1>1, <2>4, <2>6, <2>7 DEF HashInv, Scored, Apart
<1>4. QED BY <1>2, <1>3 DEF H!ContractFor, H!Say

LEMMA ClassifyKeeps ==
    ASSUME HashInv, NEW name \in Names, NEW row \in RowKinds, H!Classify(name, row) PROVE HashInv'
<1>1. UNCHANGED <<registered, contracts, owner>> /\ answer' \in {"classified", "input_rejected"}
  BY DEF H!Classify
<1>2. Scored'
  <2> DEFINE result == H!Result(row, Vocabulary[contracts[name].rules])
  <2>1. result.decision \in Decided
    BY DEF H!Result, H!Decision, Decided
  <2> HIDE DEF result
  <2>2. scored' = H!NothingScored \/ scored' = <<[name |-> name, row |-> row, result |-> result]>>
    BY DEF H!Classify, result
  <2>3. QED BY <2>1, <2>2 DEF Scored
<1>3. QED BY <1>1, <1>2 DEF HashInv, Apart, Built, Owned

LEMMA HashStep == ASSUME HashInv, H!Next PROVE HashInv'
BY RegisterKeeps, ContractForKeeps, ClassifyKeeps DEF H!Next

LEMMA HashStutter == ASSUME HashInv, UNCHANGED classifierVars PROVE HashInv'
BY DEF HashInv, classifierVars, Apart, Built, Owned, Scored

LEMMA HashesAreSound == HashInv => H!TypeOK /\ H!HashNamesOneCategory
<1> SUFFICES ASSUME HashInv PROVE H!TypeOK /\ H!HashNamesOneCategory
  OBVIOUS
<1>1. H!TypeOK
  BY DEF HashInv, Built, Owned, Scored, Decided, H!TypeOK, H!Registered
<1>2. \A name \in DOMAIN contracts : contracts[name] = H!Contract(H!PolicyOf(name))
  BY PolicyIs DEF HashInv, Built
<1>3. \A m, n \in DOMAIN registered : registered[m].category = registered[n].category => m = n
  BY DEF HashInv, Apart
<1>4. QED BY <1>1, <1>2, <1>3 DEF HashInv, Owned, H!HashNamesOneCategory

-----------------------------------------------------------------------------
\* What others answered is kept as it was, and known by one name, whatever is
\* submitted, selected and registered, by as many ingesters and readers as there
\* are: a snapshot is stored once and as what it is, a result stands, and a feed
\* is of one origin; a reading is the selection's, of pages asked for as their
\* origins allow, and leaves no fetch behind; a hash names one category
\* (persistSignalRun, storedAnomalies, readSources, contractFor).
THEOREM SourcesKept == MCSpec => []SourcesSound
<1> DEFINE AllSound == SignalInv /\ ReadInv /\ HashInv
<1>1. MCInit => AllSound
  BY SignalInit, ReadInit, HashInit DEF MCInit
<1>2. AllSound /\ [MCNext]_allVars => AllSound'
  <2> SUFFICES ASSUME AllSound, [MCNext]_allVars PROVE AllSound'
    OBVIOUS
  <2>1. S!Next \/ UNCHANGED signalVars
    BY DEF MCNext, allVars, SignalStep
  <2>2. A!Next \/ UNCHANGED readingVars
    BY DEF MCNext, allVars
  <2>3. H!Next \/ UNCHANGED classifierVars
    BY DEF MCNext, allVars
  <2>4. SignalInv'
    BY <2>1, SignalsStep, SignalStutter
  <2>5. ReadInv'
    BY <2>2, ReadStep, ReadStutter
  <2>6. HashInv'
    BY <2>3, HashStep, HashStutter
  <2>7. QED BY <2>4, <2>5, <2>6
<1>3. AllSound => SourcesSound
  BY SignalsAreSound, ReadingIsSound, HashesAreSound DEF SourcesSound
<1> HIDE DEF AllSound
<1>4. QED BY <1>1, <1>2, <1>3, PTL DEF MCSpec
=============================================================================
