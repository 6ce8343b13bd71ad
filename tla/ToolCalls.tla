----------------------------- MODULE ToolCalls ------------------------------
(***************************************************************************)
(* The calls of the tool server: invokeTool and its limiter, deadline and  *)
(* shutdown (packages/mcp-server/src/runtime.ts, safety/cancellation.ts),  *)
(* with the one read-only transaction a stored call does and the separate  *)
(* connection that cancels it (store/postgres-store.ts).                   *)
(*                                                                         *)
(* A call is answered when its work is over, or a grace period after its   *)
(* signal was aborted, whichever is first; its work may go on, and holds   *)
(* the call's permit.  Nothing is assumed of the database: a statement may *)
(* stay unanswered for ever.                                               *)
(***************************************************************************)
EXTENDS Integers, Sequences, FiniteSets

CONSTANTS
    Calls,
    Permits,    \* MAX_CONCURRENT_CALLS
    Rate,       \* RATE_LIMIT_CALLS
    Window,     \* RATE_LIMIT_WINDOW_MS
    MaxTime     \* bound: the clock

VARIABLES
    now,
    starts,     \* CallLimiter: when the calls of the window were admitted
    call,
    closing     \* the runtime's close

toolVars == <<now, starts, call, closing>>

-----------------------------------------------------------------------------
Causes == {"none", "deadline", "client", "shutdown"}

CallRow ==
    [at : {"none", "running", "answered"},
     permit : BOOLEAN,
     cause : Causes,                               \* CallScope: what aborted it first
     work : {"none", "connecting", "open", "statement", "ending", "settled"},
     committed : BOOLEAN,
     cancelling : BOOLEAN,                         \* its cancelling connection
     result : {"none", "ok", "refused", "failed", "timeout", "cancelled"}]

TypeOK ==
    /\ now \in 0..MaxTime
    /\ starts \in Seq(0..MaxTime) /\ Len(starts) <= Rate
    /\ call \in [Calls -> CallRow]
    /\ closing \in {"no", "draining", "store", "closed", "gave up"}

Fresh == [at |-> "none", permit |-> FALSE, cause |-> "none", work |-> "none",
          committed |-> FALSE, cancelling |-> FALSE, result |-> "none"]

Init ==
    /\ now = 0
    /\ starts = <<>>
    /\ call = [c \in Calls |-> Fresh]
    /\ closing = "no"

Become(c, new) == call' = [call EXCEPT ![c] = new]

Held == {c \in Calls : call[c].permit}

\* The work of a call that has not settled, and with it its connection.
Working == {c \in Calls : call[c].work \notin {"none", "settled"}}

\* errorForCause.
ErrorFor(cause) == IF cause = "deadline" THEN "timeout" ELSE "cancelled"

-----------------------------------------------------------------------------
\* The oldest starts are taken off while they are out of the window.
Recent ==
    LET within == {n \in DOMAIN starts : starts[n] > now - Window} IN
    IF within = {} THEN <<>>
    ELSE SubSeq(starts, CHOOSE n \in within : \A m \in within : n <= m, Len(starts))

\* A call is over before any work of it: refused by name, by rate, by the cap
\* or by its arguments, or too late because the server is closing.
Turned(c, result) == Become(c, [Fresh EXCEPT !.at = "answered", !.result = result])

Unadmitted(c) ==
    /\ call[c].at = "none"
    /\ Len(Recent) >= Rate \/ Cardinality(Held) >= Permits
    /\ Turned(c, "refused")
    /\ starts' = Recent
    /\ UNCHANGED <<now, closing>>

\* admit, validateFor and the CallScope, which the shutdown may have aborted.
Admitted(c) ==
    /\ call[c].at = "none"
    /\ Len(Recent) < Rate /\ Cardinality(Held) < Permits
    /\ starts' = Append(Recent, now)
    /\ \/ Turned(c, "refused")
       \/ closing # "no" /\ Turned(c, "cancelled")
       \/ /\ closing = "no"
          /\ Become(c, [Fresh EXCEPT !.at = "running", !.permit = TRUE, !.work = "connecting"])
    /\ UNCHANGED <<now, closing>>

-----------------------------------------------------------------------------
(* The work: withReadOnlyConnection. *)

Aborted(c) == call[c].cause # "none"

\* abortable: every statement looks at the signal before it is sent.
MaySend(c) == ~Aborted(c)

\* The pool's connection is there, BEGIN and the process id are sent and
\* answered.  A call aborted meanwhile sends no more, and if its process was
\* asked for it is cancelled all the same (armCancellation).
Connect(c) ==
    /\ call[c].work = "connecting"
    /\ \/ /\ MaySend(c)
          /\ Become(c, [call[c] EXCEPT !.work = "open"])
       \/ /\ ~MaySend(c)
          /\ \E asked \in BOOLEAN :
                Become(c, [call[c] EXCEPT !.work = "ending", !.cancelling = asked])
    /\ UNCHANGED <<now, starts, closing>>

\* SET LOCAL, a read of the tool, or COMMIT.
Send(c) ==
    /\ call[c].work = "open"
    /\ Become(c, [call[c] EXCEPT !.work = IF MaySend(c) THEN "statement" ELSE "ending"])
    /\ UNCHANGED <<now, starts, closing>>

\* The statement is answered; the one that was COMMIT ends the transaction.
Answer(c) ==
    /\ call[c].work = "statement"
    /\ \/ Become(c, [call[c] EXCEPT !.work = "open"])
       \/ Become(c, [call[c] EXCEPT !.work = "ending", !.committed = TRUE])
    /\ UNCHANGED <<now, starts, closing>>

\* It fails, by itself, by its timeout, or stopped by the cancel: ROLLBACK.
Fail(c) ==
    /\ call[c].work \in {"connecting", "statement"}
    /\ Become(c, [call[c] EXCEPT !.work = "ending"])
    /\ UNCHANGED <<now, starts, closing>>

\* pg_cancel_backend from a pool of its own, which is closed behind it; what
\* it finds in flight stops.
CancelArrives(c) ==
    /\ call[c].cancelling
    /\ Become(c, [call[c] EXCEPT !.cancelling = FALSE,
                                 !.work = IF @ = "statement" THEN "ending" ELSE @])
    /\ UNCHANGED <<now, starts, closing>>

\* The cancel could not be sent.
CancelFails(c) ==
    /\ call[c].cancelling
    /\ Become(c, [call[c] EXCEPT !.cancelling = FALSE])
    /\ UNCHANGED <<now, starts, closing>>

\* What a call that ran answers: what its scope was aborted for, or its work's
\* result, which the contract or the size bound may still refuse.
Result(c) ==
    CASE Aborted(c) -> {ErrorFor(call[c].cause)}
      [] ~Aborted(c) /\ call[c].committed -> {"ok", "failed"}
      [] OTHER -> {"failed"}

\* The pool is closed and with it the connection; the work settles, the call
\* is answered if it has not been, and the permit is given back.
Settle(c) ==
    /\ call[c].work = "ending"
    /\ \E result \in (IF call[c].at = "running" THEN Result(c) ELSE {call[c].result}) :
        Become(c, [call[c] EXCEPT !.work = "settled", !.permit = FALSE,
                                  !.at = "answered", !.result = result])
    /\ UNCHANGED <<now, starts, closing>>

-----------------------------------------------------------------------------
(* The signal. *)

\* CallScope.abort: the first cause stays; a transaction whose process is known
\* (armCancellation) is cancelled from outside.  A scope is disposed of once
\* its call is answered.
AbortedBy(row, cause) ==
    IF row.at = "running" /\ row.cause = "none"
      THEN [row EXCEPT !.cause = cause, !.cancelling = row.work \in {"open", "statement"}]
      ELSE row

Abort(c, cause) ==
    /\ call[c].at = "running" /\ ~Aborted(c)
    /\ cause \in {"deadline", "client"}
    /\ Become(c, AbortedBy(call[c], cause))
    /\ UNCHANGED <<now, starts, closing>>

\* The permit is given back with the answer.
GraceReleases(c) ==
    /\ call[c].at = "running" /\ Aborted(c)
    /\ Become(c, [call[c] EXCEPT !.at = "answered", !.permit = FALSE,
                                  !.result = ErrorFor(call[c].cause)])
    /\ UNCHANGED <<now, starts, closing>>

\* awaitWithinScope: the grace period ends before the work does, which goes on
\* with its permit.
Grace(c) ==
    /\ call[c].at = "running" /\ Aborted(c)
    /\ Become(c, [call[c] EXCEPT !.at = "answered", !.result = ErrorFor(call[c].cause)])
    /\ UNCHANGED <<now, starts, closing>>

-----------------------------------------------------------------------------
(* close: the shutdown signal, then two bounded waits. *)

Close ==
    /\ closing = "no"
    /\ closing' = "draining"
    /\ call' = [c \in Calls |-> AbortedBy(call[c], "shutdown")]
    /\ UNCHANGED <<now, starts>>

\* The calls under way have unwound, or the time for it is over.
Drained ==
    /\ closing = "draining"
    /\ closing' = "store"
    /\ UNCHANGED <<now, starts, call>>

Cancelling == {c \in Calls : call[c].cancelling}

\* PostgresReadStoreProvider.close: the transactions, then the cancelling
\* connections; or the time for it is over.
StoreClosed ==
    /\ closing = "store"
    /\ closing' = IF Working = {} /\ Cancelling = {} THEN "closed" ELSE "gave up"
    /\ UNCHANGED <<now, starts, call>>

Tick ==
    /\ now < MaxTime
    /\ now' = now + 1
    /\ UNCHANGED <<starts, call, closing>>

Next ==
    \/ \E c \in Calls :
        \/ Unadmitted(c) \/ Admitted(c)
        \/ Connect(c) \/ Send(c) \/ Answer(c) \/ Fail(c) \/ Settle(c)
        \/ CancelArrives(c) \/ CancelFails(c)
        \/ (\E cause \in {"deadline", "client"} : Abort(c, cause)) \/ Grace(c)
    \/ Close \/ Drained \/ StoreClosed \/ Tick

Spec == Init /\ [][Next]_toolVars

\* Only the server's own timers are fair: the deadline, the grace period and
\* the two waits of the shutdown.  Of the database nothing is assumed.
Fairness ==
    /\ \A c \in Calls : WF_toolVars(Abort(c, "deadline")) /\ WF_toolVars(Grace(c))
    /\ WF_toolVars(Drained) /\ WF_toolVars(StoreClosed)

FairSpec == Spec /\ Fairness

-----------------------------------------------------------------------------
\* "The concurrency permit is released only once the work has actually
\* unwound": the connections open at once are no more than the permits, calls
\* that were answered while their work went on included.
ConnectionsWithinPermits ==
    /\ \A c \in Working : call[c].permit
    /\ Cardinality(Working) <= Permits

\* What is answered is what happened: rows only from a transaction that was
\* committed and not told to stop, a timeout only for a deadline.
AnswersTruly ==
    \A c \in Calls :
        /\ call[c].result = "ok" => call[c].committed /\ ~Aborted(c)
        /\ call[c].result = "timeout" => call[c].cause = "deadline"
        /\ call[c].at = "running" => call[c].result = "none"

\* A close that did not give up leaves no connection, neither a transaction's
\* nor one that was opened to cancel it, and nothing starts behind it.
ClosedLeavesNothing ==
    closing = "closed" => Working = {} /\ Cancelling = {} /\ Held = {}

\* A call is answered, though the database never answers it.
EveryCallAnswered == \A c \in Calls : call[c].at = "running" ~> call[c].at = "answered"
=============================================================================
