----------------------------- MODULE SheetRead ------------------------------
(***************************************************************************)
(* A worker command that reads the workbook: `sheets inventory`, `sheets   *)
(* timestamps` and the read of `sheets dry-run` and `sheets import`, from  *)
(* the process's start to its exit code (apps/worker/src/cli.ts,           *)
(* deadline.ts, sheets/connect.ts, packages/sheets-intake/src).            *)
(*                                                                         *)
(* The command asks for the workbook's structure, a header, and pages of   *)
(* rows, one after another; each is a GET under a cached token, and each   *)
(* request is attempted again after a transient failure.  Meanwhile the    *)
(* workbook is edited, the token nears its end, a signal may come, and the *)
(* deadline and its grace run out.  The clock is not counted: what it      *)
(* brings about may happen at any moment, in the order the timers allow.   *)
(***************************************************************************)
EXTENDS Integers, Sequences, FiniteSets, SequencesExt

CONSTANTS
    Kinds,          \* the commands that are run
    Rows,           \* the declared rows of the tab
    FirstDataRow, PerPage, MaxRowsPerRun, MaxAttempts,
    Tabs,           \* the workbook has tabs 1..Tabs
    Zone,           \* the workbook's time zone: its offset at each instant
    MaxEdits, MaxRenewals

VARIABLES
    content,    \* what each row of the named tab holds
    changes,    \* edits of the tab so far
    command,    \* the command, and what it has read
    transport,  \* the request under way
    token,      \* the cached access token, and how often one came to its end
    signal,     \* the command's abort signal, and what aborted it
    exit        \* the process's exit code

sheetVars == <<content, changes, command, transport, token, signal, exit>>

-----------------------------------------------------------------------------
Cells == {"blank", "text", "other", "too large"}

Targets == {"metadata", "header", "page", "column"}

\* What the inventory says of a tab: its header, that it has none to read, or
\* that it could not be read.
Entries == {"names", "no names", "no grid", "unreadable"}

LastOf(first) == IF first + PerPage - 1 < Rows THEN first + PerPage - 1 ELSE Rows

NoRead == [n \in 1..Rows |-> "not asked"]

Command(kind) ==
    [kind |-> kind, at |-> "start", target |-> "metadata", first |-> FirstDataRow,
     rows |-> <<>>,         \* the rows emitted
     rowsRead |-> 0, rowsBlank |-> 0,
     asked |-> NoRead,      \* what each row held when its page was answered
     report |-> <<>>]       \* the tabs of the inventory

Idle == [for |-> "none", phase |-> "idle", attempt |-> 0]

NoToken == [held |-> "none", renewed |-> 0]

TypeOK ==
    /\ content \in [1..Rows -> Cells]
    /\ changes \in 0..MaxEdits
    /\ command.kind \in Kinds
    /\ command.at \in {"start", "policy", "authorize", "credential", "next", "waiting", "tab", "over"}
    /\ command.target \in Targets
    /\ command.rows \in Seq(1..Rows) /\ command.report \in Seq(Entries)
    /\ {command.first, command.rowsRead, command.rowsBlank} \subseteq Nat
    /\ command.asked \in [1..Rows -> Cells \cup {"not asked"}]
    /\ transport.for \in {"none", "token", "api"}
    /\ transport.phase \in {"idle", "attempt", "sent", "sleep"}
    /\ transport.attempt \in 0..MaxAttempts
    /\ token.held \in {"none", "fresh", "due"} /\ token.renewed \in 0..MaxRenewals
    /\ signal \in {"live", "interrupted", "deadline"}
    /\ exit \in {"none", "ok", "failed", "deadline"}

Init ==
    /\ content \in {c \in [1..Rows -> {"blank", "text"}] : c[1] = "text"}
    /\ changes = 0
    /\ \E kind \in Kinds : command = Command(kind)
    /\ transport = Idle
    /\ token = NoToken
    /\ signal = "live"
    /\ exit = "none"

Running == exit = "none"

Aborted == signal # "live"

-----------------------------------------------------------------------------
(* What happens beside the command.                                        *)

\* Others edit the workbook while it is read.
Edit(n, c) ==
    /\ Running /\ changes < MaxEdits
    /\ content[n] # c
    /\ content' = [content EXCEPT ![n] = c]
    /\ changes' = changes + 1
    /\ UNCHANGED <<command, transport, token, signal, exit>>

\* The cached token comes within a minute of its end.
TokenAges ==
    /\ Running /\ token.held = "fresh" /\ token.renewed < MaxRenewals
    /\ token' = [held |-> "due", renewed |-> token.renewed + 1]
    /\ UNCHANGED <<content, changes, command, transport, signal, exit>>

\* SIGINT or SIGTERM aborts the command.
Interrupt ==
    /\ Running /\ signal = "live"
    /\ signal' = "interrupted"
    /\ UNCHANGED <<content, changes, command, transport, token, exit>>

\* The deadline expires: the command is aborted, the grace timer is armed.
Expire ==
    /\ Running /\ signal # "deadline"
    /\ signal' = "deadline"
    /\ UNCHANGED <<content, changes, command, transport, token, exit>>

\* The grace has passed as well: the process ends as it stands.
GraceExpired ==
    /\ Running /\ signal = "deadline"
    /\ exit' = "deadline"
    /\ UNCHANGED <<content, changes, command, transport, token, signal>>

Beside ==
    \/ \E n \in 1..Rows, c \in Cells : Edit(n, c)
    \/ TokenAges \/ Interrupt \/ Expire \/ GraceExpired

-----------------------------------------------------------------------------
(* How a command ends.                                                     *)

\* What main makes of the code the command returned, or of its refusal.
ExitOf(code) == IF signal = "deadline" THEN "deadline" ELSE code

Ends(code, c) ==
    /\ command' = [c EXCEPT !.at = "over"]
    /\ exit' = ExitOf(code)

Refuses(c) == Ends("failed", c)

GoesOn(c) == command' = c /\ UNCHANGED exit

\* connectToWorkbook: each of its steps succeeds or refuses, and the key is not
\* opened before the workbook is known to be the pinned one.
Opens(at, next) ==
    /\ Running /\ command.at = at
    /\ GoesOn([command EXCEPT !.at = next]) \/ Refuses(command)
    /\ UNCHANGED <<content, changes, transport, token, signal>>

\* The environment names an identifier and a key's path.
ParseConfig == Opens("start", "policy")

\* The committed policy is read.
LoadPolicy == Opens("policy", "authorize")

\* The identifier is well formed and its digest is the pinned one.
Authorize == Opens("authorize", "credential")

\* The key is outside the repository, its owner's alone and a service account's.
LoadCredential == Opens("credential", "next")

-----------------------------------------------------------------------------
(* The next call of the client.                                            *)

Calls(for) == transport' = [for |-> for, phase |-> "attempt", attempt |-> 1]

\* A GET first takes the cached token, or exchanges a new one.
Get ==
    /\ Running /\ command.at = "next"
    /\ command' = [command EXCEPT !.at = "waiting"]
    /\ Calls(IF token.held = "fresh" THEN "api" ELSE "token")
    /\ UNCHANGED <<content, changes, token, signal, exit>>

-----------------------------------------------------------------------------
(* What the command makes of an answer.                                    *)

\* The loop of pages comes round: the signal is looked at before each.
Turns(c) ==
    IF Aborted THEN Refuses(c) ELSE GoesOn([c EXCEPT !.target = "page", !.at = "next"])

\* An import of no row is refused.
ReadEnds(c) == IF c.kind = "import" /\ c.rows = <<>> THEN Refuses(c) ELSE Ends("ok", c)

\* The rows of first..last as the API answers them: the blank rows that end
\* the range are left out.
Answered(first, last) ==
    LET used == {n \in first..last : content[n] # "blank"}
    IN  {n \in first..last : \E m \in used : n <= m}

\* The next tab's header is asked for if it has one; all of them are reported.
NextTab ==
    /\ Running /\ command.at = "tab"
    /\ IF Len(command.report) = Tabs THEN Ends("ok", command)
       ELSE \/ GoesOn([command EXCEPT !.target = "header", !.at = "next"])
            \/ GoesOn([command EXCEPT !.report = Append(@, "no grid")])
    /\ UNCHANGED <<content, changes, transport, token, signal>>

Reports(entry) == GoesOn([command EXCEPT !.report = Append(@, entry), !.at = "tab"])

\* The named tab is in the workbook and within the bounds, or it is refused.
OnMetadata ==
    CASE command.kind = "inventory" -> GoesOn([command EXCEPT !.at = "tab"])
      [] command.kind = "timestamps" ->
             Refuses(command) \/ GoesOn([command EXCEPT !.target = "column", !.at = "next"])
      [] command.kind = "import" ->
             Refuses(command) \/ GoesOn([command EXCEPT !.target = "header", !.at = "next"])
      [] command.kind = "dry-run" -> Refuses(command) \/ Turns(command)

\* A tab's header row, or the header an import starts with.
OnHeader ==
    IF command.kind = "inventory" THEN \E entry \in Entries \ {"no grid"} : Reports(entry)
    ELSE Refuses(command) \/ Turns(command)

\* The rows of a set as they stand in the tab.
InOrder(ns) ==
    CHOOSE s \in [1..Cardinality(ns) -> ns] :
        ToSet(s) = ns /\ \A m, n \in DOMAIN s : m < n => s[m] < s[n]

\* A page is counted row by row.  One that the bounds refuse, or a cell of it,
\* ends the read with nothing kept; one that came back short is the last.
OnPage ==
    LET first == command.first
        last == LastOf(first)
        got == Answered(first, last)
        filled == {n \in got : content[n] # "blank"}
        read == [command EXCEPT
                    !.asked = [n \in 1..Rows |->
                                   IF n \in first..last THEN content[n] ELSE @[n]],
                    !.rows = @ \o InOrder(filled),
                    !.rowsRead = @ + Cardinality(got),
                    !.rowsBlank = @ + Cardinality(got \ filled),
                    !.first = @ + PerPage]
    IN  IF read.rowsRead > MaxRowsPerRun \/ \E n \in filled : content[n] = "too large"
        THEN Refuses(command)
        ELSE IF got # first..last \/ read.first > Rows THEN ReadEnds(read)
        ELSE Turns(read)

\* One range holds the column of timestamps.
OnColumn ==
    LET got == Answered(2, Rows)
    IN  Ends("ok", [command EXCEPT !.rowsRead = Cardinality(got)])

Processes ==
    CASE command.target = "metadata" -> OnMetadata
      [] command.target = "header" -> OnHeader
      [] command.target = "page" -> OnPage
      [] command.target = "column" -> OnColumn

\* A refused call ends the command; that of an inventory's header is a warning.
Fails ==
    IF command.kind = "inventory" /\ command.target = "header"
    THEN Reports("unreadable")
    ELSE Refuses(command)

-----------------------------------------------------------------------------
(* One request of the transport.                                           *)

Waiting(phase) == Running /\ command.at = "waiting" /\ transport.phase = phase

Gives == transport' = Idle /\ Fails

\* An attempt, unless the signal is already aborted.
Attempt ==
    /\ Waiting("attempt")
    /\ IF Aborted THEN Gives
       ELSE /\ transport' = [transport EXCEPT !.phase = "sent"]
            /\ UNCHANGED <<command, exit>>
    /\ UNCHANGED <<content, changes, token, signal>>

\* The fetch times out or breaks, or a status comes that may pass: it is tried
\* again after a delay if an attempt is left and the signal is not aborted.
Transient ==
    /\ Waiting("sent")
    /\ IF Aborted \/ transport.attempt = MaxAttempts THEN Gives
       ELSE /\ transport' = [transport EXCEPT !.phase = "sleep"]
            /\ UNCHANGED <<command, exit>>
    /\ UNCHANGED <<content, changes, token, signal>>

\* A redirect, another status, or a body too large, cut off or not understood.
Refused ==
    /\ Waiting("sent")
    /\ Gives
    /\ UNCHANGED <<content, changes, token, signal>>

\* The delay passes; the signal does not cut it short.
Wake ==
    /\ Waiting("sleep")
    /\ transport' = [transport EXCEPT !.phase = "attempt", !.attempt = @ + 1]
    /\ UNCHANGED <<content, changes, command, token, signal, exit>>

\* A token is granted and cached; the GET that waited for it is sent with it.
Granted ==
    /\ Waiting("sent") /\ transport.for = "token"
    /\ token' = [token EXCEPT !.held = "fresh"]
    /\ Calls("api")
    /\ UNCHANGED <<content, changes, command, signal, exit>>

\* The API answers with what was asked for.
Succeeds ==
    /\ Waiting("sent") /\ transport.for = "api"
    /\ transport' = Idle
    /\ Processes
    /\ UNCHANGED <<content, changes, token, signal>>

-----------------------------------------------------------------------------
Next ==
    \/ Beside
    \/ ParseConfig \/ LoadPolicy \/ Authorize \/ LoadCredential \/ Get \/ NextTab
    \/ Attempt \/ Transient \/ Refused \/ Wake \/ Granted \/ Succeeds

Spec == Init /\ [][Next]_sheetVars

-----------------------------------------------------------------------------
(* A timestamp of the workbook is a wall clock of its zone.                *)

\* The instant it is taken for: the offset is that of the instant at which
\* the clock of UTC shows it.
InstantOf(wall) == wall - Zone[wall]

\* The zone does not change its offset between the two.
NoChangeNear(wall) ==
    \A t \in DOMAIN Zone :
        (wall <= t /\ t <= InstantOf(wall)) \/ (InstantOf(wall) <= t /\ t <= wall)
            => Zone[t] = Zone[wall]

\* A wall clock away from a change of the offset is read as the one instant
\* that shows it, on either side of the change (values.ts, serialToInstant).
WallClockIsItsInstant ==
    \A wall \in DOMAIN Zone :
        InstantOf(wall) \in DOMAIN Zone /\ NoChangeNear(wall)
            => InstantOf(wall) + Zone[InstantOf(wall)] = wall

-----------------------------------------------------------------------------
Complete == command.at = "over" /\ exit = "ok"

Asked == {n \in 1..Rows : command.asked[n] # "not asked"}

Filled == {n \in Asked : command.asked[n] # "blank"}

\* A read that ends well holds each row of the pages it asked for that was not
\* blank when it was answered, once, in the tab's order and within the bound,
\* and its counts are of the same rows; and it asked up to the end of the tab
\* or to a page that ended blank (reader.ts, readTab).
ReadIsWhatWasAnswered ==
    Complete /\ command.kind \in {"dry-run", "import"} =>
        /\ ToSet(command.rows) = Filled
        /\ \A m, n \in DOMAIN command.rows : m < n => command.rows[m] < command.rows[n]
        /\ command.rowsRead - command.rowsBlank = Len(command.rows)
        /\ command.rowsRead <= MaxRowsPerRun
        /\ \A n \in Filled : command.asked[n] # "too large"
        /\ LET last == LastOf(command.first - PerPage)
           IN  Asked = FirstDataRow..last /\ (last = Rows \/ command.asked[last] = "blank")

\* An inventory that ends well speaks of every tab, also when calls failed or
\* the command was interrupted on the way (inventory.ts, inventoryWorkbook).
InventoryOfEveryTab ==
    Complete /\ command.kind = "inventory" => Len(command.report) = Tabs

\* A command whose deadline has expired does not exit as done, and one that
\* exits as failed ran into a refusal before that (cli.ts, main).
ExitTellsTheDeadline ==
    exit # "none" => (exit = "deadline" <=> signal = "deadline")
=============================================================================
