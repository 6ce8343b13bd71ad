------------------------------- MODULE Intake -------------------------------
(***************************************************************************)
(* The import of a batch of articles: importCsvFile reads a file twice     *)
(* (apps/worker/src/editorial/import.ts, validate.ts, csv-stream.ts) and   *)
(* importSheetsTab reads a tab once, page by page (sheets/import.ts,       *)
(* packages/sheets-intake/src/reader.ts).  Both write through the same     *)
(* path, in one transaction (packages/database/src/ingestion.ts), over the *)
(* tables of migrations 0001 and 0002.                                     *)
(*                                                                         *)
(* The source is edited by others while it is read.  Two imports share     *)
(* url_groups, whose rows each locks in the order its own rows name them.  *)
(* A digest is what it is the digest of: the lines that were read.  A page *)
(* and a chunk are one line long, finer than the code's.                   *)
(***************************************************************************)
EXTENDS Integers, Sequences, FiniteSets, SequencesExt

CONSTANTS
    Importers,  \* invocations of the two commands
    Urls,       \* canonical addresses
    Bad, Blank, \* a line whose row is quarantined, a line with no cell
    Texts,      \* what a source may hold: sequences of lines
    Labels,     \* the request besides the text: kind, origin, review label, mapping
    MaxEdits,   \* bound: edits of a source
    MaxImports  \* bound: attempts to import

VARIABLES
    text,       \* what the file and the tab hold now
    edits,
    groups,     \* url_groups: the attempt that made the address's group, 0 without one
    batches,    \* import_batches with their source_rows, committed
    importer,
    attempts    \* how each attempt ended

intakeVars == <<text, edits, groups, batches, importer, attempts>>

-----------------------------------------------------------------------------
Lines == Urls \cup {Bad, Blank}
Sources == {"file", "tab"}
Row == [line : Lines \ {Blank}, group : 0..MaxImports]

\* The longest text.
Longest == CHOOSE n \in {Len(t) : t \in Texts} : \A t \in Texts : Len(t) <= n

Batch == [key : Sources \X Labels \X SeqOf(Lines \ {Blank}, Longest), rows : SeqOf(Row, Longest),
          parsed : 0..Longest, quarantined : 0..Longest,
          status : {"completed", "completed_with_issues"}]

Ends == {"running", "imported", "already", "refused", "changed", "duplicate", "aborted",
         "deadlock"}

ImporterRow ==
    [pc : {"idle", "inspect", "look", "begin", "write", "finish"},
     source : Sources, label : Labels, attempt : 0..MaxImports,
     seen : 0..Longest,               \* how far the first pass is
     read : SeqOf(Lines \ {Blank}, Longest),    \* the rows it found
     again : SeqOf(Lines \ {Blank}, Longest),   \* the rows of the second
     rows : SeqOf(Row, Longest),      \* source_rows, not yet committed
     made : SUBSET Urls,              \* url_groups inserted, not yet committed
     held : SUBSET Urls]              \* url_groups rows locked

TypeOK ==
    /\ text \in [Sources -> SeqOf(Lines, Longest)]
    /\ edits \in 0..MaxEdits
    /\ groups \in [Urls -> 0..MaxImports]
    /\ batches \subseteq Batch
    /\ importer \in [Importers -> ImporterRow]
    /\ attempts \in Seq(Ends) /\ Len(attempts) <= MaxImports

Idle == [pc |-> "idle", source |-> "file", label |-> CHOOSE l \in Labels : TRUE, attempt |-> 0,
         seen |-> 0, read |-> <<>>, again |-> <<>>, rows |-> <<>>, made |-> {}, held |-> {}]

Init ==
    /\ text \in [Sources -> Texts]
    /\ edits = 0
    /\ groups = [u \in Urls |-> 0]
    /\ batches = {}
    /\ importer = [i \in Importers |-> Idle]
    /\ attempts = <<>>

Become(i, new) == importer' = [importer EXCEPT ![i] = new]

\* The attempt is over: its connection goes back, what it locked is free, and
\* unless it committed nothing of it stays (withTransaction's ROLLBACK).
End(i, how) ==
    /\ Become(i, Idle)
    /\ attempts' = [attempts EXCEPT ![importer[i].attempt] = how]

\* batch.idempotency_key: computeIdempotencyKey, over computeBatchDigest for a tab.
Key(i) == <<importer[i].source, importer[i].label, importer[i].read>>

InTransaction(i) == importer[i].pc \in {"write", "finish"}

\* Who keeps i from inserting its batch row: the same key, not yet committed.
HoldsKey(i, j) == j # i /\ InTransaction(j) /\ Key(j) = Key(i)

-----------------------------------------------------------------------------
\* Somebody edits the sheet, or exports the file anew.
Edit(s, new) ==
    /\ edits < MaxEdits
    /\ text[s] # new
    /\ text' = [text EXCEPT ![s] = new]
    /\ edits' = edits + 1
    /\ UNCHANGED <<groups, batches, importer, attempts>>

\* importCsvFile from assertImportRequest, importSheetsTab.
Ask(i, s, l) ==
    /\ importer[i].pc = "idle"
    /\ Len(attempts) < MaxImports
    /\ attempts' = Append(attempts, "running")
    /\ Become(i, [Idle EXCEPT !.pc = "inspect", !.source = s, !.label = l,
                              !.attempt = Len(attempts) + 1])
    /\ UNCHANGED <<text, edits, groups, batches>>

\* The next line of what the source holds by now; a reader that the source
\* has shrunk under is at its end.
More(i, seen) == seen < Len(text[importer[i].source])
NextLine(i, seen) == text[importer[i].source][seen + 1]

\* readCsv for inspectCsvFile, readTab for readFeedTab: a line at a time.  A
\* blank line of a file has too few columns; one of a tab is passed over.
Inspect(i) ==
    /\ importer[i].pc = "inspect"
    /\ More(i, importer[i].seen)
    /\ LET line == NextLine(i, importer[i].seen) IN
       IF line = Blank /\ importer[i].source = "file"
         THEN End(i, "refused")
         ELSE /\ Become(i, [importer[i] EXCEPT
                     !.seen = @ + 1,
                     !.read = IF line = Blank THEN @ ELSE Append(@, line)])
              /\ UNCHANGED attempts
    /\ UNCHANGED <<text, edits, groups, batches>>

\* A tab with no data row is refused; a file with none is an empty batch.
Inspected(i) ==
    /\ importer[i].pc = "inspect"
    /\ ~More(i, importer[i].seen)
    /\ IF importer[i].source = "tab" /\ importer[i].read = <<>>
         THEN End(i, "refused")
         ELSE /\ Become(i, [importer[i] EXCEPT !.pc = "look"])
              /\ UNCHANGED attempts
    /\ UNCHANGED <<text, edits, groups, batches>>

Imported(key) == \E b \in batches : b.key = key

\* findImportBatchByIdempotencyKey, on a connection of its own.
Look(i) ==
    /\ importer[i].pc = "look"
    /\ IF Imported(Key(i))
         THEN End(i, "already")
         ELSE /\ Become(i, [importer[i] EXCEPT !.pc = "begin"])
              /\ UNCHANGED attempts
    /\ UNCHANGED <<text, edits, groups, batches>>

\* insertImportBatch: the unique key makes a second one wait for the first to
\* commit or to roll back, and refuses it if it committed.
Insert(i) ==
    /\ importer[i].pc = "begin"
    /\ \A j \in Importers : ~HoldsKey(i, j)
    /\ IF Imported(Key(i))
         THEN End(i, "duplicate")
         ELSE /\ Become(i, [importer[i] EXCEPT !.pc = "write"])
              /\ UNCHANGED attempts
    /\ UNCHANGED <<text, edits, groups, batches>>

-----------------------------------------------------------------------------
(* The rows. *)

\* The line the next row is made of: a file is read again, a tab is not.
Unwritten(i) ==
    IF importer[i].source = "file"
      THEN More(i, Len(importer[i].again))
      ELSE Len(importer[i].again) < Len(importer[i].read)
LineToWrite(i) ==
    IF importer[i].source = "file"
      THEN NextLine(i, Len(importer[i].again))
      ELSE importer[i].read[Len(importer[i].again) + 1]

\* The row of a group is inserted or updated by one transaction at a time.
GroupFree(i, line) == \A j \in Importers \ {i} : line \notin importer[j].held

\* flushChunk: ensureUrlGroups makes the address's group or finds it, and the
\* row is stored with it.  A quarantined row here has no address.
WriteRow(i) ==
    /\ importer[i].pc = "write"
    /\ Unwritten(i)
    /\ LET line == LineToWrite(i)
           new == line \in Urls /\ groups[line] = 0
           group == CASE line = Bad -> 0
                      [] new -> importer[i].attempt
                      [] OTHER -> groups[line]
       IN IF line = Blank
            THEN End(i, "refused")
            ELSE /\ GroupFree(i, line)
                 /\ Become(i, [importer[i] EXCEPT
                        !.again = Append(@, line),
                        !.rows = Append(@, [line |-> line, group |-> group]),
                        !.made = IF new THEN @ \cup {line} ELSE @,
                        !.held = IF line = Bad THEN @ ELSE @ \cup {line}])
                 /\ UNCHANGED attempts
    /\ UNCHANGED <<text, edits, groups, batches>>

\* The number of rows alone is compared.
SameLength(i) == Len(importer[i].again) = Len(importer[i].read)

\* The digest and the number of rows of the second pass are those of the first.
SameRead(i) == importer[i].again = importer[i].read

\* A tab has been read once: what is compared is its rows with the ones
\* stored (listSourceRowIdentities).
Compare(i) ==
    /\ importer[i].pc = "write"
    /\ ~Unwritten(i)
    /\ IF SameRead(i)
         THEN /\ Become(i, [importer[i] EXCEPT !.pc = "finish"])
              /\ UNCHANGED attempts
         ELSE End(i, "changed")
    /\ UNCHANGED <<text, edits, groups, batches>>

Quarantined(rows) == Cardinality({n \in DOMAIN rows : rows[n].line = Bad})

\* finalizeImportBatch, then COMMIT.
Finish(i) ==
    /\ importer[i].pc = "finish"
    /\ LET rows == importer[i].rows IN
       batches' = batches \cup
           {[key |-> Key(i), rows |-> rows, parsed |-> Len(rows),
             quarantined |-> Quarantined(rows),
             status |-> IF Quarantined(rows) > 0 THEN "completed_with_issues" ELSE "completed"]}
    /\ groups' = [u \in Urls |-> IF u \in importer[i].made THEN importer[i].attempt
                                                            ELSE groups[u]]
    /\ End(i, "imported")
    /\ UNCHANGED <<text, edits>>

\* The signal is checked at every record and page; a lost connection or a
\* stopped process ends the transaction the same way.
Abort(i) ==
    /\ importer[i].pc # "idle"
    /\ End(i, "aborted")
    /\ UNCHANGED <<text, edits, groups, batches>>

-----------------------------------------------------------------------------
(* Who waits for whom, and the database's deadlock detection. *)

WaitsFor(i, j) ==
    \/ importer[i].pc = "begin" /\ HoldsKey(i, j)
    \/ /\ importer[i].pc = "write" /\ Unwritten(i) /\ j # i
       /\ LineToWrite(i) \in importer[j].held

Deadlocked(i) == \E j \in Importers : WaitsFor(i, j) /\ WaitsFor(j, i)

\* One of them is chosen, and its whole import is rolled back.
BreakDeadlock(i) ==
    /\ Deadlocked(i)
    /\ End(i, "deadlock")
    /\ UNCHANGED <<text, edits, groups, batches>>

Progress(i) ==
    \/ Inspect(i) \/ Inspected(i) \/ Look(i) \/ Insert(i)
    \/ WriteRow(i) \/ Compare(i) \/ Finish(i)

Next ==
    \/ \E s \in Sources, new \in Texts : Edit(s, new)
    \/ \E i \in Importers :
        \/ \E s \in Sources, l \in Labels : Ask(i, s, l)
        \/ Progress(i) \/ Abort(i) \/ BreakDeadlock(i)

Spec == Init /\ [][Next]_intakeVars

\* An import that can go on does, and the database does not leave two
\* transactions waiting for each other (deadlock_timeout).
Fairness == \A i \in Importers : WF_intakeVars(Progress(i)) /\ WF_intakeVars(BreakDeadlock(i))

FairSpec == Spec /\ Fairness

-----------------------------------------------------------------------------
\* A batch is one read of its source: it holds a row for each line its digest
\* is of and nothing else, counted as it is stored, whatever was edited while
\* it was read (the second pass of importCsvFile, persistSheetsBatch).
BatchIsItsRead ==
    \A b \in batches :
        /\ [n \in DOMAIN b.rows |-> b.rows[n].line] = b.key[3]
        /\ b.parsed = Len(b.rows)
        /\ b.quarantined = Quarantined(b.rows)
        /\ (b.status = "completed_with_issues") <=> (b.quarantined > 0)

\* What was read is imported once, however many ask for it at once.
OneBatchPerRead == \A b, c \in batches : b.key = c.key => b = c

\* An address has one group, and every row of the address is in it, though
\* the batch that made the group may be another, or the one that was to make
\* it first rolled back (ensureUrlGroups).
RowsAreInTheirGroups ==
    \A b \in batches : \A n \in DOMAIN b.rows :
        LET r == b.rows[n] IN
        IF r.line = Bad THEN r.group = 0 ELSE r.group # 0 /\ r.group = groups[r.line]

\* A group was made by a batch that is there.
GroupsAreOfBatches ==
    \A u \in Urls : groups[u] # 0 =>
        \E b \in batches : \E n \in DOMAIN b.rows : b.rows[n] = [line |-> u, group |-> groups[u]]

\* An import that was asked for comes to an end: no wait for a lock of
\* another's is for ever.
EveryImportEnds ==
    \A n \in 1..MaxImports :
        (Len(attempts) >= n /\ attempts[n] = "running")
            ~> (Len(attempts) >= n /\ attempts[n] # "running")
=============================================================================
