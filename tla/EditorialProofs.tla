-------------------------- MODULE EditorialProofs ---------------------------
(***************************************************************************)
(* The article, the lists editors append to, the review of incidents, the  *)
(* evidence of a run, the files of a draft and the guards of a week's      *)
(* runs, for every number of requests, accounts, rows and memberships:     *)
(* what is written rests on what its author saw, what a statement was      *)
(* permitted on stays so, and the review implements the abstract grouping. *)
(***************************************************************************)
EXTENDS MCEditorial, FiniteSetTheorems, TLAPS

-----------------------------------------------------------------------------
(* The article. *)

\* A reading of the account's own, in force when it was confirmed, of the rows
\* that were selected when the request came.
Confirmed(s) ==
    /\ s.entry.account = s.by
    /\ s.at < s.entry.made + Life
    /\ s.entry.rows = s.rows

\* A request past its confirmation holds a confirmed source, one that writes
\* was paid for, and an edit has a revision under it.
RowSound(r) ==
    /\ r.pc \in {"found", "confirm"} => r.id \in Readings /\ r.account \in Accounts
    /\ r.pc \in {"claim"} \cup Holding => Confirmed(r.source)
    /\ r.pc = "persist" => paid
    /\ r.pc \in {"page", "insert"} => r.base # 0

ArticleInv == TypeOK /\ ArticleSound /\ \A h \in Handlers : RowSound(handler[h])

LEMMA ArticleTypes ==
    /\ Gone \in ReadingEntry /\ Gone.account = NoOne
    /\ NoSource \in Source
    /\ Idle \in HandlerRow /\ Idle.pc = "idle"
BY DEF Gone, ReadingEntry, NoSource, Source, Idle, HandlerRow

LEMMA ArticleInit == Init => ArticleInv
<1> SUFFICES ASSUME Init PROVE ArticleInv
  OBVIOUS
<1>1. TypeOK
  <2>1. article \in Seq(Revision) /\ Len(article) = 0
    BY DEF Init
  <2>2. /\ handler \in [Handlers -> HandlerRow] /\ reading \in [Readings -> ReadingEntry]
        /\ \A i \in Readings : reading[i].account = NoOne
    BY ArticleTypes DEF Init
  <2>3. now \in Nat /\ issued \in 0..MaxReadings
    BY ArticleAssumption DEF Init
  <2>4. selection \in SUBSET Rows /\ paid \in BOOLEAN /\ lock \in Handlers \cup {NoOne}
    BY DEF Init
  <2>5. QED BY <2>1, <2>2, <2>3, <2>4, ArticleAssumption DEF TypeOK
<1>2. \A h \in Handlers : RowSound(handler[h])
  BY DEF Init, Idle, RowSound, Holding
<1>3. ArticleSound
  BY DEF Init, ArticleSound, WrittenFromReading, EditsFollow
<1>4. QED BY <1>1, <1>2, <1>3 DEF ArticleInv

\* A request goes on, and the article stays as it is.
LEMMA ArticleStep ==
    ASSUME ArticleInv, NEW h \in Handlers, NEW new \in HandlerRow, Become(h, new),
           UNCHANGED <<now, selection, reading, issued, article>>,
           lock' \in Handlers \cup {NoOne}, paid' \in BOOLEAN, paid => paid',
           new.pc \in {"found", "confirm"} => new.id \in Readings /\ new.account \in Accounts,
           new.pc \in {"claim"} \cup Holding => Confirmed(new.source),
           new.pc = "persist" => paid',
           new.pc \in {"page", "insert"} => new.base # 0
    PROVE  ArticleInv'
<1>1. \A g \in Handlers : handler'[g] = IF g = h THEN new ELSE handler[g]
  BY DEF ArticleInv, TypeOK, Become
<1>2. handler' \in [Handlers -> HandlerRow]
  BY DEF ArticleInv, TypeOK, Become
<1>3. TypeOK'
  BY <1>2 DEF ArticleInv, TypeOK
<1>4. ArticleSound'
  BY DEF ArticleInv, ArticleSound, WrittenFromReading, EditsFollow
<1>5. (\A g \in Handlers : RowSound(handler[g]))'
  BY <1>1 DEF ArticleInv, RowSound
<1>6. QED BY <1>3, <1>4, <1>5 DEF ArticleInv

\* A request is over, wherever it was.
LEMMA ArticleEnd ==
    ASSUME ArticleInv, NEW h \in Handlers, Become(h, Idle),
           UNCHANGED <<now, selection, reading, issued, article, paid>>,
           lock' \in Handlers \cup {NoOne}
    PROVE  ArticleInv'
<1>1. Idle.pc \notin {"found", "confirm", "claim", "persist", "page", "insert"} \cup Holding
  BY ArticleTypes DEF Holding
<1> HIDE DEF Idle
<1>2. QED BY <1>1, ArticleTypes, ArticleStep DEF ArticleInv, TypeOK

\* Only the place of a request changes.
LEMMA PlaceRow ==
    ASSUME NEW r \in HandlerRow, NEW pc \in {"confirm", "recheck", "prepare", "call",
                                             "persist", "insert"},
           NEW new, new = [r EXCEPT !.pc = pc]
    PROVE  /\ new \in HandlerRow /\ new.pc = pc
           /\ new.id = r.id /\ new.account = r.account
           /\ new.source = r.source /\ new.base = r.base
BY DEF HandlerRow, Holding

LEMMA AskForReadingInv ==
    ASSUME ArticleInv, NEW h \in Handlers, NEW a \in Accounts, AskForReading(h, a)
    PROVE  ArticleInv'
<1> DEFINE new == [Idle EXCEPT !.pc = "fetch", !.account = a, !.rows = selection]
<1>1. selection \in SUBSET Rows /\ lock \in Handlers \cup {NoOne} /\ paid \in BOOLEAN
  BY DEF ArticleInv, TypeOK
<1>2. new \in HandlerRow /\ new.pc = "fetch"
  BY <1>1, ArticleTypes DEF Idle, HandlerRow
<1>3. Become(h, new) /\ UNCHANGED <<now, selection, reading, issued, article, lock, paid>>
  BY DEF AskForReading
<1> HIDE DEF new
<1>4. QED BY <1>1, <1>2, <1>3, ArticleStep DEF Holding

LEMMA AskForArticleInv ==
    ASSUME ArticleInv, NEW h \in Handlers, NEW a \in Accounts, NEW id \in Readings,
           AskForArticle(h, a, id)
    PROVE  ArticleInv'
<1> DEFINE new == [Idle EXCEPT !.pc = "found", !.account = a, !.rows = selection, !.id = id]
<1>1. selection \in SUBSET Rows /\ lock \in Handlers \cup {NoOne} /\ paid \in BOOLEAN
  BY DEF ArticleInv, TypeOK
<1>2. new \in HandlerRow /\ new.pc = "found" /\ new.id = id /\ new.account = a
  <2>1. id \in Nat
    BY ArticleAssumption DEF Readings
  <2>2. QED BY <1>1, <2>1, ArticleTypes DEF Idle, HandlerRow
<1>3. Become(h, new) /\ UNCHANGED <<now, selection, reading, issued, article, lock, paid>>
  BY DEF AskForArticle
<1> HIDE DEF new
<1>4. QED BY <1>1, <1>2, <1>3, ArticleStep DEF Holding

\* The page is made from a revision: the article is there.
LEMMA OpenPageInv ==
    ASSUME ArticleInv, NEW h \in Handlers, OpenPage(h)
    PROVE  ArticleInv'
<1> DEFINE new == [Idle EXCEPT !.pc = "page", !.base = Len(article)]
<1>1. Len(article) \in Nat \ {0} /\ lock \in Handlers \cup {NoOne} /\ paid \in BOOLEAN
  BY DEF ArticleInv, TypeOK, OpenPage
<1>2. new \in HandlerRow /\ new.pc = "page" /\ new.base = Len(article)
  BY <1>1, ArticleTypes DEF Idle, HandlerRow
<1>3. Become(h, new) /\ UNCHANGED <<now, selection, reading, issued, article, lock, paid>>
  BY DEF OpenPage
<1> HIDE DEF new
<1>4. QED BY <1>1, <1>2, <1>3, ArticleStep DEF Holding

\* A request goes on to its next place, or ends.
LEMMA OnwardInv ==
    ASSUME ArticleInv, NEW h \in Handlers,
           NotGenerated(h) \/ Claim(h) \/ Recheck(h) \/ Prepare(h) \/ Answer(h) \/ Save(h) \/ Die(h)
    PROVE  ArticleInv'
<1> DEFINE ended == /\ Become(h, Idle) /\ UNCHANGED <<now, selection, reading, issued, article, paid>>
                    /\ lock' \in Handlers \cup {NoOne}
<1>1. ended => ArticleInv'
  BY ArticleEnd
<1>2. /\ lock \in Handlers \cup {NoOne} /\ paid \in BOOLEAN /\ handler[h] \in HandlerRow
      /\ RowSound(handler[h])
  BY DEF ArticleInv, TypeOK
<1>3. ASSUME NEW pc \in {"confirm", "recheck", "prepare", "call", "persist", "insert"},
             Step(h, pc), UNCHANGED <<now, selection, reading, issued, article>>,
             lock' \in Handlers \cup {NoOne}, paid' \in BOOLEAN, paid => paid',
             pc = "confirm" => handler[h].pc = "found",
             pc \in Holding => handler[h].pc \in {"claim"} \cup Holding,
             pc = "persist" => paid',
             pc = "insert" => handler[h].pc = "page"
      PROVE  ArticleInv'
  <2> DEFINE new == [handler[h] EXCEPT !.pc = pc]
  <2>0. new = [handler[h] EXCEPT !.pc = pc]
    OBVIOUS
  <2>2. Become(h, new)
    BY <1>3 DEF Step
  <2> HIDE DEF new
  <2>1. /\ new \in HandlerRow /\ new.pc = pc /\ new.id = handler[h].id
        /\ new.account = handler[h].account /\ new.source = handler[h].source
        /\ new.base = handler[h].base
    <3>1. handler[h] \in HandlerRow
      BY <1>2
    <3>2. QED BY <2>0, <3>1, PlaceRow
  <2>3. new.pc \in {"found", "confirm"} => new.id \in Readings /\ new.account \in Accounts
    BY <1>2, <1>3, <2>1 DEF RowSound
  <2>4. new.pc \in {"claim"} \cup Holding => Confirmed(new.source)
    BY <1>2, <1>3, <2>1 DEF RowSound
  <2>5. new.pc \in {"page", "insert"} => new.base # 0
    BY <1>2, <1>3, <2>1 DEF RowSound
  <2>6. QED BY <1>3, <2>1, <2>2, <2>3, <2>4, <2>5, ArticleStep
<1>4. CASE NotGenerated(h)
  BY <1>1, <1>2, <1>3, <1>4 DEF NotGenerated, Holding
<1>5. CASE Claim(h)
  BY <1>1, <1>2, <1>3, <1>5 DEF Claim, Holding
<1>6. CASE Recheck(h)
  BY <1>1, <1>2, <1>3, <1>6 DEF Recheck, Holding
<1>7. CASE Prepare(h)
  BY <1>1, <1>2, <1>3, <1>7 DEF Prepare, Holding
<1>8. CASE Answer(h)
  BY <1>1, <1>2, <1>3, <1>8 DEF Answer, Holding
<1>9. CASE Save(h)
  BY <1>1, <1>2, <1>3, <1>9 DEF Save, Holding
<1>10. CASE Die(h)
  BY <1>1, <1>2, <1>10 DEF Die
<1>11. QED BY <1>4, <1>5, <1>6, <1>7, <1>8, <1>9, <1>10

\* The cache changes: its entries stay well formed and an account's own.
LEMMA CacheStep ==
    ASSUME ArticleInv, NEW h \in Handlers, NEW new \in HandlerRow, Become(h, new),
           reading' \in [Readings -> ReadingEntry], issued' \in 0..MaxReadings,
           \A i, j \in Readings :
              reading'[i].account # NoOne /\ reading'[i].account = reading'[j].account => i = j,
           UNCHANGED <<now, selection, article, paid, lock>>,
           new.pc \notin {"found", "confirm", "persist", "page", "insert"},
           new.pc \in {"claim"} \cup Holding => Confirmed(new.source)
    PROVE  ArticleInv'
<1>1. \A g \in Handlers : handler'[g] = IF g = h THEN new ELSE handler[g]
  BY DEF ArticleInv, TypeOK, Become
<1>2. handler' \in [Handlers -> HandlerRow]
  BY DEF ArticleInv, TypeOK, Become
<1>3. TypeOK'
  BY <1>2 DEF ArticleInv, TypeOK
<1>4. ArticleSound'
  BY DEF ArticleInv, ArticleSound, WrittenFromReading, EditsFollow
<1>5. (\A g \in Handlers : RowSound(handler[g]))'
  BY <1>1 DEF ArticleInv, RowSound
<1>6. QED BY <1>3, <1>4, <1>5 DEF ArticleInv

\* What is not swept is as it was.
LEMMA SweptIs ==
    ASSUME ArticleInv, NEW i \in Readings
    PROVE  /\ Swept[i] \in ReadingEntry
           /\ Swept[i] = Gone \/ (Swept[i] = reading[i] /\ now < reading[i].made + Life)
<1>1. reading[i] \in ReadingEntry /\ now \in Nat /\ reading[i].made \in Nat
  BY DEF ArticleInv, TypeOK, ReadingEntry
<1>2. Swept[i] = IF reading[i].made + Life <= now THEN Gone ELSE reading[i]
  BY DEF Swept
<1>3. QED BY <1>1, <1>2, ArticleTypes, ArticleAssumption

LEMMA HoldReadingInv ==
    ASSUME ArticleInv, NEW h \in Handlers, HoldReading(h)
    PROVE  ArticleInv'
<1> DEFINE a == handler[h].account
           held == [account |-> a, rows |-> handler[h].rows, made |-> now]
<1>1. handler[h] \in HandlerRow /\ now \in Nat /\ issued \in 0..MaxReadings
  BY DEF ArticleInv, TypeOK
<1>2. held \in ReadingEntry /\ held.account = a
  BY <1>1 DEF HandlerRow, ReadingEntry
<1>3. issued' \in 0..MaxReadings /\ issued' \in Readings
  BY <1>1, ArticleAssumption DEF HoldReading, Readings
<1>4. reading' = [i \in Readings |-> IF i = issued' THEN held
                                     ELSE IF Swept[i].account = a THEN Gone ELSE Swept[i]]
  BY DEF HoldReading
<1> HIDE DEF held, a
<1>5. \A i \in Readings : reading'[i] = IF i = issued' THEN held
                                        ELSE IF Swept[i].account = a THEN Gone ELSE Swept[i]
  BY <1>4
<1>6. reading' \in [Readings -> ReadingEntry]
  BY <1>2, <1>4, SweptIs, ArticleTypes
<1>7. ASSUME NEW i \in Readings, NEW j \in Readings,
             reading'[i].account # NoOne, reading'[i].account = reading'[j].account
      PROVE  i = j
  <2>1. ASSUME NEW k \in Readings, k # issued', reading'[k].account # NoOne
        PROVE  reading'[k].account = reading[k].account /\ reading'[k].account # a
    BY <1>5, <2>1, SweptIs, ArticleTypes
  <2>2. CASE i = issued' \/ j = issued'
    BY <1>2, <1>3, <1>5, <1>7, <2>1, <2>2
  <2>3. CASE i # issued' /\ j # issued'
    BY <1>7, <2>1, <2>3 DEF ArticleInv, TypeOK
  <2>4. QED BY <2>2, <2>3
<1>8. Become(h, Idle) /\ UNCHANGED <<now, selection, article, paid, lock>>
  BY DEF HoldReading
<1> HIDE DEF Idle
<1>9. Idle.pc \notin {"found", "confirm", "claim", "persist", "page", "insert"} \cup Holding
  BY ArticleTypes DEF Holding
<1>10. QED BY <1>3, <1>6, <1>7, <1>8, <1>9, ArticleTypes, CacheStep

LEMMA ConfirmInv ==
    ASSUME ArticleInv, NEW h \in Handlers, Confirm(h)
    PROVE  ArticleInv'
<1> DEFINE entry_ == Swept[handler[h].id]
           fits == entry_.account = handler[h].account /\ Covers(entry_, handler[h].rows)
           source == [entry |-> entry_, by |-> handler[h].account, at |-> now, rows |-> handler[h].rows]
           new == [Idle EXCEPT !.pc = "claim", !.id = handler[h].id, !.source = source]
<1>1. /\ handler[h] \in HandlerRow /\ handler[h].id \in Readings
      /\ handler[h].account \in Accounts /\ now \in Nat
  BY DEF ArticleInv, TypeOK, RowSound, Confirm
<1>2. entry_ \in ReadingEntry
  BY <1>1, SweptIs
<1>3. source \in Source /\ source.entry = entry_ /\ source.by = handler[h].account
      /\ source.at = now /\ source.rows = handler[h].rows
  BY <1>1, <1>2 DEF Source, HandlerRow
<1>4. fits => Confirmed(source)
  <2> HIDE DEF source, entry_
  <2>1. SUFFICES ASSUME entry_.account = handler[h].account, entry_.rows = handler[h].rows
                 PROVE  Confirmed(source)
    BY DEF Covers
  <2>2. entry_.account # NoOne
    BY <1>1, <2>1, ArticleAssumption
  <2>3. now < entry_.made + Life
    BY <1>1, <2>2, SweptIs, ArticleTypes DEF entry_
  <2>4. QED BY <1>3, <2>1, <2>3 DEF Confirmed
<1> HIDE DEF source
<1>5. new \in HandlerRow /\ new.pc = "claim" /\ new.source = source
  BY <1>1, <1>3, ArticleTypes DEF Idle, HandlerRow
<1>6. /\ reading' = Swept /\ UNCHANGED <<now, selection, issued, article, paid, lock>>
      /\ Become(h, IF fits THEN new ELSE Idle)
  BY DEF Confirm, source
<1>7. reading' \in [Readings -> ReadingEntry]
  BY <1>6, SweptIs DEF Swept
<1>8. \A i, j \in Readings :
         reading'[i].account # NoOne /\ reading'[i].account = reading'[j].account => i = j
  BY <1>6, SweptIs, ArticleTypes DEF ArticleInv, TypeOK
<1>9. issued' \in 0..MaxReadings
  BY <1>6 DEF ArticleInv, TypeOK
<1> HIDE DEF new, Idle, fits
<1>10. CASE fits
  BY <1>4, <1>5, <1>6, <1>7, <1>8, <1>9, <1>10, CacheStep DEF Holding
<1>11. CASE ~fits
  <2>1. Idle.pc \notin {"found", "confirm", "claim", "persist", "page", "insert"} \cup Holding
    BY ArticleTypes DEF Holding
  <2>2. QED BY <1>6, <1>7, <1>8, <1>9, <1>11, <2>1, ArticleTypes, CacheStep
<1>12. QED BY <1>10, <1>11

LEMMA DropReadingInv ==
    ASSUME ArticleInv, NEW h \in Handlers, DropReading(h)
    PROVE  ArticleInv'
<1>1. reading' = [reading EXCEPT ![handler[h].id] = Gone]
  BY DEF DropReading
<1>2. reading' \in [Readings -> ReadingEntry]
  BY <1>1, ArticleTypes DEF ArticleInv, TypeOK
<1>3. \A i, j \in Readings :
         reading'[i].account # NoOne /\ reading'[i].account = reading'[j].account => i = j
  BY <1>1, ArticleTypes DEF ArticleInv, TypeOK
<1>4. Become(h, Idle) /\ issued' \in 0..MaxReadings
      /\ UNCHANGED <<now, selection, article, paid, lock>>
  BY DEF DropReading, ArticleInv, TypeOK
<1> HIDE DEF Idle
<1>5. Idle.pc \notin {"found", "confirm", "claim", "persist", "page", "insert"} \cup Holding
  BY ArticleTypes DEF Holding
<1>6. QED BY <1>2, <1>3, <1>4, <1>5, ArticleTypes, CacheStep

\* The first revision is written from what the request confirmed.
LEMMA PersistInv ==
    ASSUME ArticleInv, NEW h \in Handlers, Persist(h)
    PROVE  ArticleInv'
<1> DEFINE text == [kind |-> "generated", base |-> 0, source |-> handler[h].source]
           done == [Idle EXCEPT !.pc = "drop", !.id = handler[h].id]
<1>1. handler[h] \in HandlerRow /\ Confirmed(handler[h].source) /\ paid
  BY DEF ArticleInv, TypeOK, RowSound, Persist, Holding
<1>2. text \in Revision /\ text.kind = "generated" /\ text.source = handler[h].source
  BY <1>1 DEF Revision, HandlerRow
<1>3. done \in HandlerRow /\ done.pc = "drop"
  BY <1>1, ArticleTypes DEF Idle, HandlerRow
<1>4. UNCHANGED <<now, selection, reading, issued, paid>> /\ lock' \in Handlers \cup {NoOne}
  BY DEF Persist
<1> HIDE DEF Idle
<1>5. CASE article # <<>>
  <2>1. UNCHANGED article /\ Become(h, Idle)
    BY <1>5 DEF Persist
  <2>2. QED BY <1>4, <2>1, ArticleEnd
<1>6. CASE article = <<>>
  <2>1. article' = <<text>> /\ Become(h, done)
    BY <1>6 DEF Persist
  <2> HIDE DEF text, done
  <2>2. article' \in Seq(Revision) /\ Len(article') = 1 /\ article'[1] = text
    BY <1>2, <2>1
  <2>3. handler' \in [Handlers -> HandlerRow]
    BY <1>3, <2>1 DEF Become, ArticleInv, TypeOK
  <2>4. TypeOK'
    BY <1>2, <1>4, <2>2, <2>3, ArticleAssumption DEF ArticleInv, TypeOK
  <2>5. WrittenFromReading'
    BY <1>1, <1>2, <1>4, <2>2 DEF WrittenFromReading, Confirmed
  <2>6. EditsFollow'
    BY <2>2 DEF EditsFollow
  <2>7. \A g \in Handlers : handler'[g] = IF g = h THEN done ELSE handler[g]
    BY <2>1 DEF ArticleInv, TypeOK, Become
  <2>8. (\A g \in Handlers : RowSound(handler[g]))'
    BY <1>3, <1>4, <2>7 DEF ArticleInv, RowSound, Holding
  <2>9. QED BY <2>4, <2>5, <2>6, <2>8 DEF ArticleInv, ArticleSound
<1>7. QED BY <1>5, <1>6

\* An edit is appended behind the revision its author saw, or not at all.
LEMMA InsertEditInv ==
    ASSUME ArticleInv, NEW h \in Handlers, InsertEdit(h)
    PROVE  ArticleInv'
<1> DEFINE edit == [kind |-> "edited", base |-> handler[h].base, source |-> NoSource]
<1>1. handler[h] \in HandlerRow /\ handler[h].base # 0
  BY DEF ArticleInv, TypeOK, RowSound, InsertEdit
<1>2. edit \in Revision /\ edit.kind = "edited" /\ edit.base = handler[h].base
  BY <1>1, ArticleTypes DEF Revision, HandlerRow
<1>3. UNCHANGED <<now, selection, reading, issued, paid, lock>> /\ Become(h, Idle)
  BY DEF InsertEdit
<1> HIDE DEF Idle
<1>4. CASE UNCHANGED article
  BY <1>3, <1>4, ArticleEnd DEF ArticleInv, TypeOK
<1>5. CASE article' # article
  <2>1. /\ article' = Append(article, edit)
        /\ handler[h].base = Len(article) /\ Len(article) < MaxRevisions
    BY <1>5 DEF InsertEdit, Follows
  <2> HIDE DEF edit
  <2>2. article \in Seq(Revision) /\ Len(article) \in Nat \ {0}
    BY <1>1, <2>1 DEF ArticleInv, TypeOK
  <2>3. /\ article' \in Seq(Revision) /\ Len(article') = Len(article) + 1
        /\ \A n \in 1..Len(article) : article'[n] = article[n]
        /\ article'[Len(article) + 1] = edit
    BY <1>2, <2>1, <2>2
  <2>4. handler' \in [Handlers -> HandlerRow]
    BY <1>3, ArticleTypes DEF Become, ArticleInv, TypeOK
  <2>5. \A n \in 1..Len(article') : article'[n].kind = IF n = 1 THEN "generated" ELSE "edited"
    BY <1>2, <2>2, <2>3 DEF ArticleInv, TypeOK
  <2>6. TypeOK'
    BY <1>3, <2>1, <2>2, <2>3, <2>4, <2>5, ArticleAssumption DEF ArticleInv, TypeOK
  <2>7. WrittenFromReading'
    BY <1>3, <2>2, <2>3 DEF ArticleInv, ArticleSound, WrittenFromReading
  <2>8. EditsFollow'
    BY <1>2, <2>1, <2>2, <2>3 DEF ArticleInv, ArticleSound, EditsFollow
  <2>9. \A g \in Handlers : handler'[g] = IF g = h THEN Idle ELSE handler[g]
    BY <1>3 DEF ArticleInv, TypeOK, Become
  <2>10. (\A g \in Handlers : RowSound(handler[g]))'
    BY <1>3, <2>9, ArticleTypes DEF ArticleInv, RowSound, Holding
  <2>11. QED BY <2>6, <2>7, <2>8, <2>10 DEF ArticleInv, ArticleSound
<1>6. QED BY <1>4, <1>5

\* The process restarts, another page selects, time passes.
LEMMA AroundInv ==
    ASSUME ArticleInv, Restart \/ (\E rows \in Selections : Select(rows)) \/ Tick
    PROVE  ArticleInv'
<1>1. CASE Restart
  <2>1. /\ \A i \in Readings : reading'[i] = Gone
        /\ reading' \in [Readings -> ReadingEntry]
        /\ handler' \in [Handlers -> HandlerRow]
        /\ \A h \in Handlers : handler'[h] = Idle
    BY <1>1, ArticleTypes DEF Restart
  <2>2. UNCHANGED <<now, selection, issued, article, paid>> /\ lock' = NoOne
    BY <1>1 DEF Restart
  <2> HIDE DEF Idle
  <2>3. TypeOK'
    BY <2>1, <2>2, ArticleTypes DEF ArticleInv, TypeOK
  <2>4. ArticleSound'
    BY <2>2 DEF ArticleInv, ArticleSound, WrittenFromReading, EditsFollow
  <2>5. (\A h \in Handlers : RowSound(handler[h]))'
    BY <2>1, ArticleTypes DEF RowSound, Holding
  <2>6. QED BY <2>3, <2>4, <2>5 DEF ArticleInv
<1>2. CASE (\E rows \in Selections : Select(rows)) \/ Tick
  <2>1. /\ UNCHANGED <<reading, issued, article, paid, lock, handler>>
        /\ selection' \in SUBSET Rows /\ now' \in Nat
    BY <1>2, ArticleAssumption DEF Select, Tick, ArticleInv, TypeOK
  <2>2. TypeOK' /\ ArticleSound'
    BY <2>1 DEF ArticleInv, TypeOK, ArticleSound, WrittenFromReading, EditsFollow
  <2>3. (\A h \in Handlers : RowSound(handler[h]))'
    BY <2>1 DEF ArticleInv, RowSound
  <2>4. QED BY <2>2, <2>3 DEF ArticleInv
<1>3. QED BY <1>1, <1>2

LEMMA ArticleNext == ArticleInv /\ [Next]_vars => ArticleInv'
<1> SUFFICES ASSUME ArticleInv, [Next]_vars PROVE ArticleInv'
  OBVIOUS
<1>1. CASE UNCHANGED vars
  <2>1. TypeOK' /\ ArticleSound'
    BY <1>1 DEF vars, ArticleInv, TypeOK, ArticleSound, WrittenFromReading, EditsFollow
  <2>2. (\A h \in Handlers : RowSound(handler[h]))'
    BY <1>1 DEF vars, ArticleInv, RowSound
  <2>3. QED BY <2>1, <2>2 DEF ArticleInv
<1>2. CASE Next
  <2>1. ASSUME NEW h \in Handlers,
               \/ \E a \in Accounts : AskForReading(h, a) \/ \E id \in Readings : AskForArticle(h, a, id)
               \/ OpenPage(h)
        PROVE  ArticleInv'
    BY <2>1, AskForReadingInv, AskForArticleInv, OpenPageInv
  <2>2. QED BY <1>2, <2>1, OnwardInv, HoldReadingInv, ConfirmInv, DropReadingInv, PersistInv,
                InsertEditInv, AroundInv DEF Next
<1>3. QED BY <1>1, <1>2

-----------------------------------------------------------------------------
(* The lists editors append to. *)

\* Who has counted a row of the queue holds its lock and its number is right;
\* who saves a draft has seen room for it.
EditorSound(e) ==
    /\ editor[e].pc = "counted" => entryLock = e /\ editor[e].number = queue
    /\ editor[e].pc = "draft" => editor[e].number < MaxRevisions

EditingInv == D!TypeOK /\ D!EditsInOrder /\ \A e \in Handlers : EditorSound(e)

LEMMA EditorTypes == D!Idle \in D!EditorRow /\ D!Idle.pc = "idle"
BY DEF D!Idle, D!EditorRow

LEMMA EditingInit == D!Init => EditingInv
<1> SUFFICES ASSUME D!Init PROVE EditingInv
  OBVIOUS
<1>1. /\ queue = 0 /\ entryLock = NoOne /\ drafts = <<>> /\ selections = <<>>
      /\ editor \in [Handlers -> D!EditorRow] /\ \A e \in Handlers : editor[e].pc = "idle"
  BY EditorTypes DEF D!Init
<1>2. D!TypeOK
  BY <1>1, EditorialAssumption, ArticleAssumption DEF D!TypeOK
<1>3. D!EditsInOrder /\ \A e \in Handlers : EditorSound(e)
  BY <1>1 DEF D!EditsInOrder, EditorSound
<1>4. QED BY <1>2, <1>3 DEF EditingInv

\* An editor goes on, and no list changes.
LEMMA EditorStep ==
    ASSUME EditingInv, NEW e \in Handlers, NEW new \in D!EditorRow,
           editor' = [editor EXCEPT ![e] = new],
           UNCHANGED <<queue, drafts, selections>>,
           \/ UNCHANGED entryLock
           \/ entryLock \in {NoOne, e} /\ entryLock' \in {NoOne, e},
           new.pc = "counted" => entryLock' = e /\ new.number = queue,
           new.pc = "draft" => new.number < MaxRevisions
    PROVE  EditingInv'
<1>1. \A g \in Handlers : editor'[g] = IF g = e THEN new ELSE editor[g]
  BY DEF EditingInv, D!TypeOK
<1>2. D!TypeOK'
  BY DEF EditingInv, D!TypeOK
<1>3. D!EditsInOrder'
  BY DEF EditingInv, D!EditsInOrder
<1>4. (\A g \in Handlers : EditorSound(g))'
  BY <1>1, EditorialAssumption DEF EditingInv, EditorSound
<1>5. QED BY <1>2, <1>3, <1>4 DEF EditingInv

\* The steps that append nothing.
LEMMA EditorMovesInv ==
    ASSUME EditingInv, NEW e \in Handlers,
           \/ D!AskReview(e) \/ D!CountEntry(e) \/ D!OpenDraft(e) \/ D!SaveDraft(e)
           \/ D!ReadSelection(e) \/ D!Die(e)
    PROVE  EditingInv'
<1>1. /\ editor[e] \in D!EditorRow /\ queue \in Nat /\ Len(drafts) \in Nat /\ Len(selections) \in Nat
  BY EditorialAssumption DEF EditingInv, D!TypeOK
<1>2. \A pc \in {"found", "counted", "page", "draft", "selection"}, n \in Nat :
         LET new == [pc |-> pc, number |-> n] IN
         new \in D!EditorRow /\ new.pc = pc /\ new.number = n
  BY DEF D!EditorRow
<1>3. CASE D!AskReview(e)
  <2> DEFINE new == [D!Idle EXCEPT !.pc = "found"]
  <2>1. new \in D!EditorRow /\ new.pc = "found"
    BY DEF D!Idle, D!EditorRow
  <2>2. editor' = [editor EXCEPT ![e] = new] /\ UNCHANGED <<queue, entryLock, drafts, selections>>
    BY <1>3 DEF D!AskReview, D!Become
  <2> HIDE DEF new
  <2>3. QED BY <2>1, <2>2, EditorStep
<1>4. CASE D!CountEntry(e)
  <2> DEFINE new == [D!Idle EXCEPT !.pc = "counted", !.number = queue]
  <2>1. new \in D!EditorRow /\ new.pc = "counted" /\ new.number = queue
    BY <1>1 DEF D!Idle, D!EditorRow
  <2>2. /\ editor' = [editor EXCEPT ![e] = new] /\ UNCHANGED <<queue, drafts, selections>>
        /\ entryLock = NoOne /\ entryLock' = e
    BY <1>4 DEF D!CountEntry, D!Become, D!EntryFree
  <2> HIDE DEF new
  <2>3. QED BY <2>1, <2>2, EditorStep
<1>5. CASE D!OpenDraft(e)
  <2> DEFINE new == [D!Idle EXCEPT !.pc = "page", !.number = Len(drafts)]
  <2>1. new \in D!EditorRow /\ new.pc = "page"
    BY <1>1 DEF D!Idle, D!EditorRow
  <2>2. editor' = [editor EXCEPT ![e] = new] /\ UNCHANGED <<queue, entryLock, drafts, selections>>
    BY <1>5 DEF D!OpenDraft, D!Become
  <2> HIDE DEF new
  <2>3. QED BY <2>1, <2>2, EditorStep
<1>6. CASE D!SaveDraft(e)
  <2> DEFINE new == [editor[e] EXCEPT !.pc = "draft"]
  <2>1. new \in D!EditorRow /\ new.pc = "draft" /\ new.number = editor[e].number
    BY <1>1 DEF D!EditorRow
  <2>2. /\ UNCHANGED <<queue, entryLock, drafts, selections>>
        /\ \/ editor' = [editor EXCEPT ![e] = new] /\ editor[e].number < MaxRevisions
           \/ editor' = [editor EXCEPT ![e] = D!Idle]
    BY <1>6 DEF D!SaveDraft, D!Become
  <2> HIDE DEF new, D!Idle
  <2>3. QED BY <2>1, <2>2, EditorStep, EditorTypes
<1>7. CASE D!ReadSelection(e)
  <2> DEFINE new == [pc |-> "selection", number |-> Len(selections)]
  <2>1. new \in D!EditorRow /\ new.pc = "selection"
    BY <1>1, <1>2
  <2>2. editor' = [editor EXCEPT ![e] = new] /\ UNCHANGED <<queue, entryLock, drafts, selections>>
    BY <1>7 DEF D!ReadSelection, D!Become
  <2> HIDE DEF new
  <2>3. QED BY <2>1, <2>2, EditorStep
<1>8. CASE D!Die(e)
  <2>1. /\ editor' = [editor EXCEPT ![e] = D!Idle] /\ UNCHANGED <<queue, drafts, selections>>
        /\ UNCHANGED entryLock \/ (entryLock = e /\ entryLock' = NoOne)
    BY <1>8 DEF D!Die, D!Become
  <2> HIDE DEF D!Idle
  <2>2. QED BY <2>1, EditorStep, EditorTypes
<1>9. QED BY <1>3, <1>4, <1>5, <1>6, <1>7, <1>8

\* Under the lock no decision comes between the count and the append.
LEMMA AppendDecisionInv ==
    ASSUME EditingInv, NEW e \in Handlers, D!AppendDecision(e)
    PROVE  EditingInv'
<1>1. /\ entryLock = e /\ editor[e].number = queue /\ queue \in 0..MaxPerEntry
  BY DEF EditingInv, EditorSound, D!TypeOK, D!AppendDecision
<1>2. /\ queue' \in 0..MaxPerEntry /\ entryLock' = NoOne /\ UNCHANGED <<drafts, selections>>
      /\ editor' = [editor EXCEPT ![e] = D!Idle]
  BY <1>1, EditorialAssumption DEF D!AppendDecision, D!Become
<1>3. \A g \in Handlers : g # e => editor[g].pc # "counted"
  BY <1>1 DEF EditingInv, EditorSound
<1> HIDE DEF D!Idle
<1>4. \A g \in Handlers : editor'[g] = IF g = e THEN D!Idle ELSE editor[g]
  BY <1>2 DEF EditingInv, D!TypeOK
<1>5. D!TypeOK'
  BY <1>2, EditorTypes DEF EditingInv, D!TypeOK
<1>6. D!EditsInOrder'
  BY <1>2 DEF EditingInv, D!EditsInOrder
<1>7. (\A g \in Handlers : EditorSound(g))'
  BY <1>3, <1>4, EditorTypes DEF EditingInv, EditorSound
<1>8. QED BY <1>5, <1>6, <1>7 DEF EditingInv

\* What Append makes of a sequence.
LEMMA AppendedSeq ==
    ASSUME NEW S, NEW s \in Seq(S), NEW x \in S
    PROVE  /\ Append(s, x) \in Seq(S) /\ Len(s) \in Nat /\ Len(Append(s, x)) = Len(s) + 1
           /\ \A n \in 1..Len(s) : Append(s, x)[n] = s[n]
           /\ Append(s, x)[Len(s) + 1] = x
OBVIOUS

\* A draft or a selection goes in where its author saw the end, or not at all.
LEMMA AppendInv ==
    ASSUME EditingInv, NEW e \in Handlers, D!AppendDraft(e) \/ D!InsertSelection(e)
    PROVE  EditingInv'
<1>1. /\ drafts \in Seq(Nat) /\ Len(drafts) <= MaxRevisions /\ selections \in Seq(1..MaxSelections)
      /\ editor[e].number \in Nat
  BY DEF EditingInv, D!TypeOK, D!EditorRow
<1>2. UNCHANGED <<queue, entryLock>> /\ editor' = [editor EXCEPT ![e] = D!Idle]
  BY DEF D!AppendDraft, D!InsertSelection, D!Become
<1> HIDE DEF D!Idle
<1>3. \/ UNCHANGED drafts
      \/ /\ drafts' = Append(drafts, editor[e].number)
         /\ editor[e].number = Len(drafts) /\ Len(drafts) < MaxRevisions
  BY <1>1 DEF EditingInv, EditorSound, D!AppendDraft, D!InsertSelection, D!RevisionFree
<1>4. \/ UNCHANGED selections
      \/ /\ selections' = Append(selections, editor[e].number + 1)
         /\ editor[e].number = Len(selections) /\ Len(selections) < MaxSelections
  BY <1>1 DEF D!AppendDraft, D!InsertSelection
<1>5. /\ drafts' \in Seq(Nat) /\ Len(drafts') <= MaxRevisions
      /\ \A n \in 1..Len(drafts') : drafts'[n] = n - 1
  <2>1. \A n \in 1..Len(drafts) : drafts[n] = n - 1
    BY DEF EditingInv, D!EditsInOrder
  <2>2. CASE UNCHANGED drafts
    BY <1>1, <2>1, <2>2
  <2>3. CASE /\ drafts' = Append(drafts, editor[e].number)
             /\ editor[e].number = Len(drafts) /\ Len(drafts) < MaxRevisions
    <3>1. /\ drafts' \in Seq(Nat) /\ Len(drafts') = Len(drafts) + 1 /\ Len(drafts) \in Nat
          /\ \A n \in 1..Len(drafts) : drafts'[n] = drafts[n]
          /\ drafts'[Len(drafts) + 1] = Len(drafts)
      BY <1>1, <2>3, AppendedSeq
    <3>2. Len(drafts') <= MaxRevisions
      BY <2>3, <3>1, ArticleAssumption
    <3>3. ASSUME NEW n \in 1..Len(drafts') PROVE drafts'[n] = n - 1
      <4>1. CASE n \in 1..Len(drafts)
        BY <2>1, <3>1, <4>1
      <4>2. CASE n = Len(drafts) + 1
        BY <3>1, <4>2
      <4>3. QED BY <3>1, <4>1, <4>2
    <3>4. QED BY <3>1, <3>2, <3>3
  <2>4. QED BY <1>3, <2>2, <2>3
<1>6. /\ selections' \in Seq(1..MaxSelections)
      /\ \A n \in 1..Len(selections') : selections'[n] = n
  <2>1. \A n \in 1..Len(selections) : selections[n] = n
    BY DEF EditingInv, D!EditsInOrder
  <2>2. CASE UNCHANGED selections
    BY <1>1, <2>1, <2>2
  <2>3. CASE /\ selections' = Append(selections, editor[e].number + 1)
             /\ editor[e].number = Len(selections) /\ Len(selections) < MaxSelections
    <3>1. editor[e].number + 1 \in 1..MaxSelections
      BY <1>1, <2>3, EditorialAssumption
    <3>2. QED BY <1>1, <2>1, <2>3, <3>1, AppendedSeq, EditorialAssumption
  <2>4. QED BY <1>4, <2>2, <2>3
<1>7. \A g \in Handlers : editor'[g] = IF g = e THEN D!Idle ELSE editor[g]
  BY <1>2 DEF EditingInv, D!TypeOK
<1>8. D!TypeOK'
  BY <1>2, <1>5, <1>6, EditorTypes DEF EditingInv, D!TypeOK
<1>9. D!EditsInOrder'
  BY <1>5, <1>6 DEF D!EditsInOrder
<1>10. (\A g \in Handlers : EditorSound(g))'
  BY <1>2, <1>7, EditorTypes DEF EditingInv, EditorSound
<1>11. QED BY <1>8, <1>9, <1>10 DEF EditingInv

LEMMA EditingNext == EditingInv /\ [D!Next]_editingVars => EditingInv'
<1> SUFFICES ASSUME EditingInv, [D!Next]_editingVars PROVE EditingInv'
  OBVIOUS
<1>1. CASE UNCHANGED editingVars
  BY <1>1 DEF editingVars, EditingInv, D!TypeOK, D!EditsInOrder, EditorSound
<1>2. CASE D!Next
  BY <1>2, EditorMovesInv, AppendDecisionInv, AppendInv DEF D!Next
<1>3. QED BY <1>1, <1>2

-----------------------------------------------------------------------------
(* The review of incidents. *)

View == I!Effective(I!Revision)

Original == {Base[m] : m \in DOMAIN Base}

\* The replay of the recorded actions.
IsReplay(f) ==
    f = [n \in 0..I!Revision |-> IF n = 0 THEN Base ELSE I!Apply(f[n - 1], n)]

\* The recorded actions have one replay.
ReplayInv == \E f : IsReplay(f) /\ \A g : IsReplay(g) => g = f

\* Every membership is in an incident of the run or of an action.
ViewInv == View \in [DOMAIN Base -> Original \cup 1..I!Revision]

\* A merge names two incidents at least, a split one and something in it.
RequestSound(r) ==
    /\ r.operation = "merge" => Cardinality(r.incidents) >= 2
    /\ r.operation = "split" => r.memberships # {} /\ \E i : r.incidents = {i}

Fits(r) ==
    /\ r.incidents \subseteq I!EffectiveIds(View)
    /\ r.operation = "split" => I!TakesAPart(r, View)

\* A request past its validation fits the view as long as no action came since,
\* and declared the revision it was held against.
ReviewerSound(w) ==
    /\ w.pc # "idle" => RequestSound(w.request)
    /\ w.pc \in {"reread", "insert"} =>
          /\ w.prior <= I!Revision
          /\ w.request.expected \in {None, w.prior}
          /\ w.prior = I!Revision => Fits(w.request)

IncidentsInv ==
    /\ I!TypeOK /\ ReplayInv /\ ViewInv /\ I!ActsOnWhatItSaw
    /\ \A h \in Handlers : ReviewerSound(reviewer[h])

\* What an action makes of a view.
Moved(assignment, r, n) ==
    [m \in DOMAIN Base |->
        IF \/ r.operation = "merge" /\ assignment[m] \in r.incidents
           \/ r.operation = "split" /\ m \in r.memberships
          THEN n
          ELSE assignment[m]]

\* The view is the last of the one replay.
LEMMA ViewIs ==
    ASSUME NEW f, IsReplay(f), \A g : IsReplay(g) => g = f
    PROVE  View = f[I!Revision]
<1> DEFINE chosen == CHOOSE g : IsReplay(g)
<1>1. IsReplay(chosen)
  OBVIOUS
<1>2. chosen = f
  BY <1>1
<1>3. View = chosen[I!Revision]
  BY DEF View, I!Effective, IsReplay
<1>4. QED BY <1>2, <1>3

\* One action more: the replay of the longer list continues the one before it.
LEMMA ViewAfter ==
    ASSUME ReplayInv, actions \in Seq(I!Request), NEW r \in I!Request,
           actions' = Append(actions, r)
    PROVE  /\ ReplayInv'
           /\ View' = Moved(View, r, I!Revision + 1)
<1>0. PICK R \in Nat : R = I!Revision
  BY AppendedSeq DEF I!Revision
<1>1. PICK f : IsReplay(f) /\ \A g : IsReplay(g) => g = f
  BY DEF ReplayInv
<1>2. /\ R \in Nat /\ I!Revision' = R + 1 /\ actions'[R + 1] = r
      /\ \A n \in 1..R : actions'[n] = actions[n]
  BY <1>0, AppendedSeq DEF I!Revision
<1>3. \A a, n : I!Apply(a, n) = Moved(a, actions[n], n) /\ I!Apply(a, n)' = Moved(a, actions'[n], n)
  BY DEF I!Apply, I!Memberships, Moved
<1> DEFINE longer == [n \in 0..(R + 1) |-> IF n = R + 1 THEN Moved(f[R], r, R + 1) ELSE f[n]]
<1>4. \A g : IsReplay(g) <=> g = [n \in 0..R |-> IF n = 0 THEN Base
                                                 ELSE Moved(g[n - 1], actions[n], n)]
  BY <1>0, <1>3 DEF IsReplay
<1>5. \A g : IsReplay(g)' <=> g = [n \in 0..(R + 1) |-> IF n = 0 THEN Base
                                                        ELSE Moved(g[n - 1], actions'[n], n)]
  BY <1>2, <1>3 DEF IsReplay
<1>6. f[0] = Base /\ \A n \in 1..R : f[n] = Moved(f[n - 1], actions[n], n)
  <2>1. f = [n \in 0..R |-> IF n = 0 THEN Base ELSE Moved(f[n - 1], actions[n], n)]
    BY <1>1, <1>4
  <2>2. \A n \in 0..R : f[n] = IF n = 0 THEN Base ELSE Moved(f[n - 1], actions[n], n)
    BY <2>1
  <2>3. 0 \in 0..R /\ \A n \in 1..R : n \in 0..R /\ n # 0
    BY <1>2
  <2>4. QED BY <2>2, <2>3
<1>7. IsReplay(longer)'
  <2>1. \A n \in 0..R : longer[n] = f[n]
    BY <1>2
  <2>2. ASSUME NEW n \in 1..R
        PROVE  longer[n] = Moved(longer[n - 1], actions'[n], n)
    <3>1. n \in 0..R /\ n - 1 \in 0..R
      OBVIOUS
    <3>2. longer[n] = f[n] /\ longer[n - 1] = f[n - 1]
      BY <2>1, <3>1
    <3>3. actions'[n] = actions[n]
      BY <1>2
    <3> HIDE DEF longer
    <3>4. QED BY <1>6, <3>2, <3>3
  <2>3. longer[R + 1] = Moved(longer[R], actions'[R + 1], R + 1)
    BY <1>2, <2>1
  <2>4. longer[0] = Base
    BY <1>2, <1>6, <2>1
  <2>5. longer = [n \in 0..(R + 1) |-> longer[n]]
    OBVIOUS
  <2> HIDE DEF longer
  <2>6. ASSUME NEW n \in 0..(R + 1)
        PROVE  longer[n] = IF n = 0 THEN Base ELSE Moved(longer[n - 1], actions'[n], n)
    <3>1. n = 0 \/ n \in 1..R \/ n = R + 1
      BY <1>2
    <3>2. CASE n = R + 1
      <4>1. n # 0 /\ n - 1 = R
        BY <3>2
      <4>2. longer[n] = Moved(longer[n - 1], actions'[n], n)
        BY <2>3, <3>2, <4>1
      <4>3. QED BY <4>1, <4>2
    <3>3. CASE n \in 1..R
      <4>1. n # 0
        BY <3>3
      <4>2. QED BY <2>2, <3>3, <4>1
    <3>4. QED BY <2>4, <3>1, <3>2, <3>3
  <2>7. longer = [n \in 0..(R + 1) |-> IF n = 0 THEN Base ELSE Moved(longer[n - 1], actions'[n], n)]
    BY <2>5, <2>6
  <2>8. QED BY <1>5, <2>7
<1>8. ASSUME NEW g, IsReplay(g)' PROVE g = longer
  <2>1. g = [n \in 0..(R + 1) |-> IF n = 0 THEN Base ELSE Moved(g[n - 1], actions'[n], n)]
    BY <1>5, <1>8
  <2>2. \A n \in 0..(R + 1) : g[n] = IF n = 0 THEN Base ELSE Moved(g[n - 1], actions'[n], n)
    BY <2>1
  <2>12. ASSUME NEW n \in 0..(R + 1), n # 0
        PROVE  g[n] = Moved(g[n - 1], actions'[n], n)
    BY <2>2, <2>12
  <2> DEFINE shorter == [n \in 0..R |-> g[n]]
  <2>3. ASSUME NEW n \in 0..R
        PROVE  shorter[n] = IF n = 0 THEN Base ELSE Moved(shorter[n - 1], actions[n], n)
    <3>1. n \in 0..(R + 1) /\ shorter[n] = g[n]
      BY <1>2
    <3>2. CASE n = 0
      <4> HIDE DEF shorter
      <4>1. QED BY <2>2, <3>1, <3>2
    <3>3. CASE n # 0
      <4>1. n \in 1..R /\ n - 1 \in 0..R
        BY <3>3
      <4>2. shorter[n - 1] = g[n - 1]
        BY <4>1
      <4>3. actions'[n] = actions[n]
        BY <1>2, <4>1
      <4> HIDE DEF shorter
      <4>4. g[n] = Moved(g[n - 1], actions'[n], n)
        BY <2>2, <3>1, <3>3
      <4>5. QED BY <3>1, <3>3, <4>2, <4>3, <4>4
    <3>4. QED BY <3>2, <3>3
  <2>4. shorter = [n \in 0..R |-> shorter[n]]
    OBVIOUS
  <2>5. shorter = [n \in 0..R |-> IF n = 0 THEN Base ELSE Moved(shorter[n - 1], actions[n], n)]
    <3> HIDE DEF shorter
    <3>1. QED BY <2>3, <2>4
  <2>6. shorter = f
    <3> HIDE DEF shorter
    <3>1. IsReplay(shorter)
      BY <1>4, <2>5
    <3>2. QED BY <1>1, <3>1
  <2>7. \A n \in 0..R : g[n] = f[n]
    BY <2>6
  <2>8. g[R + 1] = Moved(f[R], r, R + 1)
    <3>1. PICK last \in 0..(R + 1) : last = R + 1
      OBVIOUS
    <3>2. last # 0 /\ last - 1 = R /\ R \in 0..R
      BY <3>1
    <3>3. g[last] = Moved(g[last - 1], actions'[last], last)
      BY <2>12, <3>2
    <3>4. g[last - 1] = f[R]
      BY <2>7, <3>2
    <3>5. actions'[last] = r
      BY <1>2, <3>1
    <3>6. QED BY <3>1, <3>3, <3>4, <3>5
  <2>9. ASSUME NEW n \in 0..(R + 1) PROVE g[n] = longer[n]
    <3>1. n = R + 1 \/ (n \in 0..R /\ n # R + 1)
      BY <1>2
    <3>2. QED BY <2>7, <2>8, <3>1
  <2>10. g = [n \in 0..(R + 1) |-> g[n]]
    BY <2>1, <2>2
  <2>11. QED BY <2>9, <2>10
<1>9. longer[R + 1] = Moved(f[R], r, R + 1)
  BY <1>2
<1> HIDE DEF longer
<1>10. View = f[R]
  BY <1>0, <1>1, ViewIs
<1>11. View' = longer[R + 1]
  <2> DEFINE chosen == CHOOSE g : IsReplay(g)'
  <2>1. chosen = longer
    BY <1>7, <1>8
  <2>2. View' = chosen[R + 1]
    BY <1>2 DEF View, I!Effective, IsReplay
  <2>3. QED BY <2>1, <2>2
<1>12. ReplayInv'
  BY <1>7, <1>8 DEF ReplayInv
<1>13. QED BY <1>9, <1>10, <1>11, <1>12, <1>0

LEMMA BaseIs ==
    /\ DOMAIN Base = ClusterRows /\ Base \in [ClusterRows -> Original]
    /\ I!Memberships = ClusterRows /\ I!IncidentIds = Original \cup 1..MaxActions
BY EditorialAssumption DEF Original, I!Memberships, I!IncidentIds

LEMMA SameView ==
    ASSUME UNCHANGED actions
    PROVE  /\ View' = View /\ I!Revision' = I!Revision
           /\ ReplayInv' <=> ReplayInv
BY DEF View, I!Effective, I!Revision, I!Apply, I!Memberships, ReplayInv, IsReplay

LEMMA ReviewerTypes ==
    /\ I!Idle \in I!HandlerRow /\ I!Idle.pc = "idle"
    /\ \A r \in I!Request : LET new == [I!Idle EXCEPT !.pc = "lookup", !.request = r] IN
                               new \in I!HandlerRow /\ new.pc = "lookup" /\ new.request = r
<1>1. I!NoRequest \in I!Request
  BY DEF I!Request, I!NoRequest
<1>2. 0 \in 0..MaxActions
  BY EditorialAssumption
<1> HIDE DEF I!NoRequest, I!Request
<1>3. QED BY <1>1, <1>2 DEF I!Idle, I!HandlerRow

LEMMA IncidentsInit == I!Init => IncidentsInv
<1> SUFFICES ASSUME I!Init PROVE IncidentsInv
  OBVIOUS
<1>1. /\ actions = <<>> /\ I!Revision = 0 /\ reviewer \in [Handlers -> I!HandlerRow]
      /\ \A h \in Handlers : reviewer[h].pc = "idle"
  BY ReviewerTypes DEF I!Init, I!Revision
<1> DEFINE f == [n \in 0..0 |-> Base]
<1>2. \A g : IsReplay(g) <=> g = f
  <2>1. 0..0 = {0}
    OBVIOUS
  <2>2. QED BY <1>1, <2>1 DEF IsReplay
<1>3. View = f[0] /\ ReplayInv
  BY <1>1, <1>2, ViewIs DEF ReplayInv
<1>4. ViewInv
  BY <1>1, <1>3, BaseIs DEF ViewInv
<1>5. I!TypeOK
  BY <1>1, EditorialAssumption DEF I!TypeOK
<1>6. I!ActsOnWhatItSaw /\ \A h \in Handlers : ReviewerSound(reviewer[h])
  BY <1>1 DEF I!ActsOnWhatItSaw, ReviewerSound
<1>7. QED BY <1>3, <1>4, <1>5, <1>6 DEF IncidentsInv

\* A reviewer's request goes on, and nothing is recorded.
LEMMA ReviewerStep ==
    ASSUME IncidentsInv, NEW h \in Handlers, NEW new \in I!HandlerRow,
           reviewer' = [reviewer EXCEPT ![h] = new], UNCHANGED actions, ReviewerSound(new)
    PROVE  IncidentsInv'
<1>1. View' = View /\ I!Revision' = I!Revision /\ ReplayInv'
  BY SameView DEF IncidentsInv
<1>2. \A g \in Handlers : reviewer'[g] = IF g = h THEN new ELSE reviewer[g]
  BY DEF IncidentsInv, I!TypeOK
<1>3. I!TypeOK' /\ ViewInv'
  BY <1>1 DEF IncidentsInv, I!TypeOK, ViewInv
<1>4. I!ActsOnWhatItSaw'
  BY <1>1 DEF IncidentsInv, I!ActsOnWhatItSaw, I!Found, I!Key, I!Revision
<1>5. (\A g \in Handlers : ReviewerSound(reviewer[g]))'
  <2> SUFFICES ASSUME NEW g \in Handlers PROVE ReviewerSound(reviewer[g])'
    OBVIOUS
  <2>1. PICK w : w = reviewer'[g] /\ ReviewerSound(w)
    BY <1>2 DEF IncidentsInv
  <2>2. Fits(w.request)' <=> Fits(w.request)
    BY <1>1 DEF Fits, I!EffectiveIds, I!TakesAPart, I!Members, I!Memberships
  <2>3. RequestSound(w.request)' <=> RequestSound(w.request)
    BY DEF RequestSound
  <2>4. QED BY <1>1, <2>1, <2>2, <2>3 DEF ReviewerSound
<1>6. QED BY <1>1, <1>3, <1>4, <1>5 DEF IncidentsInv

\* The instances take their own copy of Cardinality.
LEMMA SameCardinality ==
    ASSUME NEW S
    PROVE  I!Cardinality(S) = Cardinality(S) /\ I!Abstract!Cardinality(S) = Cardinality(S)
BY DEF Cardinality, I!Cardinality, I!Abstract!Cardinality

LEMMA ViewIds ==
    ASSUME IncidentsInv
    PROVE  /\ I!EffectiveIds(View) \subseteq Original \cup 1..I!Revision
           /\ I!EffectiveIds(View) \subseteq I!IncidentIds
           /\ I!Revision \in 0..MaxActions
           /\ View \in [ClusterRows -> Original \cup 1..I!Revision]
<1>1. I!Revision \in 0..MaxActions
  BY EditorialAssumption DEF IncidentsInv, I!TypeOK, I!Revision
<1>2. View \in [ClusterRows -> Original \cup 1..I!Revision]
  BY BaseIs DEF IncidentsInv, ViewInv
<1>3. I!EffectiveIds(View) \subseteq Original \cup 1..I!Revision
  BY <1>2, BaseIs DEF I!EffectiveIds
<1>4. 1..I!Revision \subseteq 1..MaxActions
  BY <1>1, EditorialAssumption
<1>5. QED BY <1>1, <1>2, <1>3, <1>4, BaseIs

LEMMA AskInv ==
    ASSUME IncidentsInv, NEW h \in Handlers, NEW r \in I!Request, I!Ask(h, r), RequestSound(r)
    PROVE  IncidentsInv'
<1> DEFINE new == [I!Idle EXCEPT !.pc = "lookup", !.request = r]
<1>1. new \in I!HandlerRow /\ new.pc = "lookup" /\ new.request = r
  BY ReviewerTypes
<1>2. reviewer' = [reviewer EXCEPT ![h] = new] /\ UNCHANGED actions
  BY DEF I!Ask
<1> HIDE DEF new
<1>3. ReviewerSound(new)
  BY <1>1 DEF ReviewerSound
<1>4. QED BY <1>1, <1>2, <1>3, ReviewerStep

LEMMA AsksInv ==
    ASSUME IncidentsInv, NEW h \in Handlers, NEW expected \in {None, I!Revision},
           I!AskMerge(h, expected) \/ I!AskSplit(h, expected)
    PROVE  IncidentsInv'
<1>1. expected \in {None} \cup 0..MaxActions
  BY ViewIds
<1>2. CASE I!AskMerge(h, expected)
  <2>1. PICK named \in SUBSET I!EffectiveIds(View) :
          /\ Cardinality(named) >= 2
          /\ I!Ask(h, [operation |-> "merge", incidents |-> named, memberships |-> {},
                       expected |-> expected])
    BY <1>2, SameCardinality DEF I!AskMerge, View
  <2> DEFINE r == [operation |-> "merge", incidents |-> named, memberships |-> {},
                   expected |-> expected]
  <2>2. r \in I!Request /\ r.operation = "merge" /\ r.incidents = named
    BY <1>1, <2>1, ViewIds DEF I!Request
  <2>3. I!Ask(h, r)
    BY <2>1
  <2> HIDE DEF r
  <2>4. RequestSound(r)
    BY <2>1, <2>2 DEF RequestSound
  <2>5. QED BY <2>2, <2>3, <2>4, AskInv
<1>3. CASE I!AskSplit(h, expected)
  <2>1. PICK i \in I!EffectiveIds(View) : \E out \in (SUBSET I!Members(View, i)) \ {{}} :
          I!Ask(h, [operation |-> "split", incidents |-> {i}, memberships |-> out,
                    expected |-> expected])
    BY <1>3 DEF I!AskSplit, View
  <2>7. PICK out \in (SUBSET I!Members(View, i)) \ {{}} :
          I!Ask(h, [operation |-> "split", incidents |-> {i}, memberships |-> out,
                    expected |-> expected])
    BY <2>1
  <2> DEFINE r == [operation |-> "split", incidents |-> {i}, memberships |-> out,
                   expected |-> expected]
  <2>2. out \in SUBSET I!Memberships /\ out # {}
    BY DEF I!Members
  <2>3. r \in I!Request /\ r.operation = "split" /\ r.incidents = {i} /\ r.memberships = out
    BY <1>1, <2>1, <2>2, ViewIds DEF I!Request
  <2>4. I!Ask(h, r)
    BY <2>7
  <2> HIDE DEF r
  <2>5. RequestSound(r)
    BY <2>2, <2>3 DEF RequestSound
  <2>6. QED BY <2>3, <2>4, <2>5, AskInv
<1>4. QED BY <1>2, <1>3

\* A request leaves.
LEMMA LeaveInv ==
    ASSUME IncidentsInv, NEW h \in Handlers, I!Leave(h), UNCHANGED actions
    PROVE  IncidentsInv'
<1>1. reviewer' = [reviewer EXCEPT ![h] = I!Idle]
  BY DEF I!Leave
<1>2. ReviewerSound(I!Idle)
  <2> HIDE DEF I!Idle
  <2>1. QED BY ReviewerTypes DEF ReviewerSound
<1> HIDE DEF I!Idle
<1>3. QED BY <1>1, <1>2, ReviewerTypes, ReviewerStep

LEMMA ReviewInv ==
    ASSUME IncidentsInv, NEW h \in Handlers,
           I!AlreadyRecorded(h) \/ I!Validate(h) \/ I!Reread(h) \/ I!Die(h)
    PROVE  IncidentsInv'
<1> DEFINE w == reviewer[h]
<1>1. w \in I!HandlerRow /\ ReviewerSound(w) /\ UNCHANGED actions
  BY DEF IncidentsInv, I!TypeOK, I!AlreadyRecorded, I!Validate, I!Reread, I!Die
<1>2. ASSUME NEW pc \in {"view", "insert"}, I!Goto(h, pc), w.pc # "idle",
             pc = "insert" => w.pc = "reread"
      PROVE  IncidentsInv'
  <2> DEFINE new == [w EXCEPT !.pc = pc]
  <2>1. new \in I!HandlerRow /\ new.pc = pc /\ new.request = w.request /\ new.prior = w.prior
    BY <1>1 DEF I!HandlerRow
  <2>2. reviewer' = [reviewer EXCEPT ![h] = new]
    BY <1>2 DEF I!Goto
  <2> HIDE DEF new
  <2>3. ReviewerSound(new)
    BY <1>1, <1>2, <2>1 DEF ReviewerSound
  <2>4. QED BY <1>1, <2>1, <2>2, <2>3, ReviewerStep
<1>3. CASE I!AlreadyRecorded(h)
  BY <1>1, <1>2, <1>3, LeaveInv DEF I!AlreadyRecorded
<1>4. CASE I!Reread(h)
  BY <1>1, <1>2, <1>4, LeaveInv DEF I!Reread
<1>5. CASE I!Validate(h)
  <2> DEFINE new == [w EXCEPT !.pc = "reread", !.prior = I!Revision]
  <2>1. /\ new \in I!HandlerRow /\ new.pc = "reread" /\ new.request = w.request
        /\ new.prior = I!Revision
    BY <1>1, ViewIds DEF I!HandlerRow
  <2>2. \/ I!Leave(h)
        \/ /\ reviewer' = [reviewer EXCEPT ![h].pc = "reread", ![h].prior = I!Revision]
           /\ I!DeclaredCurrent(w.request) /\ Fits(w.request)
    BY <1>5 DEF I!Validate, Fits, View
  <2>3. CASE I!Leave(h)
    BY <1>1, <2>3, LeaveInv
  <2>4. CASE /\ reviewer' = [reviewer EXCEPT ![h].pc = "reread", ![h].prior = I!Revision]
             /\ I!DeclaredCurrent(w.request) /\ Fits(w.request)
    <3>1. reviewer' = [reviewer EXCEPT ![h] = new]
      BY <2>4 DEF IncidentsInv, I!TypeOK
    <3>2. w.pc # "idle" /\ I!Revision <= I!Revision
      BY <1>5, ViewIds DEF I!Validate
    <3> HIDE DEF new
    <3>3. ReviewerSound(new)
      BY <1>1, <2>1, <2>4, <3>2 DEF ReviewerSound, I!DeclaredCurrent
    <3>4. QED BY <1>1, <2>1, <3>1, <3>3, ReviewerStep
  <2>5. QED BY <2>2, <2>3, <2>4
<1>6. CASE I!Die(h)
  BY <1>1, <1>6, LeaveInv DEF I!Die
<1>7. QED BY <1>3, <1>4, <1>5, <1>6

\* An action is recorded on the view it was validated against, or not at all.
LEMMA InsertInv ==
    ASSUME IncidentsInv, NEW h \in Handlers, I!Insert(h)
    PROVE  IncidentsInv'
<1> DEFINE r == reviewer[h].request
<1>1. /\ reviewer[h] \in I!HandlerRow /\ ReviewerSound(reviewer[h]) /\ r \in I!Request
      /\ I!Leave(h) /\ actions \in Seq(I!Request)
  BY DEF IncidentsInv, I!TypeOK, I!HandlerRow, I!Insert
<1>2. CASE UNCHANGED actions
  BY <1>1, <1>2, LeaveInv
<1>3. CASE actions' # actions
  <2>1. /\ actions' = Append(actions, r) /\ I!Insertable(r, reviewer[h].prior)
        /\ I!Revision < MaxActions /\ reviewer[h].pc = "insert"
    BY <1>3 DEF I!Insert
  <2>2. r.expected \in {None, I!Revision} /\ I!Found(r) = {}
    BY <1>1, <2>1 DEF ReviewerSound, I!Insertable
  <2> HIDE DEF r
  <2>3. /\ actions' \in Seq(I!Request) /\ I!Revision' = I!Revision + 1 /\ I!Revision \in Nat
        /\ \A n \in 1..I!Revision : actions'[n] = actions[n]
        /\ actions'[I!Revision + 1] = r
    BY <1>1, <2>1, AppendedSeq DEF I!Revision
  <2>4. ReplayInv' /\ View' = Moved(View, r, I!Revision + 1)
    BY <1>1, <2>1, ViewAfter DEF IncidentsInv
  <2>5. ViewInv'
    <3>1. View \in [ClusterRows -> Original \cup 1..I!Revision]
      BY ViewIds
    <3>2. \A m \in ClusterRows : View[m] \in Original \cup 1..(I!Revision + 1)
      BY <2>3, <3>1
    <3>3. I!Revision + 1 \in 1..(I!Revision + 1)
      BY <2>3
    <3>4. View' \in [ClusterRows -> Original \cup 1..(I!Revision + 1)]
      BY <2>4, <3>2, <3>3, BaseIs DEF Moved
    <3>5. QED BY <2>3, <3>4, BaseIs DEF ViewInv, Original
  <2>6. \A g \in Handlers : reviewer'[g] = IF g = h THEN I!Idle ELSE reviewer[g]
    BY <1>1 DEF I!Leave, IncidentsInv, I!TypeOK
  <2>7. I!TypeOK'
    <3>1. reviewer' \in [Handlers -> I!HandlerRow]
      BY <1>1, ReviewerTypes DEF I!Leave, IncidentsInv, I!TypeOK
    <3>2. Len(actions') <= MaxActions
      BY <2>1, <2>3, EditorialAssumption DEF I!Revision
    <3>3. QED BY <2>3, <3>1, <3>2 DEF I!TypeOK
  <2>8. I!ActsOnWhatItSaw'
    <3> SUFFICES ASSUME NEW n \in 1..(I!Revision + 1)
                 PROVE  /\ actions'[n].expected \in {None, n - 1}
                        /\ \A k \in 1..(I!Revision + 1) :
                              I!Key(actions'[k]) = I!Key(actions'[n]) <=> k = n
      <4>1. \A x : I!Key(x)' = I!Key(x)
        BY DEF I!Key
      <4>2. \A n \in 1..(I!Revision + 1) :
               I!Found(actions[n])' = {k \in 1..(I!Revision + 1) : I!Key(actions'[k]) = I!Key(actions'[n])}
        BY <2>3, <4>1 DEF I!Found
      <4>3. I!Revision' = I!Revision + 1
        BY <2>3
      <4>4. ASSUME NEW n \in 1..(I!Revision + 1)
            PROVE  I!Found(actions[n])' = {n}
        <5>1. \A k \in 1..(I!Revision + 1) : I!Key(actions'[k]) = I!Key(actions'[n]) <=> k = n
          OBVIOUS
        <5>2. QED BY <4>2, <4>4, <5>1
      <4>5. QED BY <4>3, <4>4 DEF I!ActsOnWhatItSaw
    <3>1. \A k \in 1..I!Revision : I!Key(actions[k]) # I!Key(r)
      BY <2>2 DEF I!Found
    <3>2. \A k, m \in 1..I!Revision : I!Key(actions[k]) = I!Key(actions[m]) <=> k = m
      BY DEF IncidentsInv, I!ActsOnWhatItSaw, I!Found
    <3>3. \A k \in 1..I!Revision : actions[k].expected \in {None, k - 1}
      BY DEF IncidentsInv, I!ActsOnWhatItSaw
    <3>4. \A k \in 1..(I!Revision + 1) : k \in 1..I!Revision \/ k = I!Revision + 1
      BY <2>3
    <3>5. I!Revision + 1 \notin 1..I!Revision /\ I!Revision + 1 - 1 = I!Revision
      BY <2>3
    <3>6. actions'[n].expected \in {None, n - 1}
      BY <2>2, <2>3, <3>3, <3>4, <3>5
    <3> HIDE DEF I!Key
    <3>7. ASSUME NEW k \in 1..(I!Revision + 1)
          PROVE  I!Key(actions'[k]) = I!Key(actions'[n]) <=> k = n
      <4>1. CASE k \in 1..I!Revision /\ n \in 1..I!Revision
        BY <2>3, <3>2, <4>1
      <4>2. CASE k \in 1..I!Revision /\ n = I!Revision + 1
        BY <2>3, <3>1, <3>5, <4>2
      <4>3. CASE k = I!Revision + 1 /\ n \in 1..I!Revision
        BY <2>3, <3>1, <3>5, <4>3
      <4>4. CASE k = I!Revision + 1 /\ n = I!Revision + 1
        BY <4>4
      <4>5. QED BY <3>4, <4>1, <4>2, <4>3, <4>4
    <3>8. QED BY <3>6, <3>7
  <2>9. (\A g \in Handlers : ReviewerSound(reviewer[g]))'
    <3> SUFFICES ASSUME NEW g \in Handlers PROVE ReviewerSound(reviewer[g])'
      OBVIOUS
    <3>1. CASE g = h
      BY <2>6, <3>1, ReviewerTypes DEF ReviewerSound
    <3>2. CASE g # h
      <4>1. PICK w : w = reviewer'[g] /\ ReviewerSound(w) /\ w \in I!HandlerRow
        BY <2>6, <3>2 DEF IncidentsInv, I!TypeOK
      <4>2. w.pc \in {"reread", "insert"} => w.prior <= I!Revision' /\ w.prior # I!Revision'
        BY <2>3, <4>1, EditorialAssumption DEF ReviewerSound, I!HandlerRow
      <4>3. RequestSound(w.request)' <=> RequestSound(w.request)
        BY DEF RequestSound
      <4>4. QED BY <4>1, <4>2, <4>3 DEF ReviewerSound
    <3>3. QED BY <3>1, <3>2
  <2>10. QED BY <2>4, <2>5, <2>7, <2>8, <2>9 DEF IncidentsInv
<1>4. QED BY <1>2, <1>3

LEMMA IncidentsNext == IncidentsInv /\ [I!Next]_incidentVars => IncidentsInv'
<1> SUFFICES ASSUME IncidentsInv, [I!Next]_incidentVars PROVE IncidentsInv'
  OBVIOUS
<1>1. CASE UNCHANGED incidentVars
  <2>1. UNCHANGED actions /\ UNCHANGED reviewer
    BY <1>1 DEF incidentVars
  <2>2. CASE Handlers = {}
    <3>1. View' = View /\ I!Revision' = I!Revision /\ ReplayInv'
      BY <2>1, SameView DEF IncidentsInv
    <3>2. QED BY <2>1, <2>2, <3>1 DEF IncidentsInv, I!TypeOK, ViewInv, I!ActsOnWhatItSaw, I!Found, I!Key, I!Revision
  <2>3. ASSUME NEW h \in Handlers PROVE IncidentsInv'
    <3>1. reviewer' = [reviewer EXCEPT ![h] = reviewer[h]]
      BY <2>1 DEF IncidentsInv, I!TypeOK
    <3>2. reviewer[h] \in I!HandlerRow /\ ReviewerSound(reviewer[h])
      BY DEF IncidentsInv, I!TypeOK
    <3>3. PICK new : new = reviewer[h]
      OBVIOUS
    <3>4. QED BY <2>1, <3>1, <3>2, <3>3, ReviewerStep
  <2>4. QED BY <2>2, <2>3
<1>2. CASE I!Next
  BY <1>2, AsksInv, ReviewInv, InsertInv DEF I!Next
<1>3. QED BY <1>1, <1>2

-----------------------------------------------------------------------------
(* The incidents of a view, and what an action makes of them. *)

\* Some of the incidents are joined whole.
Joins(before, after) ==
    \E named \in SUBSET before : /\ Cardinality(named) >= 2
                                 /\ after = (before \ named) \cup {UNION named}

\* One is divided, and neither part is empty.
Divides(before, after) ==
    \E one \in before : \E out \in SUBSET one :
        /\ out # {} /\ out # one
        /\ after = (before \ {one}) \cup {out, one \ out}

Parts(v) == {I!Members(v, i) : i \in I!EffectiveIds(v)}

LEMMA PartsAre ==
    ASSUME NEW v
    PROVE  \A P : P \in Parts(v) <=> \E m \in ClusterRows : P = {k \in ClusterRows : v[k] = v[m]}
BY BaseIs DEF Parts, I!Members, I!EffectiveIds

LEMMA AtLeastTwo ==
    ASSUME NEW S, IsFiniteSet(S)
    PROVE  Cardinality(S) >= 2 <=> \E a, b \in S : a # b
<1>1. Cardinality(S) \in Nat /\ (Cardinality(S) = 0 <=> S = {})
      /\ (Cardinality(S) = 1 <=> \E x : S = {x})
  BY FS_CardinalityType, FS_EmptySet, FS_Singleton
<1>2. (\E a, b \in S : a # b) <=> S # {} /\ ~(\E x : S = {x})
  OBVIOUS
<1>3. QED BY <1>1, <1>2

LEMMA ImageFinite ==
    ASSUME NEW S, IsFiniteSet(S), NEW f, DOMAIN f = S
    PROVE  IsFiniteSet({f[x] : x \in S})
<1> DEFINE T == {f[x] : x \in S}
           g == [x \in S |-> f[x]]
<1>1. g \in Surjection(S, T)
  BY DEF Surjection
<1>2. QED BY <1>1, FS_Surjection

LEMMA ImageWithin ==
    ASSUME NEW S, IsFiniteSet(S), NEW f, DOMAIN f = S, NEW T, \A y \in T : \E x \in S : y = f[x]
    PROVE  IsFiniteSet(T)
<1> DEFINE image == {f[x] : x \in S}
<1>1. IsFiniteSet(image)
  BY ImageFinite
<1>2. T \subseteq image
  OBVIOUS
<1> HIDE DEF image
<1>3. QED BY <1>1, <1>2, FS_Subset

\* A merge of two incidents or more joins them whole.
LEMMA MergeJoins ==
    ASSUME NEW v \in [ClusterRows -> Original \cup Nat], NEW r \in I!Request, r.operation = "merge",
           NEW n, n \notin I!EffectiveIds(v), r.incidents \subseteq I!EffectiveIds(v),
           Cardinality(r.incidents) >= 2
    PROVE  Joins(Parts(v), Parts(Moved(v, r, n)))
<1> DEFINE ids == r.incidents
           w == Moved(v, r, n)
           joined == {k \in ClusterRows : v[k] \in ids}
           partOf == [i \in ids |-> I!Members(v, i)]
           named == {partOf[i] : i \in ids}
<1>1. \A i : I!Members(v, i) = {k \in ClusterRows : v[k] = i}
  BY BaseIs DEF I!Members
<1>2. \A i : i \in I!EffectiveIds(v) <=> \E m \in ClusterRows : v[m] = i
  BY BaseIs DEF I!EffectiveIds
<1>3. \A k \in ClusterRows : w[k] = IF v[k] \in ids THEN n ELSE v[k]
  BY BaseIs DEF Moved
<1>4. \A k \in ClusterRows : v[k] # n
  BY <1>2
<1>5. \A k \in ClusterRows : w[k] = n <=> v[k] \in ids
  BY <1>3, <1>4
<1>6. IsFiniteSet(ids)
  <2>1. IsFiniteSet({v[k] : k \in ClusterRows})
    BY ImageFinite, EditorialAssumption
  <2>2. ids \subseteq {v[k] : k \in ClusterRows}
    BY <1>2
  <2>3. QED BY <2>1, <2>2, FS_Subset
<1>7. PICK i \in ids, j \in ids : i # j
  BY <1>6, AtLeastTwo
<1>8. \A P : P \in named <=> \E m \in ClusterRows : v[m] \in ids /\ P = {k \in ClusterRows : v[k] = v[m]}
  <2>1. \A P : P \in named <=> \E x \in ids : P = partOf[x]
    OBVIOUS
  <2>2. \A x \in ids : partOf[x] = {k \in ClusterRows : v[k] = x}
    BY <1>1
  <2> HIDE DEF named, partOf
  <2>3. \A x \in ids : \E m \in ClusterRows : v[m] = x
    BY <1>2
  <2>4. ASSUME NEW P \in named
        PROVE  \E m \in ClusterRows : v[m] \in ids /\ P = {k \in ClusterRows : v[k] = v[m]}
    BY <2>1, <2>2, <2>3
  <2>5. ASSUME NEW m \in ClusterRows, v[m] \in ids
        PROVE  {k \in ClusterRows : v[k] = v[m]} \in named
    BY <2>1, <2>2, <2>5
  <2>6. QED BY <2>4, <2>5
<1>9. named \in SUBSET Parts(v)
  <2>1. ASSUME NEW P \in named PROVE P \in Parts(v)
    <3> HIDE DEF named
    <3>1. \E m \in ClusterRows : P = {k \in ClusterRows : v[k] = v[m]}
      BY <1>8, <2>1
    <3>2. QED BY <3>1, PartsAre
  <2>2. QED BY <2>1
<1>10. Cardinality(named) >= 2
  <2>1. IsFiniteSet(named)
    <3>1. DOMAIN partOf = ids /\ \A P \in named : \E x \in ids : P = partOf[x]
      OBVIOUS
    <3> HIDE DEF partOf, named, ids
    <3>2. QED BY <1>6, <3>1, ImageWithin
  <2>2. partOf[i] \in named /\ partOf[j] \in named /\ partOf[i] # partOf[j]
    <3>1. partOf[i] = {k \in ClusterRows : v[k] = i} /\ partOf[j] = {k \in ClusterRows : v[k] = j}
      BY <1>1
    <3>2. PICK m \in ClusterRows : v[m] = i
      BY <1>2
    <3>3. m \in partOf[i] /\ m \notin partOf[j]
      BY <1>7, <3>1, <3>2
    <3>4. partOf[i] \in named /\ partOf[j] \in named
      BY <1>7
    <3>5. QED BY <3>3, <3>4
  <2>3. QED BY <2>1, <2>2, AtLeastTwo
<1>11. UNION named = joined
  <2> HIDE DEF named
  <2>1. ASSUME NEW k \in joined PROVE k \in UNION named
    <3>1. {q \in ClusterRows : v[q] = v[k]} \in named
      BY <1>8
    <3>2. QED BY <3>1
  <2>2. ASSUME NEW P \in named, NEW k \in P PROVE k \in joined
    BY <1>8
  <2>3. QED BY <2>1, <2>2
<1> HIDE DEF w, named, ids
<1>12. \A P : P \in Parts(w) <=> \E m \in ClusterRows : P = {k \in ClusterRows : w[k] = w[m]}
  BY PartsAre
<1>13. \A m \in ClusterRows : v[m] \in ids => {k \in ClusterRows : w[k] = w[m]} = joined
  BY <1>5
<1>14. \A m \in ClusterRows : v[m] \notin ids =>
          {k \in ClusterRows : w[k] = w[m]} = {k \in ClusterRows : v[k] = v[m]}
  BY <1>3, <1>4
<1>15. ASSUME NEW P \in Parts(w) PROVE P = joined \/ (P \in Parts(v) /\ P \notin named)
  <2>1. PICK m \in ClusterRows : P = {k \in ClusterRows : w[k] = w[m]}
    BY <1>12
  <2>2. CASE v[m] \in ids
    BY <1>13, <2>1, <2>2
  <2>3. CASE v[m] \notin ids
    <3>1. P = {k \in ClusterRows : v[k] = v[m]} /\ m \in P
      BY <1>14, <2>1, <2>3
    <3>2. P \in Parts(v)
      BY <3>1, PartsAre
    <3>3. P \notin named
      BY <1>8, <2>3, <3>1
    <3>4. QED BY <3>2, <3>3
  <2>4. QED BY <2>2, <2>3
<1>16. ASSUME NEW P \in Parts(v), P \notin named PROVE P \in Parts(w)
  <2>1. PICK m \in ClusterRows : P = {k \in ClusterRows : v[k] = v[m]}
    BY PartsAre
  <2>2. v[m] \notin ids
    BY <1>8, <1>16, <2>1
  <2>3. QED BY <1>12, <1>14, <2>1, <2>2
<1>17. joined \in Parts(w)
  <2>1. PICK m \in ClusterRows : v[m] = i
    BY <1>2, <1>7 DEF ids
  <2>2. QED BY <1>7, <1>12, <1>13, <2>1
<1>18. Parts(w) = (Parts(v) \ named) \cup {joined}
  BY <1>15, <1>16, <1>17
<1>19. QED BY <1>9, <1>10, <1>11, <1>18 DEF w, Joins

\* A split takes a part out of one incident, and leaves one behind.
LEMMA SplitTakesOut ==
    ASSUME NEW v \in [ClusterRows -> Original \cup Nat], NEW r \in I!Request, r.operation = "split",
           NEW n, n \notin I!EffectiveIds(v), RequestSound(r), I!TakesAPart(r, v)
    PROVE  Divides(Parts(v), Parts(Moved(v, r, n)))
<1> DEFINE out == r.memberships
           w == Moved(v, r, n)
<1>1. \A j : I!Members(v, j) = {k \in ClusterRows : v[k] = j}
  BY BaseIs DEF I!Members
<1>2. PICK i : out \subseteq I!Members(v, i) /\ out # I!Members(v, i) /\ out # {}
  BY DEF RequestSound, I!TakesAPart
<1> DEFINE whole == {k \in ClusterRows : v[k] = i}
<1>3. \A k \in ClusterRows : v[k] # n
  BY BaseIs DEF I!EffectiveIds
<1>4. \A k \in ClusterRows : w[k] = IF k \in out THEN n ELSE v[k]
  BY BaseIs DEF Moved
<1>5. out \subseteq whole /\ out # whole /\ out # {}
  BY <1>1, <1>2
<1> HIDE DEF w, out
<1>6. \A P : P \in Parts(w) <=> \E m \in ClusterRows : P = {k \in ClusterRows : w[k] = w[m]}
  BY PartsAre
<1>7. whole \in Parts(v)
  BY <1>5, PartsAre
<1>8. \A m \in out : {k \in ClusterRows : w[k] = w[m]} = out
  BY <1>3, <1>4, <1>5
<1>9. \A m \in whole \ out : {k \in ClusterRows : w[k] = w[m]} = whole \ out
  BY <1>3, <1>4, <1>5
<1>10. \A m \in ClusterRows \ whole : {k \in ClusterRows : w[k] = w[m]} = {k \in ClusterRows : v[k] = v[m]}
  BY <1>3, <1>4, <1>5
<1>11. ASSUME NEW P \in Parts(w)
       PROVE  P \in {out, whole \ out} \/ (P \in Parts(v) /\ P # whole)
  <2>1. PICK m \in ClusterRows : P = {k \in ClusterRows : w[k] = w[m]}
    BY <1>6
  <2>2. CASE m \in out
    BY <1>8, <2>1, <2>2
  <2>3. CASE m \in whole \ out
    BY <1>9, <2>1, <2>3
  <2>4. CASE m \notin whole
    <3>1. P = {k \in ClusterRows : v[k] = v[m]} /\ m \in P
      BY <1>10, <2>1, <2>4
    <3>2. QED BY <2>4, <3>1, PartsAre
  <2>5. QED BY <2>2, <2>3, <2>4
<1>12. ASSUME NEW P \in Parts(v), P # whole PROVE P \in Parts(w)
  <2>1. PICK m \in ClusterRows : P = {k \in ClusterRows : v[k] = v[m]}
    BY PartsAre
  <2>2. m \notin whole
    BY <1>12, <2>1
  <2>3. QED BY <1>6, <1>10, <2>1, <2>2
<1>13. out \in Parts(w) /\ whole \ out \in Parts(w)
  <2>1. PICK m \in out, q \in whole \ out : TRUE
    BY <1>5
  <2>2. QED BY <1>5, <1>6, <1>8, <1>9, <2>1
<1>14. Parts(w) = (Parts(v) \ {whole}) \cup {out, whole \ out}
  BY <1>11, <1>12, <1>13
<1>15. QED BY <1>5, <1>7, <1>14 DEF w, Divides

\* Whatever is recorded makes one step of the abstract grouping.
LEMMA GroupingStep ==
    ASSUME IncidentsInv, [I!Next]_incidentVars
    PROVE  \/ UNCHANGED Parts(View)
           \/ Joins(Parts(View), Parts(View)')
           \/ Divides(Parts(View), Parts(View)')
<1>1. CASE UNCHANGED actions
  BY <1>1, SameView DEF Parts, I!Members, I!EffectiveIds, I!Memberships
<1>2. CASE actions' # actions
  <2>1. PICK h \in Handlers : I!Insert(h)
    BY <1>2 DEF I!Next, incidentVars, I!AskMerge, I!AskSplit, I!Ask, I!AlreadyRecorded,
                I!Validate, I!Reread, I!Die
  <2> DEFINE r == reviewer[h].request
             n == I!Revision + 1
  <2>2. /\ actions' = Append(actions, r) /\ I!Insertable(r, reviewer[h].prior)
        /\ I!Revision < MaxActions /\ reviewer[h].pc = "insert"
    BY <1>2, <2>1 DEF I!Insert
  <2>3. /\ r \in I!Request /\ RequestSound(r) /\ Fits(r) /\ actions \in Seq(I!Request)
    BY <2>2 DEF IncidentsInv, I!TypeOK, I!HandlerRow, ReviewerSound, I!Insertable
  <2> HIDE DEF r
  <2>4. View' = Moved(View, r, n)
    BY <2>2, <2>3, ViewAfter DEF IncidentsInv
  <2>5. n \notin I!EffectiveIds(View)
    <3>1. n \notin 1..I!Revision /\ n \in 1..MaxActions
      BY <2>2, ViewIds, EditorialAssumption
    <3>2. n \notin Original
      BY <3>1, EditorialAssumption, BaseIs DEF Original
    <3>3. QED BY <3>1, <3>2, ViewIds
  <2>6. View \in [ClusterRows -> Original \cup Nat]
    <3>1. 1..I!Revision \subseteq Nat
      BY ViewIds
    <3>2. QED BY <3>1, ViewIds
  <2> HIDE DEF n
  <2>7. Parts(View)' = Parts(Moved(View, r, n))
    BY <2>4 DEF Parts, I!Members, I!EffectiveIds, I!Memberships
  <2>8. CASE r.operation = "merge"
    <3>1. r.incidents \subseteq I!EffectiveIds(View) /\ Cardinality(r.incidents) >= 2
      BY <2>3, <2>8 DEF Fits, RequestSound
    <3>2. QED BY <2>3, <2>5, <2>6, <2>7, <2>8, <3>1, MergeJoins
  <2>9. CASE r.operation = "split"
    <3>1. I!TakesAPart(r, View)
      BY <2>3, <2>9 DEF Fits
    <3>2. QED BY <2>3, <2>5, <2>6, <2>7, <2>9, <3>1, SplitTakesOut
  <2>10. QED BY <2>3, <2>8, <2>9 DEF I!Request
<1>3. QED BY <1>1, <1>2

\* The parts the abstract grouping speaks of.
GroupingParts == LET v == I!Effective(I!Revision) IN {I!Members(v, i) : i \in I!EffectiveIds(v)}

LEMMA GroupingInit == I!Init => I!Abstract!Init
<1> SUFFICES ASSUME I!Init PROVE I!Abstract!Init
  OBVIOUS
<1>1. /\ actions = <<>> /\ I!Revision = 0
  BY DEF I!Init, I!Revision
<1> DEFINE f == [n \in 0..0 |-> Base]
<1>2. \A g : IsReplay(g) <=> g = f
  <2>1. 0..0 = {0}
    OBVIOUS
  <2>2. QED BY <1>1, <2>1 DEF IsReplay
<1>3. View = Base
  <2>1. IsReplay(f) /\ \A g : IsReplay(g) => g = f
    BY <1>2
  <2>2. View = f[0]
    <3> HIDE DEF f
    <3>1. QED BY <1>1, <2>1, ViewIs
  <2>3. QED BY <2>2
<1>4. QED BY <1>3 DEF View, I!Abstract!Init

LEMMA GroupingNext ==
    ASSUME IncidentsInv, [I!Next]_incidentVars
    PROVE  [I!Abstract!Next]_GroupingParts
<1>1. GroupingParts = Parts(View) /\ GroupingParts' = Parts(View)'
  BY DEF GroupingParts, Parts, View
<1>2. CASE UNCHANGED Parts(View)
  BY <1>1, <1>2
<1>3. ASSUME NEW named \in SUBSET Parts(View), Cardinality(named) >= 2,
             Parts(View)' = (Parts(View) \ named) \cup {UNION named}
      PROVE  I!Abstract!Next
  <2>1. I!Abstract!Merge(named)
    BY <1>1, <1>3, SameCardinality DEF I!Abstract!Merge, GroupingParts
  <2>2. named \in SUBSET GroupingParts
    BY <1>1
  <2>3. QED BY <2>1, <2>2 DEF I!Abstract!Next, GroupingParts
<1>4. ASSUME NEW one \in Parts(View), NEW out \in SUBSET one, out # {}, out # one,
             Parts(View)' = (Parts(View) \ {one}) \cup {out, one \ out}
      PROVE  I!Abstract!Next
  <2>1. I!Abstract!Split(one, out)
    BY <1>1, <1>4 DEF I!Abstract!Split, GroupingParts
  <2>2. one \in GroupingParts
    BY <1>1
  <2>3. QED BY <2>1, <2>2 DEF I!Abstract!Next, GroupingParts
<1>5. CASE Joins(Parts(View), Parts(View)')
  BY <1>3, <1>5 DEF Joins
<1>6. CASE Divides(Parts(View), Parts(View)')
  BY <1>4, <1>6 DEF Divides
<1>7. QED BY <1>2, <1>5, <1>6, GroupingStep

-----------------------------------------------------------------------------
(* The evidence. *)

LEMMA Least ==
    ASSUME NEW N, N \subseteq Nat, N # {}
    PROVE  \E x \in N : \A y \in N : x <= y
<1> DEFINE upTo == {0..n : n \in N}
           less == StrictSubsetOrdering(Nat)
<1>1. upTo \subseteq FiniteSubsetsOf(Nat) /\ upTo # {}
  <2>1. ASSUME NEW n \in N PROVE IsFiniteSet(0..n) /\ 0..n \in SUBSET Nat
    BY FS_Interval
  <2>2. QED BY <2>1 DEF FiniteSubsetsOf
<1>2. IsWellFoundedOn(less, FiniteSubsetsOf(Nat))
  BY FS_StrictSubsetOrderingWellFounded
<1>3. \E A \in upTo : \A B \in upTo : ~(<<B, A>> \in less)
  <2> HIDE DEF upTo, less
  <2>1. QED BY <1>1, <1>2, WFMin
<1>4. PICK x \in N : \A y \in N : ~(<<0..y, 0..x>> \in less)
  BY <1>3
<1>5. ASSUME NEW y \in N, y < x PROVE FALSE
  <2>1. 0..y \subseteq 0..x /\ x \in 0..x /\ x \notin 0..y
    BY <1>5
  <2>2. 0..y \in SUBSET Nat /\ 0..x \in SUBSET Nat
    OBVIOUS
  <2>3. 0..y # 0..x
    BY <2>1
  <2>4. <<0..y, 0..x>> \in less
    BY <2>1, <2>2, <2>3 DEF StrictSubsetOrdering
  <2>5. QED BY <1>4, <2>4
<1>6. \A y \in N : x <= y
  BY <1>5
<1>7. QED BY <1>6

-----------------------------------------------------------------------------
(* The evidence. *)

\* A resolution knows every decision that was recorded when it was asked for,
\* at its snapshot and in its answer; a decision that is to be recorded says
\* more than activity only of an incident with a claim.
AnalystSound(r) ==
    LET work == r.work IN
    /\ r.pc \in {"resolve", "commit"} => work.prior = work.since
    /\ r.pc = "resolve" => work.since <= Len(decisions)
    /\ r.pc = "commit" => work.since <= work.decided /\ work.decided <= Len(decisions)
    /\ r.pc = "answered" => work.run \in 1..Len(runs) /\ runs[work.run].decided >= work.since
    /\ r.pc = "insert" => /\ work.run # 0 /\ work.pair \in V!Pairs
                          /\ work.accept /\ work.relation # "context" => work.pair[1] \in claimed

\* A completed run saw what its identity names, and nothing that is not there.
RunsKnow ==
    \A k \in 1..Len(runs) : runs[k].key <= runs[k].decided /\ runs[k].decided <= Len(decisions)

\* What is accepted as more than activity has a claim.
AcceptedWithClaim ==
    \A n \in 1..Len(decisions) :
        decisions[n].accept /\ decisions[n].relation # "context" => decisions[n].pair[1] \in claimed

EvidenceInv ==
    /\ V!TypeOK
    /\ RunsKnow /\ AcceptedWithClaim /\ V!NothingCorroboratesItself
    /\ \A h \in Handlers : AnalystSound(analyst[h])

LEMMA EvidenceTypes ==
    /\ V!Idle \in V!Work /\ V!Rest \in [pc : V!Requests, work : V!Work]
    /\ V!Rest.pc = "idle" /\ V!Rest.work = V!Idle
    /\ V!Nothing \in V!SubjectMap
<1>1. V!Nothing \in V!SubjectMap
  BY DEF V!Nothing, V!SubjectMap
<1>2. V!Idle \in V!Work
  BY <1>1, EditorialAssumption DEF V!Idle, V!Work, V!Relations
<1>3. QED BY <1>1, <1>2 DEF V!Rest, V!Requests

LEMMA EvidenceInit == V!Init => EvidenceInv
<1> SUFFICES ASSUME V!Init PROVE EvidenceInv
  OBVIOUS
<1>1. V!TypeOK
  <2>1. /\ subject \in V!SubjectMap /\ claimed \subseteq Incidents
        /\ runs \in Seq(V!Run) /\ decisions \in Seq(V!Decision)
        /\ Len(runs) = 0 /\ Len(runs) <= MaxRuns /\ Len(decisions) <= MaxDecisions
    BY EvidenceTypes, EditorialAssumption DEF V!Init
  <2>2. analyst \in [Handlers -> [pc : V!Requests, work : V!Work]]
    BY EvidenceTypes DEF V!Init
  <2>3. QED BY <2>1, <2>2 DEF V!TypeOK
<1>2. RunsKnow /\ AcceptedWithClaim /\ V!NothingCorroboratesItself
  BY DEF V!Init, RunsKnow, AcceptedWithClaim, V!NothingCorroboratesItself
<1>3. \A h \in Handlers : AnalystSound(analyst[h])
  BY EvidenceTypes DEF V!Init, AnalystSound
<1>4. QED BY <1>1, <1>2, <1>3 DEF EvidenceInv

\* Of the decisions on a pair there is one that was made last.
LEMMA LatestIs ==
    ASSUME decisions \in Seq(V!Decision), NEW p, NEW n \in 0..Len(decisions), V!About(p, n) # {}
    PROVE  /\ V!LatestOf(p, n) \in V!About(p, n)
           /\ \A j \in V!About(p, n) : V!MadeBefore(j, V!LatestOf(p, n))
<1> DEFINE bound == 2 * MaxDecisions + 1
           before == {bound - decisions[k].made : k \in V!About(p, n)}
<1>1. /\ V!About(p, n) \subseteq 1..Len(decisions) /\ bound \in Nat
      /\ \A k \in V!About(p, n) : k \in Nat /\ k <= n /\ decisions[k].made \in 0..bound
  <2>1. bound \in Nat
    BY EditorialAssumption
  <2>2. \A k \in V!About(p, n) : k \in 1..Len(decisions) /\ k <= n
    BY DEF V!About
  <2>3. \A k \in 1..Len(decisions) : decisions[k] \in V!Decision
    OBVIOUS
  <2>4. \A d \in V!Decision : d.made \in 0..bound
    BY DEF V!Decision
  <2> HIDE DEF bound
  <2>5. QED BY <2>1, <2>2, <2>3, <2>4
<1>2. before \subseteq Nat /\ before # {}
  <2> HIDE DEF bound
  <2>1. QED BY <1>1
<1>3. PICK k \in V!About(p, n) : \A j \in V!About(p, n) :
          bound - decisions[k].made <= bound - decisions[j].made
  <2>1. \E x \in before : \A y \in before : x <= y
    <3> HIDE DEF before
    <3>1. QED BY <1>2, Least
  <2>2. QED BY <2>1
<1>4. \A j \in V!About(p, n) : decisions[j].made <= decisions[k].made
  <2> HIDE DEF bound
  <2>1. QED BY <1>1, <1>3
<1> DEFINE last == {j \in V!About(p, n) : decisions[j].made = decisions[k].made}
           left == {n - j : j \in last}
<1>5. left \subseteq Nat /\ left # {}
  BY <1>1
<1>6. PICK m \in last : \A j \in last : n - m <= n - j
  <2>1. \E x \in left : \A y \in left : x <= y
    <3> HIDE DEF left
    <3>1. QED BY <1>5, Least
  <2>2. QED BY <2>1
<1>7. m \in V!About(p, n) /\ \A j \in V!About(p, n) : V!MadeBefore(j, m)
  <2>1. SUFFICES ASSUME NEW j \in V!About(p, n) PROVE V!MadeBefore(j, m)
    OBVIOUS
  <2>2. CASE decisions[j].made = decisions[k].made
    BY <1>1, <1>6, <2>2 DEF V!MadeBefore
  <2>3. CASE decisions[j].made # decisions[k].made
    BY <1>1, <1>4, <2>3 DEF V!MadeBefore
  <2>4. QED BY <2>2, <2>3
<1>8. QED BY <1>7 DEF V!LatestOf

\* What a run finds of an incident beyond the reports rests on an acceptance
\* that nothing it knows took back.
LEMMA RestsOnAcceptance ==
    ASSUME decisions \in Seq(V!Decision), AcceptedWithClaim,
           NEW i, NEW suggested, NEW n \in 0..Len(decisions),
           V!Resolve(i, suggested, n) # "reported_only"
    PROVE  \E k \in 1..n :
               /\ decisions[k].pair[1] = i /\ decisions[k].accept
               /\ V!Resolve(i, suggested, n) # "onchain_observed" => i \in claimed
               /\ \A j \in 1..n :
                     decisions[j].pair = decisions[k].pair /\ ~V!MadeBefore(j, k) =>
                        decisions[j].accept
<1> DEFINE accepted == {q \in suggested : q[1] = i /\ V!Accepted(q, n)}
           relations == {V!RelationOf(p, n) : p \in accepted}
           state == V!Resolve(i, suggested, n)
<1>1. PICK p \in accepted : state # "onchain_observed" => V!RelationOf(p, n) # "context"
  BY DEF V!Resolve
<1>2. V!About(p, n) # {} /\ decisions[V!LatestOf(p, n)].accept
  BY DEF V!Accepted
<1> DEFINE k == V!LatestOf(p, n)
<1>3. k \in V!About(p, n) /\ \A j \in V!About(p, n) : V!MadeBefore(j, k)
  BY <1>2, LatestIs
<1>4. k \in 1..n /\ k \in 1..Len(decisions) /\ decisions[k].pair = p /\ decisions[k].accept /\ p[1] = i
  BY <1>2, <1>3 DEF V!About
<1>5. state # "onchain_observed" => i \in claimed
  BY <1>1, <1>2, <1>4 DEF V!RelationOf, AcceptedWithClaim
<1>6. \A j \in 1..n : decisions[j].pair = decisions[k].pair => V!MadeBefore(j, k)
  <2> HIDE DEF k
  <2>1. QED BY <1>3, <1>4 DEF V!About
<1> HIDE DEF k, state
<1>7. QED BY <1>4, <1>5, <1>6 DEF state

\* A request goes on, and what is stored stays as it is.
LEMMA AnalystStep ==
    ASSUME EvidenceInv, NEW h \in Handlers, NEW pc \in V!Requests, NEW work \in V!Work,
           V!Become(h, pc, work), AnalystSound([pc |-> pc, work |-> work]),
           UNCHANGED <<subject, claimed, runs, decisions>>
    PROVE  EvidenceInv'
<1>1. analyst' \in [Handlers -> [pc : V!Requests, work : V!Work]]
  BY DEF EvidenceInv, V!TypeOK, V!Become
<1>2. V!TypeOK'
  BY <1>1 DEF EvidenceInv, V!TypeOK
<1>3. ASSUME NEW i \in Handlers PROVE AnalystSound(analyst[i])'
  <2>1. CASE i = h
    <3>1. analyst'[i] = [pc |-> pc, work |-> work]
      BY <2>1 DEF EvidenceInv, V!TypeOK, V!Become
    <3>2. QED BY <3>1 DEF AnalystSound
  <2>2. CASE i # h
    <3>1. analyst'[i] = analyst[i]
      BY <2>2 DEF EvidenceInv, V!TypeOK, V!Become
    <3>2. QED BY <3>1 DEF AnalystSound, EvidenceInv
  <2>3. QED BY <2>1, <2>2
<1>4. RunsKnow' /\ AcceptedWithClaim' /\ V!NothingCorroboratesItself'
  BY DEF EvidenceInv, RunsKnow, AcceptedWithClaim, V!NothingCorroboratesItself, V!MadeBefore
<1>5. QED BY <1>2, <1>3, <1>4 DEF EvidenceInv

LEMMA RestIsSound ==
    /\ "idle" \in V!Requests /\ V!Rest.work \in V!Work
    /\ AnalystSound([pc |-> "idle", work |-> V!Rest.work])
BY EvidenceTypes DEF AnalystSound, V!Requests

LEMMA LeavingInv ==
    ASSUME EvidenceInv, NEW h \in Handlers, V!Leave(h),
           UNCHANGED <<subject, claimed, runs, decisions>>
    PROVE  EvidenceInv'
<1>1. V!Become(h, "idle", V!Rest.work)
  BY DEF V!Leave, V!Become, V!Rest
<1>2. QED BY <1>1, RestIsSound, AnalystStep

LEMMA ReadSubjectInv ==
    ASSUME EvidenceInv, NEW h \in Handlers, NEW i \in Incidents, NEW t \in Targets,
           V!ReadSubject(h, i, t)
    PROVE  EvidenceInv'
<1> DEFINE work == [V!Rest.work EXCEPT !.pair = <<i, None>>, !.target = t]
<1>1. work \in V!Work
  BY EvidenceTypes DEF V!Work
<1>2. AnalystSound([pc |-> "subject", work |-> work])
  BY DEF AnalystSound
<1>3. V!Become(h, "subject", work) /\ UNCHANGED <<subject, claimed, runs, decisions>>
  BY DEF V!ReadSubject
<1> HIDE DEF work
<1>4. QED BY <1>1, <1>2, <1>3, AnalystStep DEF V!Requests

LEMMA InsertSubjectInv ==
    ASSUME EvidenceInv, NEW h \in Handlers, V!InsertSubject(h)
    PROVE  EvidenceInv'
<1>1. analyst[h].work.target \in Targets \cup {None}
  BY DEF EvidenceInv, V!TypeOK, V!Work
<1>2. subject' \in V!SubjectMap
  BY <1>1 DEF V!InsertSubject, EvidenceInv, V!TypeOK, V!SubjectMap
<1>3. analyst' = [analyst EXCEPT ![h] = V!Rest] /\ UNCHANGED <<claimed, runs, decisions>>
  BY DEF V!InsertSubject, V!Leave
<1>4. analyst' \in [Handlers -> [pc : V!Requests, work : V!Work]]
  BY <1>3, EvidenceTypes DEF EvidenceInv, V!TypeOK
<1>5. V!TypeOK'
  BY <1>2, <1>3, <1>4 DEF EvidenceInv, V!TypeOK
<1>6. ASSUME NEW i \in Handlers PROVE AnalystSound(analyst[i])'
  BY <1>3, EvidenceTypes DEF EvidenceInv, V!TypeOK, AnalystSound
<1>7. RunsKnow'
  BY <1>3 DEF EvidenceInv, RunsKnow
<1>8. AcceptedWithClaim'
  BY <1>3 DEF EvidenceInv, AcceptedWithClaim
<1>9. V!NothingCorroboratesItself'
  BY <1>3 DEF EvidenceInv, V!NothingCorroboratesItself, V!MadeBefore
<1>10. QED BY <1>5, <1>6, <1>7, <1>8, <1>9 DEF EvidenceInv

LEMMA RecordClaimInv ==
    ASSUME EvidenceInv, NEW i \in Incidents, V!RecordClaim(i)
    PROVE  EvidenceInv'
<1>1. /\ claimed' = claimed \cup {i}
      /\ UNCHANGED <<subject, runs, decisions, analyst>>
  BY DEF V!RecordClaim
<1>2. V!TypeOK'
  BY <1>1 DEF EvidenceInv, V!TypeOK
<1>3. ASSUME NEW h \in Handlers PROVE AnalystSound(analyst[h])'
  BY <1>1 DEF EvidenceInv, AnalystSound
<1>4. RunsKnow' /\ AcceptedWithClaim'
  BY <1>1 DEF EvidenceInv, RunsKnow, AcceptedWithClaim
<1>5. V!NothingCorroboratesItself'
  BY <1>1 DEF EvidenceInv, V!NothingCorroboratesItself, V!MadeBefore
<1>6. QED BY <1>2, <1>3, <1>4, <1>5 DEF EvidenceInv

LEMMA AnswerSound ==
    ASSUME EvidenceInv, NEW k \in 1..Len(runs), NEW since \in 0..2 * MaxDecisions + 1,
           runs[k].decided >= since
    PROVE  LET work == [V!Rest.work EXCEPT !.run = k, !.since = since] IN
           /\ work \in V!Work
           /\ AnalystSound([pc |-> "answered", work |-> work])
<1> DEFINE work == [V!Rest.work EXCEPT !.run = k, !.since = since]
<1>1. V!Rest.work \in V!Work
  BY EvidenceTypes
<1>2. work.run = k /\ work.since = since
  BY <1>1 DEF V!Work
<1>3. work \in V!Work
  <2>1. k \in 0..MaxRuns
    BY EditorialAssumption DEF EvidenceInv, V!TypeOK
  <2>2. QED BY <1>1, <2>1 DEF V!Work
<1>4. AnalystSound([pc |-> "answered", work |-> work])
  <2> HIDE DEF work
  <2>1. QED BY <1>2 DEF AnalystSound
<1>5. QED BY <1>3, <1>4

LEMMA AskResolveInv ==
    ASSUME EvidenceInv, NEW h \in Handlers, V!AskResolve(h)
    PROVE  EvidenceInv'
<1> DEFINE n == Len(decisions)
           work == [V!Rest.work EXCEPT !.prior = V!DecisionKey, !.since = n]
<1>1. n \in 0..MaxDecisions /\ n \in 0..2 * MaxDecisions + 1 /\ V!DecisionKey = n
  BY EditorialAssumption DEF EvidenceInv, V!TypeOK, V!DecisionKey
<1>2. UNCHANGED <<subject, claimed, runs, decisions>>
  BY DEF V!AskResolve
<1>3. CASE V!Become(h, "resolve", work)
  <2>1. V!Rest.work \in V!Work
    BY EvidenceTypes
  <2>2. work \in V!Work /\ work.prior = n /\ work.since = n
    BY <1>1, <2>1 DEF V!Work
  <2>3. AnalystSound([pc |-> "resolve", work |-> work])
    <3> HIDE DEF work
    <3>1. QED BY <1>1, <2>2 DEF AnalystSound
  <2> HIDE DEF work
  <2>4. QED BY <1>2, <1>3, <2>2, <2>3, AnalystStep DEF V!Requests
<1>4. ASSUME NEW k \in V!WithKey(V!DecisionKey), V!Answer(h, k, work.since)
      PROVE  EvidenceInv'
  <2>1. V!Rest.work \in V!Work
    BY EvidenceTypes
  <2>2. work.since = n
    BY <1>1, <2>1 DEF V!Work
  <2>3. k \in 1..Len(runs) /\ runs[k].key = n
    BY <1>1 DEF V!WithKey
  <2>4. runs[k] \in V!Run
    BY <2>3 DEF EvidenceInv, V!TypeOK
  <2>5. runs[k].decided >= n
    BY <1>1, <2>3, <2>4 DEF EvidenceInv, RunsKnow, V!Run
  <2> HIDE DEF n
  <2> DEFINE answer == [V!Rest.work EXCEPT !.run = k, !.since = n]
  <2>6. answer \in V!Work /\ AnalystSound([pc |-> "answered", work |-> answer])
    BY <1>1, <2>3, <2>5, AnswerSound
  <2>7. V!Become(h, "answered", answer)
    BY <1>4, <2>2 DEF V!Answer
  <2> HIDE DEF answer
  <2>8. QED BY <1>2, <2>6, <2>7, AnalystStep DEF V!Requests
<1>5. QED
  BY <1>3, <1>4 DEF V!AskResolve

LEMMA SnapshotInv ==
    ASSUME EvidenceInv, NEW h \in Handlers, V!Snapshot(h)
    PROVE  EvidenceInv'
<1> DEFINE old == analyst[h].work
           work == [old EXCEPT !.decided = Len(decisions), !.known = subject]
<1>1. old \in V!Work /\ analyst[h].pc = "resolve" /\ AnalystSound(analyst[h])
  BY DEF V!Snapshot, EvidenceInv, V!TypeOK
<1>2. /\ work.prior = old.prior /\ work.since = old.since
      /\ work.decided = Len(decisions)
  BY <1>1 DEF V!Work
<1>3. work \in V!Work
  <2>1. Len(decisions) \in 0..MaxDecisions
    BY DEF EvidenceInv, V!TypeOK
  <2>2. QED BY <1>1, <2>1 DEF V!Work, EvidenceInv, V!TypeOK
<1>4. AnalystSound([pc |-> "commit", work |-> work])
  <2>1. old.since <= Len(decisions) /\ old.prior = old.since /\ Len(decisions) \in Nat
    BY <1>1 DEF AnalystSound, EvidenceInv, V!TypeOK
  <2> HIDE DEF work
  <2>2. QED BY <1>2, <2>1 DEF AnalystSound
<1>5. V!Become(h, "commit", work) /\ UNCHANGED <<subject, claimed, runs, decisions>>
  BY DEF V!Snapshot
<1> HIDE DEF work
<1>6. QED BY <1>3, <1>4, <1>5, AnalystStep DEF V!Requests

\* What a list is after another is put at its end.
LEMMA Appended ==
    ASSUME NEW S, NEW s \in Seq(S), NEW x \in S
    PROVE  /\ Append(s, x) \in Seq(S) /\ Len(Append(s, x)) = Len(s) + 1 /\ Len(s) \in Nat
           /\ \A n \in 1..Len(s) : Append(s, x)[n] = s[n]
           /\ Append(s, x)[Len(s) + 1] = x
OBVIOUS

LEMMA CommitInv ==
    ASSUME EvidenceInv, NEW h \in Handlers, V!Commit(h)
    PROVE  EvidenceInv'
<1> DEFINE work == analyst[h].work
           suggested == V!Correlate(work.known)
           new == [key |-> work.prior, decided |-> work.decided,
                   subject |-> work.known, suggested |-> suggested,
                   state |-> [i \in Incidents |-> V!Resolve(i, suggested, work.decided)]]
<1>1. /\ analyst[h].pc = "commit" /\ AnalystSound(analyst[h]) /\ work \in V!Work
      /\ UNCHANGED <<subject, claimed, decisions>>
  BY DEF V!Commit, EvidenceInv, V!TypeOK
<1>2. /\ work.prior = work.since /\ work.since <= work.decided /\ work.decided <= Len(decisions)
      /\ work.prior \in 0..MaxDecisions /\ work.decided \in 0..MaxDecisions
      /\ work.since \in 0..2 * MaxDecisions + 1 /\ work.known \in V!SubjectMap
      /\ decisions \in Seq(V!Decision) /\ runs \in Seq(V!Run) /\ Len(decisions) \in Nat
      /\ RunsKnow /\ AcceptedWithClaim /\ V!NothingCorroboratesItself
  BY <1>1, EditorialAssumption DEF AnalystSound, V!Work, EvidenceInv, V!TypeOK
<1>3. CASE runs' = Append(runs, new) /\ Len(runs) < MaxRuns /\ V!Answer(h, Len(runs) + 1, work.since)
  <2>1. suggested \subseteq V!Pairs /\ \A p \in suggested : work.known[p[1]] = MCTarget[p[2]]
    BY DEF V!Correlate, MCNotable, V!Pairs
  <2>2. new \in V!Run
    <3>1. [i \in Incidents |-> V!Resolve(i, suggested, work.decided)] \in [Incidents -> V!States]
      BY DEF V!Resolve, V!States
    <3> HIDE DEF work, suggested
    <3>2. QED BY <1>2, <2>1, <3>1 DEF V!Run
  <2>3. /\ new.key = work.prior /\ new.decided = work.decided /\ new.suggested = suggested
        /\ new.subject = work.known
        /\ \A i \in Incidents : new.state[i] = V!Resolve(i, suggested, work.decided)
    OBVIOUS
  <2> HIDE DEF work, suggested, new
  <2>4. /\ runs' \in Seq(V!Run) /\ Len(runs') = Len(runs) + 1 /\ Len(runs) \in Nat
        /\ \A k \in 1..Len(runs) : runs'[k] = runs[k]
        /\ runs'[Len(runs) + 1] = new
    BY <1>2, <1>3, <2>2, Appended
  <2> DEFINE last == Len(runs) + 1
             answer == [V!Rest.work EXCEPT !.run = last, !.since = work.since]
  <2>5. last \in Nat /\ last <= MaxRuns /\ last \in 0..MaxRuns
    BY <1>3, <2>4, EditorialAssumption
  <2>6. answer \in V!Work /\ answer.run = last /\ answer.since = work.since
    <3>1. V!Rest.work \in V!Work
      BY EvidenceTypes
    <3> HIDE DEF last
    <3>2. QED BY <1>2, <2>5, <3>1 DEF V!Work
  <2>7. /\ analyst' \in [Handlers -> [pc : V!Requests, work : V!Work]]
        /\ analyst'[h] = [pc |-> "answered", work |-> answer]
        /\ \A i \in Handlers \ {h} : analyst'[i] = analyst[i]
    <3>1. analyst' = [analyst EXCEPT ![h] = [pc |-> "answered", work |-> answer]]
      BY <1>3 DEF V!Answer, V!Become
    <3>2. [pc |-> "answered", work |-> answer] \in [pc : V!Requests, work : V!Work]
      BY <2>6 DEF V!Requests
    <3> HIDE DEF answer
    <3>3. QED BY <3>1, <3>2 DEF EvidenceInv, V!TypeOK
  <2> HIDE DEF last, answer
  <2>8. \A k \in 1..Len(runs') : k \in 1..Len(runs) \/ k = last
    BY <2>4 DEF last
  <2>9. last \in 1..Len(runs') /\ runs'[last] = new
    BY <2>4 DEF last
  <2>10. V!TypeOK'
    <3>1. Len(runs') <= MaxRuns
      BY <2>4, <2>5 DEF last
    <3>2. \A k \in 1..Len(runs') : \A p \in runs'[k].suggested : (runs'[k].subject)[p[1]] = MCTarget[p[2]]
      BY <2>1, <2>3, <2>4, <2>8, <2>9 DEF EvidenceInv, V!TypeOK
    <3>3. QED BY <1>1, <2>4, <2>7, <3>1, <3>2 DEF EvidenceInv, V!TypeOK
  <2>11. RunsKnow'
    BY <1>1, <1>2, <2>3, <2>4, <2>8, <2>9 DEF RunsKnow
  <2>12. AcceptedWithClaim'
    BY <1>1, <1>2 DEF AcceptedWithClaim
  <2>13. V!NothingCorroboratesItself'
    <3> SUFFICES ASSUME NEW k \in 1..Len(runs'), NEW i \in Incidents,
                        runs'[k].state[i] # "reported_only"
                 PROVE  \E n \in 1..runs'[k].decided :
                           /\ decisions[n].pair[1] = i /\ decisions[n].accept
                           /\ runs'[k].state[i] # "onchain_observed" => i \in claimed
                           /\ \A j \in 1..runs'[k].decided :
                                 decisions[j].pair = decisions[n].pair /\ ~V!MadeBefore(j, n) =>
                                    decisions[j].accept
      BY <1>1 DEF V!NothingCorroboratesItself, V!MadeBefore
    <3>1. CASE k \in 1..Len(runs)
      BY <1>2, <2>4, <3>1 DEF V!NothingCorroboratesItself
    <3>2. CASE k = last
      <4>1. /\ runs'[k].state[i] = V!Resolve(i, suggested, work.decided)
            /\ runs'[k].decided = work.decided
        BY <2>3, <2>9, <3>2
      <4>2. work.decided \in 0..Len(decisions)
        BY <1>2
      <4>3. QED BY <1>2, <4>1, <4>2, RestsOnAcceptance
    <3>3. QED BY <2>8, <3>1, <3>2
  <2>14. ASSUME NEW i \in Handlers PROVE AnalystSound(analyst[i])'
    <3>1. CASE i = h
      BY <1>2, <2>3, <2>6, <2>7, <2>9, <3>1 DEF AnalystSound
    <3>2. CASE i # h
      <4>1. AnalystSound(analyst[i]) /\ analyst'[i] = analyst[i]
        BY <2>7, <3>2 DEF EvidenceInv
      <4>2. QED BY <1>1, <2>4, <4>1 DEF AnalystSound
    <3>3. QED BY <3>1, <3>2
  <2>15. QED BY <2>10, <2>11, <2>12, <2>13, <2>14 DEF EvidenceInv
<1>4. ASSUME NEW k \in V!WithKey(work.prior), V!Answer(h, k, work.since), UNCHANGED runs
      PROVE  EvidenceInv'
  <2>1. k \in 1..Len(runs) /\ runs[k].key = work.prior /\ runs[k] \in V!Run
    BY <1>2 DEF V!WithKey
  <2>2. runs[k].decided >= work.since
    BY <1>2, <2>1 DEF RunsKnow, V!Run
  <2> DEFINE since == work.since
             answer == [V!Rest.work EXCEPT !.run = k, !.since = since]
  <2>3. since \in 0..2 * MaxDecisions + 1 /\ runs[k].decided >= since
    BY <1>2, <2>2
  <2>4. V!Become(h, "answered", answer)
    BY <1>4 DEF V!Answer
  <2> HIDE DEF since
  <2>5. answer \in V!Work /\ AnalystSound([pc |-> "answered", work |-> answer])
    BY <2>1, <2>3, AnswerSound
  <2> HIDE DEF answer
  <2>6. QED BY <1>1, <1>4, <2>4, <2>5, AnalystStep DEF V!Requests
<1>5. QED BY <1>3, <1>4 DEF V!Commit

LEMMA UpToFinite == \A n \in Nat : IsFiniteSet(1..n) /\ Cardinality(1..n) = n
<1> SUFFICES ASSUME NEW n \in Nat PROVE IsFiniteSet(1..n) /\ Cardinality(1..n) = n
  OBVIOUS
<1>1. 1 \in Int /\ n \in Int
  OBVIOUS
<1>2. /\ IsFiniteSet(1..n)
      /\ Cardinality(1..n) = IF 1 > n THEN 0 ELSE n - 1 + 1
  BY <1>1, FS_Interval
<1>3. QED BY <1>2

LEMMA AskDecideInv ==
    ASSUME EvidenceInv, NEW h \in Handlers, NEW k \in 1..Len(runs), NEW early \in {0, 1},
           NEW accept \in BOOLEAN, NEW p \in runs[k].suggested, NEW relation \in V!Answers(accept),
           V!AskDecide(h, k, p, accept, relation, 2 * Len(decisions) + early)
    PROVE  EvidenceInv'
<1> DEFINE prior == V!Cardinality(V!OfRun(k))
           since == 2 * Len(decisions) + early
           work == [V!Rest.work EXCEPT !.run = k, !.pair = p, !.accept = accept,
                                       !.relation = relation, !.prior = prior, !.since = since]
<1>1. prior \in 0..MaxDecisions
  <2>1. /\ V!OfRun(k) \subseteq 1..Len(decisions) /\ Len(decisions) \in Nat
        /\ Len(decisions) <= MaxDecisions
    BY DEF V!OfRun, EvidenceInv, V!TypeOK
  <2>2. IsFiniteSet(1..Len(decisions)) /\ Cardinality(1..Len(decisions)) = Len(decisions)
    BY <2>1, UpToFinite
  <2>3. Cardinality(V!OfRun(k)) \in Nat /\ Cardinality(V!OfRun(k)) <= Len(decisions)
    BY <2>1, <2>2, FS_Subset, FS_CardinalityType
  <2>4. prior = Cardinality(V!OfRun(k))
    BY DEF V!Cardinality, V!IsFiniteSet, Cardinality, IsFiniteSet
  <2>5. QED BY <2>1, <2>3, <2>4, EditorialAssumption
<1>2. since \in 0..2 * MaxDecisions + 1
  <2>1. Len(decisions) \in Nat /\ Len(decisions) <= MaxDecisions
    BY DEF EvidenceInv, V!TypeOK
  <2>2. QED BY <2>1, EditorialAssumption
<1>3. k \in 0..MaxRuns /\ k # 0 /\ p \in V!Pairs /\ relation \in V!Relations
  <2>1. Len(runs) <= MaxRuns /\ runs \in Seq(V!Run)
    BY DEF EvidenceInv, V!TypeOK
  <2>2. runs[k].suggested \subseteq V!Pairs
    <3>1. runs[k] \in V!Run
      BY <2>1
    <3>2. QED BY <3>1 DEF V!Run
  <2>3. QED BY <2>1, <2>2, EditorialAssumption DEF V!Answers, V!Relations
<1>4. /\ (accept /\ relation # "context") => p[1] \in claimed
      /\ V!Become(h, "insert", work)
      /\ UNCHANGED <<subject, claimed, runs, decisions>>
  <2>1. V!Become(h, "insert", work)
    BY DEF V!AskDecide
  <2>2. UNCHANGED <<subject, claimed, runs, decisions>>
    BY DEF V!AskDecide
  <2>3. (accept /\ relation # "context") => p[1] \in claimed
    BY DEF V!AskDecide
  <2>4. QED BY <2>1, <2>2, <2>3
<1> HIDE DEF prior, since
<1>5. /\ work \in V!Work
      /\ work.run = k /\ work.pair = p /\ work.accept = accept /\ work.relation = relation
  <2>1. V!Rest.work \in V!Work
    BY EvidenceTypes
  <2>2. p \in (Incidents \cup {None}) \X (Signals \cup {None})
    BY <1>3 DEF V!Pairs
  <2>3. QED BY <1>1, <1>2, <1>3, <2>1, <2>2 DEF V!Work
<1> HIDE DEF work
<1>6. AnalystSound([pc |-> "insert", work |-> work])
  BY <1>3, <1>4, <1>5 DEF AnalystSound
<1>7. QED BY <1>4, <1>5, <1>6, AnalystStep DEF V!Requests

LEMMA InsertDecisionInv ==
    ASSUME EvidenceInv, NEW h \in Handlers, V!InsertDecision(h)
    PROVE  EvidenceInv'
<1> DEFINE work == analyst[h].work
           new == [run |-> work.run, pair |-> work.pair, accept |-> work.accept,
                   relation |-> work.relation, made |-> work.since]
<1>1. /\ analyst[h].pc = "insert" /\ Len(decisions) < MaxDecisions
      /\ V!Leave(h) /\ UNCHANGED <<subject, claimed, runs>>
      /\ work \in V!Work /\ AnalystSound(analyst[h])
  BY DEF V!InsertDecision, EvidenceInv, V!TypeOK
<1>2. CASE decisions' = decisions
  BY <1>1, <1>2, LeavingInv
<1>3. CASE decisions' = Append(decisions, new)
  <2>1. new \in V!Decision /\ (new.accept /\ new.relation # "context" => new.pair[1] \in claimed)
    <3>1. work.run \in 1..MaxRuns /\ work.pair \in V!Pairs
      BY <1>1, EditorialAssumption DEF AnalystSound, V!Work
    <3>2. QED BY <1>1, <3>1 DEF AnalystSound, V!Work, V!Decision
  <2> HIDE DEF new
  <2>2. decisions \in Seq(V!Decision) /\ runs \in Seq(V!Run)
    BY DEF EvidenceInv, V!TypeOK
  <2>3. /\ decisions' \in Seq(V!Decision) /\ Len(decisions') = Len(decisions) + 1
        /\ Len(decisions) \in Nat
        /\ \A n \in 1..Len(decisions) : decisions'[n] = decisions[n]
        /\ decisions'[Len(decisions) + 1] = new
    BY <1>3, <2>1, <2>2, Appended
  <2>4. Len(decisions') <= MaxDecisions
    BY <1>1, <2>3, EditorialAssumption
  <2>5. /\ analyst' \in [Handlers -> [pc : V!Requests, work : V!Work]]
        /\ analyst'[h] = V!Rest
        /\ \A i \in Handlers \ {h} : analyst'[i] = analyst[i]
    BY <1>1, EvidenceTypes DEF V!Leave, EvidenceInv, V!TypeOK
  <2>6. V!TypeOK'
    BY <1>1, <2>3, <2>4, <2>5 DEF EvidenceInv, V!TypeOK
  <2>7. \A k \in 1..Len(runs) : runs[k].decided \in Nat /\ runs[k].decided <= Len(decisions)
    <3>1. \A k \in 1..Len(runs) : runs[k] \in V!Run
      BY <2>2
    <3>2. \A r \in V!Run : r.decided \in Nat
      BY EditorialAssumption DEF V!Run
    <3>3. QED BY <3>1, <3>2 DEF EvidenceInv, RunsKnow
  <2>8. RunsKnow'
    BY <1>1, <2>3, <2>7 DEF EvidenceInv, RunsKnow
  <2>9. AcceptedWithClaim'
    <3> SUFFICES ASSUME NEW n \in 1..Len(decisions'),
                        decisions'[n].accept, decisions'[n].relation # "context"
                 PROVE  decisions'[n].pair[1] \in claimed
      BY <1>1 DEF AcceptedWithClaim
    <3>1. CASE n \in 1..Len(decisions)
      BY <2>3, <3>1 DEF EvidenceInv, AcceptedWithClaim
    <3>2. CASE n = Len(decisions) + 1
      BY <2>1, <2>3, <3>2
    <3>3. QED BY <2>3, <3>1, <3>2
  <2>10. V!NothingCorroboratesItself'
    <3> SUFFICES ASSUME NEW k \in 1..Len(runs), NEW i \in Incidents,
                        runs[k].state[i] # "reported_only"
                 PROVE  \E n \in 1..runs[k].decided :
                           /\ decisions'[n].pair[1] = i /\ decisions'[n].accept
                           /\ runs[k].state[i] # "onchain_observed" => i \in claimed
                           /\ \A j \in 1..runs[k].decided :
                                 decisions'[j].pair = decisions'[n].pair /\ ~V!MadeBefore(j, n)' =>
                                    decisions'[j].accept
      BY <1>1 DEF V!NothingCorroboratesItself, V!MadeBefore
    <3>1. \A n \in 1..runs[k].decided : n \in 1..Len(decisions) /\ decisions'[n] = decisions[n]
      BY <2>3, <2>7
    <3>2. \A j, n \in 1..runs[k].decided : V!MadeBefore(j, n)' <=> V!MadeBefore(j, n)
      BY <3>1 DEF V!MadeBefore
    <3>3. QED BY <3>1, <3>2 DEF EvidenceInv, V!NothingCorroboratesItself
  <2>11. ASSUME NEW i \in Handlers PROVE AnalystSound(analyst[i])'
    <3>1. CASE i = h
      BY <2>5, <3>1, EvidenceTypes DEF AnalystSound
    <3>2. CASE i # h
      <4>1. AnalystSound(analyst[i]) /\ analyst'[i] = analyst[i] /\ analyst[i].work \in V!Work
        BY <2>5, <3>2 DEF EvidenceInv, V!TypeOK
      <4>2. analyst[i].work.since \in Nat /\ analyst[i].work.decided \in Nat
        BY <4>1, EditorialAssumption DEF V!Work
      <4>3. QED BY <1>1, <2>3, <4>1, <4>2 DEF AnalystSound
    <3>3. QED BY <3>1, <3>2
  <2>12. QED BY <2>6, <2>8, <2>9, <2>10, <2>11 DEF EvidenceInv
<1>4. QED BY <1>2, <1>3 DEF V!InsertDecision

LEMMA EvidenceNext == EvidenceInv /\ [V!Next]_evidenceVars => EvidenceInv'
<1> SUFFICES ASSUME EvidenceInv, [V!Next]_evidenceVars PROVE EvidenceInv'
  OBVIOUS
<1>1. CASE UNCHANGED evidenceVars
  BY <1>1 DEF evidenceVars, EvidenceInv, V!TypeOK, RunsKnow, AcceptedWithClaim,
              V!NothingCorroboratesItself, V!MadeBefore, AnalystSound
<1>2. ASSUME NEW i \in Incidents, V!RecordClaim(i) PROVE EvidenceInv'
  BY <1>2, RecordClaimInv
<1>3. ASSUME NEW h \in Handlers,
             \/ \E i \in Incidents, t \in Targets : V!ReadSubject(h, i, t)
             \/ V!InsertSubject(h) \/ V!AskResolve(h) \/ V!Snapshot(h) \/ V!Commit(h)
      PROVE  EvidenceInv'
  BY <1>3, ReadSubjectInv, InsertSubjectInv, AskResolveInv, SnapshotInv, CommitInv
<1>4. ASSUME NEW h \in Handlers, NEW k \in 1..Len(runs), NEW early \in {0, 1},
             NEW accept \in BOOLEAN, NEW p \in runs[k].suggested, NEW relation \in V!Answers(accept),
             V!AskDecide(h, k, p, accept, relation, 2 * Len(decisions) + early)
      PROVE  EvidenceInv'
  BY <1>4, AskDecideInv
<1>5. ASSUME NEW h \in Handlers, V!InsertDecision(h) PROVE EvidenceInv'
  BY <1>5, InsertDecisionInv
<1>6. ASSUME NEW h \in Handlers, V!End(h) PROVE EvidenceInv'
  BY <1>6, LeavingInv DEF V!End
<1>7. QED BY <1>1, <1>2, <1>3, <1>4, <1>5, <1>6 DEF V!Next, evidenceVars

LEMMA EvidenceHolds == EvidenceInv => V!EvidenceSound
BY DEF EvidenceInv, V!EvidenceSound, V!AnswerKnowsTheDecisions, AnalystSound

-----------------------------------------------------------------------------
(* The publication of drafts. *)

DraftNames == {"n1", "n2"}

Stage == {"absent", "part", "whole"}

EntryRow ==
    [kind : {"absent", "empty directory", "file", "draft"}, by : Handlers \cup {"others"},
     markdown : Stage, sidecar : Stage]

WriterRow ==
    [at : {"idle", "root", "look", "stage", "markdown", "sidecar", "rename",
           "discard", "published", "refused", "crashed"},
     name : DraftNames \cup {"none"}]

StagingRow == [markdown : Stage, sidecar : Stage, made : BOOLEAN]

DraftTyped ==
    /\ corpus \in MCCorpora
    /\ root \in {"absent", "directory", "link", "file"}
    /\ entry \in [DraftNames -> EntryRow]
    /\ first \in [DraftNames -> EntryRow]
    /\ writer \in [Handlers -> WriterRow]
    /\ staging \in [Handlers -> StagingRow]

\* A writer has staged what its place in the publication says, under a name.
StagedSound ==
    \A w \in Handlers :
        /\ writer[w].at # "idle" => writer[w].name \in DraftNames
        /\ writer[w].at \in {"idle", "root", "look", "stage", "refused"} => staging[w] = F!Unstaged
        /\ writer[w].at \in {"sidecar", "rename"} => staging[w].markdown = "whole"
        /\ writer[w].at = "rename" => staging[w].sidecar = "whole"
        /\ writer[w].at = "published" => /\ entry[writer[w].name].kind = "draft"
                                         /\ entry[writer[w].name].by = w

\* A draft in place is whole, is the first there was, and its writer says so.
PlacesSound ==
    \A n \in DraftNames :
        /\ first[n].kind \in {"absent", "draft"}
        /\ first[n].kind = "draft" => entry[n] = first[n]
        /\ entry[n].kind = "draft" =>
               /\ entry[n].markdown = "whole" /\ entry[n].sidecar = "whole"
               /\ \A w \in Handlers : entry[n].by = w => writer[w].at = "published"

DraftInv == DraftTyped /\ StagedSound /\ PlacesSound

LEMMA DraftTypes ==
    /\ F!Unstaged \in StagingRow
    /\ F!Unstaged.markdown = "absent" /\ F!Unstaged.sidecar = "absent"
    /\ F!Idle \in WriterRow /\ F!Idle.at = "idle"
    /\ \A kind \in {"absent", "empty directory", "file"} :
           F!Entry(kind) \in EntryRow /\ F!Entry(kind).kind = kind
BY DEF F!Unstaged, StagingRow, Stage, F!Idle, WriterRow, F!Entry, EntryRow

LEMMA DraftInit == F!Init => DraftInv
<1> SUFFICES ASSUME F!Init PROVE DraftInv
  OBVIOUS
<1>1. DraftTyped
  BY DraftTypes DEF F!Init, DraftTyped, DraftNames
<1>2. StagedSound
  BY DraftTypes DEF F!Init, StagedSound
<1>3. PlacesSound
  BY DraftTypes DEF F!Init, PlacesSound, DraftNames
<1>4. QED BY <1>1, <1>2, <1>3 DEF DraftInv

\* A writer goes on, with its own staging directory, and no draft is touched.
LEMMA WriterStep ==
    ASSUME DraftInv, NEW w \in Handlers, NEW new \in WriterRow, NEW staged \in StagingRow,
           writer' = [writer EXCEPT ![w] = new], staging' = [staging EXCEPT ![w] = staged],
           writer[w].at # "published", new.at \notin {"idle", "published"}, new.name \in DraftNames,
           new.at \in {"root", "look", "stage", "refused"} => staged = F!Unstaged,
           new.at \in {"sidecar", "rename"} => staged.markdown = "whole",
           new.at = "rename" => staged.sidecar = "whole",
           root' \in {"absent", "directory", "link", "file"},
           UNCHANGED <<corpus, entry, first>>
    PROVE  DraftInv'
<1>1. /\ writer'[w] = new /\ staging'[w] = staged
      /\ \A v \in Handlers \ {w} : writer'[v] = writer[v] /\ staging'[v] = staging[v]
  BY DEF DraftInv, DraftTyped
<1>2. DraftTyped'
  BY DEF DraftInv, DraftTyped
<1>3. StagedSound'
  <2> SUFFICES ASSUME NEW v \in Handlers
               PROVE  /\ writer'[v].at # "idle" => writer'[v].name \in DraftNames
                      /\ writer'[v].at \in {"idle", "root", "look", "stage", "refused"} =>
                             staging'[v] = F!Unstaged
                      /\ writer'[v].at \in {"sidecar", "rename"} => staging'[v].markdown = "whole"
                      /\ writer'[v].at = "rename" => staging'[v].sidecar = "whole"
                      /\ writer'[v].at = "published" =>
                             /\ entry[writer'[v].name].kind = "draft"
                             /\ entry[writer'[v].name].by = v
    BY DEF StagedSound, F!Unstaged
  <2>1. CASE v = w
    BY <1>1, <2>1
  <2>2. CASE v # w
    <3>1. writer'[v] = writer[v] /\ staging'[v] = staging[v]
      BY <1>1, <2>2
    <3>2. QED BY <3>1 DEF DraftInv, StagedSound
  <2>3. QED BY <2>1, <2>2
<1>4. PlacesSound'
  <2>1. \A v \in Handlers : writer[v].at = "published" => writer'[v].at = "published"
    BY <1>1
  <2>2. QED BY <2>1 DEF DraftInv, PlacesSound
<1>5. QED BY <1>2, <1>3, <1>4 DEF DraftInv

\* A step of a writer that is at work, by the place it goes to.
LEMMA WriterGoes ==
    ASSUME DraftInv, NEW w \in Handlers, NEW at, NEW staged \in StagingRow,
           writer[w].at \notin {"idle", "published"},
           at \in {"root", "look", "stage", "markdown", "sidecar", "rename", "discard",
                   "refused", "crashed"},
           F!Goes(w, at), staging' = [staging EXCEPT ![w] = staged],
           at \in {"root", "look", "stage", "refused"} => staged = F!Unstaged,
           at \in {"sidecar", "rename"} => staged.markdown = "whole",
           at = "rename" => staged.sidecar = "whole",
           root' \in {"absent", "directory", "link", "file"},
           UNCHANGED <<corpus, entry, first>>
    PROVE  DraftInv'
<1> DEFINE new == [at |-> at, name |-> writer[w].name]
<1>1. writer[w] \in WriterRow /\ writer[w].name \in DraftNames
  BY DEF DraftInv, DraftTyped, StagedSound
<1>2. new \in WriterRow /\ new.at = at /\ new.name \in DraftNames
  BY <1>1 DEF WriterRow
<1>3. writer' = [writer EXCEPT ![w] = new]
  <2>1. [writer[w] EXCEPT !.at = at] = new
    BY <1>1 DEF WriterRow
  <2>2. writer' = [writer EXCEPT ![w] = [writer[w] EXCEPT !.at = at]]
    BY DEF F!Goes
  <2> HIDE DEF new
  <2>3. QED BY <2>1, <2>2
<1> HIDE DEF new
<1>4. QED BY <1>2, <1>3, WriterStep

LEMMA Restaged ==
    ASSUME DraftInv, NEW w \in Handlers
    PROVE  /\ staging = [staging EXCEPT ![w] = staging[w]] /\ staging[w] \in StagingRow
           /\ writer[w] \in WriterRow
BY DEF DraftInv, DraftTyped

LEMMA BuildInv ==
    ASSUME DraftInv, NEW w \in Handlers, NEW n \in DraftNames, F!Build(w, n)
    PROVE  DraftInv'
<1> DEFINE new == [at |-> "root", name |-> n]
<1>1. new \in WriterRow /\ new.at = "root" /\ new.name = n
  BY DEF WriterRow
<1>2. /\ writer[w].at = "idle" /\ writer' = [writer EXCEPT ![w] = new]
      /\ UNCHANGED <<corpus, root, entry, staging, first>>
  BY DEF F!Build, F!At
<1>3. staging[w] = F!Unstaged /\ root \in {"absent", "directory", "link", "file"}
  BY <1>2 DEF DraftInv, StagedSound, DraftTyped
<1>4. staging' = [staging EXCEPT ![w] = staging[w]] /\ staging[w] \in StagingRow
  BY <1>2, Restaged
<1> HIDE DEF new
<1>5. QED BY <1>1, <1>2, <1>3, <1>4, WriterStep

LEMMA LooksInv ==
    ASSUME DraftInv, NEW w \in Handlers, F!EnsureAuthorisedRoot(w) \/ F!Look(w) \/ F!Stage(w)
    PROVE  DraftInv'
<1>1. /\ staging[w] \in StagingRow /\ staging = [staging EXCEPT ![w] = staging[w]]
      /\ root \in {"absent", "directory", "link", "file"}
  BY Restaged DEF DraftInv, DraftTyped
<1>2. ASSUME F!EnsureAuthorisedRoot(w) PROVE DraftInv'
  <2>1. /\ writer[w].at = "root" /\ UNCHANGED <<corpus, entry, staging, first>>
        /\ F!Goes(w, "look") \/ F!Goes(w, "refused")
        /\ root' \in {"absent", "directory", "link", "file"}
    BY <1>1, <1>2 DEF F!EnsureAuthorisedRoot, F!At
  <2>2. staging[w] = F!Unstaged
    BY <2>1 DEF DraftInv, StagedSound
  <2>3. QED BY <1>1, <2>1, <2>2, WriterGoes
<1>3. ASSUME F!Look(w) PROVE DraftInv'
  <2>1. /\ writer[w].at = "look" /\ UNCHANGED <<corpus, root, entry, staging, first>>
        /\ F!Goes(w, "stage") \/ F!Goes(w, "refused")
    BY <1>3 DEF F!Look, F!At
  <2>2. staging[w] = F!Unstaged
    BY <2>1 DEF DraftInv, StagedSound
  <2>3. QED BY <1>1, <2>1, <2>2, WriterGoes
<1>4. ASSUME F!Stage(w) PROVE DraftInv'
  <2> DEFINE staged == [staging[w] EXCEPT !.made = TRUE]
  <2>1. staged \in StagingRow
    BY <1>1 DEF StagingRow
  <2>2. /\ writer[w].at = "stage" /\ UNCHANGED <<corpus, root, entry, first>>
        /\ F!Goes(w, "markdown") /\ staging' = [staging EXCEPT ![w] = staged]
    BY <1>4 DEF F!Stage, F!At
  <2> HIDE DEF staged
  <2>3. QED BY <1>1, <2>1, <2>2, WriterGoes
<1>5. QED BY <1>2, <1>3, <1>4

LEMMA WritesInv ==
    ASSUME DraftInv, NEW w \in Handlers, F!WriteMarkdown(w) \/ F!WriteSidecar(w)
    PROVE  DraftInv'
<1>1. /\ staging[w] \in StagingRow /\ root \in {"absent", "directory", "link", "file"}
  BY Restaged DEF DraftInv, DraftTyped
<1>2. ASSUME F!WriteMarkdown(w) PROVE DraftInv'
  <2>1. /\ writer[w].at = "markdown" /\ UNCHANGED <<corpus, root, entry, first>>
        /\ \/ staging' = [staging EXCEPT ![w].markdown = "whole"] /\ F!Goes(w, "sidecar")
           \/ staging' = [staging EXCEPT ![w].markdown = "part"] /\ F!Goes(w, "discard")
    BY <1>2 DEF F!WriteMarkdown, F!WriteExclusive, F!At
  <2> DEFINE staged(how) == [staging[w] EXCEPT !.markdown = how]
  <2>2. \A how \in Stage : staged(how) \in StagingRow /\ staged(how).markdown = how
    BY <1>1 DEF StagingRow
  <2>3. CASE staging' = [staging EXCEPT ![w] = staged("whole")] /\ F!Goes(w, "sidecar")
    <3>1. staged("whole") \in StagingRow /\ staged("whole").markdown = "whole"
      BY <2>2 DEF Stage
    <3> HIDE DEF staged
    <3>2. QED BY <1>1, <2>1, <2>3, <3>1, WriterGoes
  <2>4. CASE staging' = [staging EXCEPT ![w] = staged("part")] /\ F!Goes(w, "discard")
    <3>1. staged("part") \in StagingRow
      BY <2>2 DEF Stage
    <3> HIDE DEF staged
    <3>2. QED BY <1>1, <2>1, <2>4, <3>1, WriterGoes
  <2>5. QED BY <2>1, <2>3, <2>4
<1>3. ASSUME F!WriteSidecar(w) PROVE DraftInv'
  <2>1. /\ writer[w].at = "sidecar" /\ UNCHANGED <<corpus, root, entry, first>>
        /\ \/ staging' = [staging EXCEPT ![w].sidecar = "whole"] /\ F!Goes(w, "rename")
           \/ staging' = [staging EXCEPT ![w].sidecar = "part"] /\ F!Goes(w, "discard")
    BY <1>3 DEF F!WriteSidecar, F!WriteExclusive, F!At
  <2> DEFINE staged(how) == [staging[w] EXCEPT !.sidecar = how]
  <2>2. \A how \in Stage : /\ staged(how) \in StagingRow /\ staged(how).sidecar = how
                           /\ staged(how).markdown = staging[w].markdown
    BY <1>1 DEF StagingRow
  <2>3. staging[w].markdown = "whole"
    BY <2>1 DEF DraftInv, StagedSound
  <2>4. CASE staging' = [staging EXCEPT ![w] = staged("whole")] /\ F!Goes(w, "rename")
    <3>1. /\ staged("whole") \in StagingRow
          /\ staged("whole").markdown = "whole" /\ staged("whole").sidecar = "whole"
      BY <2>2, <2>3 DEF Stage
    <3> HIDE DEF staged
    <3>2. QED BY <1>1, <2>1, <2>4, <3>1, WriterGoes
  <2>5. CASE staging' = [staging EXCEPT ![w] = staged("part")] /\ F!Goes(w, "discard")
    <3>1. staged("part") \in StagingRow
      BY <2>2 DEF Stage
    <3> HIDE DEF staged
    <3>2. QED BY <1>1, <2>1, <2>5, <3>1, WriterGoes
  <2>6. QED BY <2>1, <2>4, <2>5
<1>4. QED BY <1>2, <1>3

LEMMA LeavesInv ==
    ASSUME DraftInv, NEW w \in Handlers, F!DiscardStaging(w) \/ F!Crash(w)
    PROVE  DraftInv'
<1>1. /\ staging[w] \in StagingRow /\ staging = [staging EXCEPT ![w] = staging[w]]
      /\ root \in {"absent", "directory", "link", "file"}
  BY Restaged DEF DraftInv, DraftTyped
<1>2. ASSUME F!DiscardStaging(w) PROVE DraftInv'
  BY <1>1, <1>2, WriterGoes, DraftTypes DEF F!DiscardStaging, F!At
<1>3. ASSUME F!Crash(w) PROVE DraftInv'
  BY <1>1, <1>3, WriterGoes DEF F!Crash
<1>4. QED BY <1>2, <1>3

LEMMA RenameInv ==
    ASSUME DraftInv, NEW w \in Handlers, F!Rename(w)
    PROVE  DraftInv'
<1> DEFINE n == writer[w].name
           published == F!Published(w)
<1>1. /\ writer[w].at = "rename" /\ writer[w] \in WriterRow /\ n \in DraftNames
      /\ staging[w] \in StagingRow /\ staging = [staging EXCEPT ![w] = staging[w]]
      /\ staging[w].markdown = "whole" /\ staging[w].sidecar = "whole"
      /\ root \in {"absent", "directory", "link", "file"} /\ UNCHANGED <<corpus, root>>
  BY Restaged DEF F!Rename, F!At, DraftInv, DraftTyped, StagedSound
<1>2. CASE entry[n].kind \in {"absent", "empty directory"}
  <2>1. /\ published \in EntryRow /\ published.kind = "draft" /\ published.by = w
        /\ published.markdown = "whole" /\ published.sidecar = "whole"
    BY <1>1 DEF F!Published, EntryRow, Stage
  <2>2. first[n].kind = "absent"
    BY <1>1, <1>2 DEF DraftInv, PlacesSound
  <2>3. /\ entry' = [entry EXCEPT ![n] = published]
        /\ first' = [first EXCEPT ![n] = published]
        /\ staging' = [staging EXCEPT ![w] = F!Unstaged]
        /\ writer' = [writer EXCEPT ![w].at = "published"]
    BY <1>2, <2>2 DEF F!Rename, F!Goes
  <2> HIDE DEF published
  <2>4. /\ entry'[n] = published /\ first'[n] = published
        /\ \A m \in DraftNames \ {n} : entry'[m] = entry[m] /\ first'[m] = first[m]
        /\ staging'[w] = F!Unstaged /\ writer'[w].at = "published" /\ writer'[w].name = n
        /\ \A v \in Handlers \ {w} : staging'[v] = staging[v] /\ writer'[v] = writer[v]
    BY <1>1, <2>3 DEF DraftInv, DraftTyped, WriterRow
  <2>5. DraftTyped'
    <3>1. writer' \in [Handlers -> WriterRow]
      BY <1>1, <2>3 DEF DraftInv, DraftTyped, WriterRow
    <3>2. QED BY <1>1, <2>1, <2>3, <3>1, DraftTypes DEF DraftInv, DraftTyped
  <2>6. StagedSound'
    <3> SUFFICES ASSUME NEW v \in Handlers
                 PROVE  /\ writer'[v].at # "idle" => writer'[v].name \in DraftNames
                        /\ writer'[v].at \in {"idle", "root", "look", "stage", "refused"} =>
                               staging'[v] = F!Unstaged
                        /\ writer'[v].at \in {"sidecar", "rename"} => staging'[v].markdown = "whole"
                        /\ writer'[v].at = "rename" => staging'[v].sidecar = "whole"
                        /\ writer'[v].at = "published" =>
                               /\ entry'[writer'[v].name].kind = "draft"
                               /\ entry'[writer'[v].name].by = v
      BY DEF StagedSound, F!Unstaged
    <3>1. CASE v = w
      BY <1>1, <2>1, <2>4, <3>1
    <3>2. CASE v # w
      <4>1. /\ writer'[v] = writer[v] /\ staging'[v] = staging[v]
            /\ \/ writer[v].at # "published"
               \/ writer[v].name # n /\ writer[v].name \in DraftNames
        BY <1>2, <2>4, <3>2 DEF DraftInv, StagedSound
      <4>2. QED BY <2>4, <4>1 DEF DraftInv, StagedSound
    <3>3. QED BY <3>1, <3>2
  <2>7. PlacesSound'
    BY <2>1, <2>4 DEF DraftInv, PlacesSound
  <2>8. QED BY <2>5, <2>6, <2>7 DEF DraftInv
<1>3. CASE entry[n].kind \notin {"absent", "empty directory"}
  <2>1. F!Goes(w, "discard") /\ UNCHANGED <<entry, first, staging>>
    BY <1>3 DEF F!Rename
  <2>2. QED BY <1>1, <2>1, WriterGoes
<1>4. QED BY <1>2, <1>3

LEMMA OccupyInv ==
    ASSUME DraftInv, NEW n \in DraftNames, NEW what \in {"empty directory", "file"}, F!Occupy(n, what)
    PROVE  DraftInv'
<1>1. /\ entry[n].kind = "absent" /\ entry' = [entry EXCEPT ![n] = F!Entry(what)]
      /\ UNCHANGED <<corpus, root, staging, writer, first>>
  BY DEF F!Occupy
<1>2. F!Entry(what) \in EntryRow /\ F!Entry(what).kind = what
  BY DraftTypes
<1>3. /\ entry'[n].kind = what
      /\ \A m \in DraftNames \ {n} : entry'[m] = entry[m]
  BY <1>1, <1>2 DEF DraftInv, DraftTyped
<1>4. DraftTyped'
  BY <1>1, <1>2 DEF DraftInv, DraftTyped
<1>5. StagedSound'
  <2>1. ASSUME NEW v \in Handlers, writer[v].at = "published"
        PROVE  entry'[writer[v].name].kind = "draft" /\ entry'[writer[v].name].by = v
    <3>1. /\ entry[writer[v].name].kind = "draft" /\ entry[writer[v].name].by = v
          /\ writer[v].name \in DraftNames
      BY <2>1 DEF DraftInv, StagedSound
    <3>2. QED BY <1>1, <1>3, <3>1
  <2>2. writer' = writer /\ staging' = staging /\ StagedSound
    BY <1>1 DEF DraftInv
  <2>3. QED BY <2>1, <2>2 DEF StagedSound, F!Unstaged
<1>6. PlacesSound'
  <2> SUFFICES ASSUME NEW m \in DraftNames
               PROVE  /\ first[m].kind \in {"absent", "draft"}
                      /\ first[m].kind = "draft" => entry'[m] = first[m]
                      /\ entry'[m].kind = "draft" =>
                             /\ entry'[m].markdown = "whole" /\ entry'[m].sidecar = "whole"
                             /\ \A w \in Handlers : entry'[m].by = w => writer[w].at = "published"
    BY <1>1 DEF PlacesSound
  <2>1. CASE m = n
    <3>1. first[n].kind # "draft" /\ entry'[n].kind # "draft"
      BY <1>1, <1>3 DEF DraftInv, PlacesSound
    <3>2. QED BY <2>1, <3>1 DEF DraftInv, PlacesSound
  <2>2. CASE m # n
    <3>1. entry'[m] = entry[m]
      BY <1>3, <2>2
    <3>2. QED BY <3>1 DEF DraftInv, PlacesSound
  <2>3. QED BY <2>1, <2>2
<1>7. QED BY <1>4, <1>5, <1>6 DEF DraftInv

LEMMA DraftNext == DraftInv /\ [F!Next]_draftVars => DraftInv'
<1> SUFFICES ASSUME DraftInv, [F!Next]_draftVars PROVE DraftInv'
  OBVIOUS
<1>1. CASE UNCHANGED draftVars
  BY <1>1 DEF draftVars, DraftInv, DraftTyped, StagedSound, PlacesSound, F!Unstaged
<1>2. ASSUME NEW n \in DraftNames, NEW what \in {"empty directory", "file"}, F!Occupy(n, what)
      PROVE  DraftInv'
  BY <1>2, OccupyInv
<1>3. ASSUME NEW w \in Handlers, F!Publishes(w) PROVE DraftInv'
  BY <1>3, BuildInv, LooksInv, WritesInv, LeavesInv, RenameInv DEF F!Publishes, DraftNames
<1>4. QED BY <1>1, <1>2, <1>3 DEF F!Next, DraftNames

LEMMA DraftHolds == DraftInv => F!TypeOK /\ F!PublishedAsAPair /\ F!OutcomeIsOnDisk
<1> SUFFICES ASSUME DraftInv PROVE F!TypeOK /\ F!PublishedAsAPair /\ F!OutcomeIsOnDisk
  OBVIOUS
<1>1. F!TypeOK
  <2>1. \A n \in DraftNames : entry[n].kind \in {"absent", "empty directory", "file", "draft"}
    BY DEF DraftInv, DraftTyped, EntryRow
  <2>2. \A w \in Handlers : writer[w] \in WriterRow /\ staging[w] \in StagingRow
    BY DEF DraftInv, DraftTyped
  <2>3. \A w \in Handlers : {staging[w].markdown, staging[w].sidecar} \subseteq Stage
    BY <2>2 DEF StagingRow
  <2>4. QED BY <2>1, <2>2, <2>3 DEF DraftInv, DraftTyped, F!TypeOK, WriterRow, Stage, DraftNames
<1>2. F!PublishedAsAPair
  BY DEF DraftInv, PlacesSound, F!PublishedAsAPair, F!Drafts, DraftNames
<1>3. F!OutcomeIsOnDisk
  <2> SUFFICES ASSUME NEW w \in Handlers
               PROVE  /\ writer[w].at = "published" =>
                             writer[w].name \in F!Drafts /\ entry[writer[w].name].by = w
                      /\ writer[w].at = "refused" =>
                             staging[w] = F!Unstaged /\ \A n \in F!Drafts : entry[n].by # w
    BY DEF F!OutcomeIsOnDisk, F!At
  <2>1. F!Drafts = {n \in DraftNames : entry[n].kind = "draft"}
    BY DEF F!Drafts, DraftNames
  <2>2. writer[w].at = "published" => writer[w].name \in F!Drafts /\ entry[writer[w].name].by = w
    BY <2>1 DEF DraftInv, StagedSound
  <2>3. writer[w].at = "refused" => staging[w] = F!Unstaged /\ \A n \in F!Drafts : entry[n].by # w
    BY <2>1 DEF DraftInv, StagedSound, PlacesSound
  <2>4. QED BY <2>2, <2>3
<1>4. QED BY <1>1, <1>2, <1>3

-----------------------------------------------------------------------------
(* The guards of a week's runs: the module's own proof, for the rows, runs  *)
(* and incidents, the starts and the statements named here.                 *)

GP == INSTANCE GuardsProofs WITH Sessions <- Handlers, Rows <- MCRows, Runs <- MCRuns,
         Clusters <- MCClusters, Scenarios <- MCScenarios,
         Start <- MCStart, Statements <- MCStatements

\* The module proved about is the one that is checked.
LEMMA SameInit == G!Init <=> GP!Init
BY DEF G!Init, GP!Init, G!NoStatement, GP!NoStatement, G!Nothing, GP!Nothing, G!Output, GP!Output,
   G!StoredClustering, GP!StoredClustering

LEMMA SameSum == G!MapThenSumSet(LAMBDA x : db.sizes[x], MCClusters) = GP!MapThenSumSet(LAMBDA x : db.sizes[x], MCClusters)
BY DEF G!MapThenSumSet, GP!MapThenSumSet, G!MapThenFoldSet, GP!MapThenFoldSet

LEMMA SameLocks == ASSUME NEW q PROVE G!Locks(q) = GP!Locks(q)
BY DEF G!Locks, GP!Locks, G!ClassificationLocks, G!ClusteringLocks, G!LaterLocks,
 GP!ClassificationLocks, GP!ClusteringLocks, GP!LaterLocks, G!KeyShare, G!Share, G!NoKeyUpdate, G!ForUpdate,
 GP!KeyShare, GP!Share, GP!NoKeyUpdate, GP!ForUpdate

LEMMA SameWrite == ASSUME NEW q PROVE G!Write(q) = GP!Write(q)
BY DEF G!Write, GP!Write, G!Console, GP!Console, G!insertSourceRows, GP!insertSourceRows,
 G!freezeBatchSourceSet, GP!freezeBatchSourceSet,
 G!insertRunningClassificationRun, GP!insertRunningClassificationRun,
 G!insertClassificationResults, GP!insertClassificationResults,
 G!completeClassificationRun, GP!completeClassificationRun,
 G!insertRunningClusteringRun, GP!insertRunningClusteringRun,
 G!insertIncidentClusters, GP!insertIncidentClusters,
 G!insertIncidentMemberships, GP!insertIncidentMemberships,
 G!completeClusteringRun, GP!completeClusteringRun,
 G!insertIncidentClaim, GP!insertIncidentClaim,
 G!insertRunningEvidenceRun, GP!insertRunningEvidenceRun,
 G!insertEvidenceStates, GP!insertEvidenceStates,
 G!completeEvidenceRun, GP!completeEvidenceRun,
 G!insertWeekRunChild, GP!insertWeekRunChild,
 G!completeWeekRun, GP!completeWeekRun, G!Put, GP!Put, G!NoState, GP!NoState, G!Nothing, GP!Nothing

LEMMA SameSize == ASSUME NEW S PROVE G!Cardinality(S) = GP!Cardinality(S) /\ GP!Cardinality(S) = Cardinality(S)
BY DEF G!Cardinality, G!IsFiniteSet, GP!Cardinality, GP!IsFiniteSet, Cardinality, IsFiniteSet

LEMMA SameDerived ==
    /\ \A c : G!Stored(c) = GP!Stored(c) /\ G!Output(c) = GP!Output(c)
    /\ \A c, d : G!Of(c, d) = GP!Of(c, d)
    /\ G!Members = GP!Members /\ G!Present = GP!Present /\ G!Stated = GP!Stated
    /\ G!Corroborated = GP!Corroborated /\ G!StoredClustering = GP!StoredClustering
    /\ G!NoStatement = GP!NoStatement /\ G!NoState = GP!NoState
BY
  DEF G!Stored, GP!Stored, G!Output, GP!Output, G!Of, GP!Of, G!Members,
      GP!Members, G!Present, GP!Present, G!Stated, GP!Stated, G!Corroborated,
      GP!Corroborated, G!StoredClustering, GP!StoredClustering, G!NoStatement,
      GP!NoStatement, G!NoState, GP!NoState, G!Nothing, GP!Nothing

LEMMA SamePermitted == ASSUME NEW q PROVE G!Permitted(q) = GP!Permitted(q)
<1>1. G!OverCompleted(q) = GP!OverCompleted(q)
  BY DEF G!OverCompleted, GP!OverCompleted
<1>2. G!source_rows_freeze_guard(q) = GP!source_rows_freeze_guard(q)
  BY DEF G!source_rows_freeze_guard, GP!source_rows_freeze_guard
<1>3. G!SourceRowKeys(q) = GP!SourceRowKeys(q)
  BY SameDerived DEF G!SourceRowKeys, GP!SourceRowKeys, G!Nothing, GP!Nothing
<1>4. G!import_batch_freeze_guard(q) = GP!import_batch_freeze_guard(q)
  BY DEF G!import_batch_freeze_guard, GP!import_batch_freeze_guard
<1>5. G!classification_run_guard(q) = GP!classification_run_guard(q)
  BY SameDerived, SameSize DEF G!classification_run_guard, GP!classification_run_guard, G!Covers, GP!Covers
<1>6. G!classification_result_guard(q) = GP!classification_result_guard(q)
  BY DEF G!classification_result_guard, GP!classification_result_guard
<1>7. G!ResultKeys(q) = GP!ResultKeys(q)
  BY DEF G!ResultKeys, GP!ResultKeys, G!Nothing, GP!Nothing
<1>8. G!clustering_run_guard(q) = GP!clustering_run_guard(q)
  BY SameDerived, SameSize, SameSum DEF G!clustering_run_guard, GP!clustering_run_guard
<1>9. G!clustering_output_guard(q) = GP!clustering_output_guard(q)
  BY DEF G!clustering_output_guard, GP!clustering_output_guard
<1>10. G!MembershipKeys(q) = GP!MembershipKeys(q)
  BY DEF G!MembershipKeys, GP!MembershipKeys, G!Nothing, GP!Nothing
<1>11. G!incident_claims_membership_fk(q) = GP!incident_claims_membership_fk(q)
  BY DEF G!incident_claims_membership_fk, GP!incident_claims_membership_fk
<1>12. G!evidence_run_guard(q) = GP!evidence_run_guard(q)
  BY SameDerived, SameSize DEF G!evidence_run_guard, GP!evidence_run_guard
<1>13. G!evidence_output_guard(q) = GP!evidence_output_guard(q)
  BY DEF G!evidence_output_guard, GP!evidence_output_guard
<1>14. G!StateKeys(q) = GP!StateKeys(q)
  BY SameDerived DEF G!StateKeys, GP!StateKeys, G!evidence_claim_guard, GP!evidence_claim_guard
<1>15. G!week_run_guard(q) = GP!week_run_guard(q)
  BY DEF G!week_run_guard, GP!week_run_guard
<1>16. G!week_run_child_guard(q) = GP!week_run_child_guard(q)
  BY DEF G!week_run_child_guard, GP!week_run_child_guard
<1>17. QED
  BY <1>1, <1>2, <1>3, <1>4, <1>5, <1>6, <1>7, <1>8, <1>9, <1>10, <1>11,
     <1>12, <1>13, <1>14, <1>15, <1>16 DEF G!Permitted, GP!Permitted

LEMMA SameGranted == ASSUME NEW s, NEW q PROVE G!Granted(s, q) = GP!Granted(s, q)
BY SameLocks DEF G!Granted, GP!Granted

LEMMA SameNext == G!Next <=> GP!Next
<1>1. \A s, q : G!Begin(s, q) <=> GP!Begin(s, q)
  BY SamePermitted, SameGranted, SameDerived DEF G!Begin, GP!Begin
<1>2. \A s : G!Commit(s) <=> GP!Commit(s)
  BY SameWrite, SameDerived DEF G!Commit, GP!Commit
<1>3. \A s : G!Rollback(s) <=> GP!Rollback(s)
  BY SameDerived DEF G!Rollback, GP!Rollback
<1>4. QED BY <1>1, <1>2, <1>3 DEF G!Next, GP!Next

LEMMA SameClaims ==
    /\ G!CompletedRunCovers <=> GP!CompletedRunCovers
    /\ G!ChainHolds <=> GP!ChainHolds
    /\ G!CompletedKeepsOutput <=> GP!CompletedKeepsOutput
    /\ G!TypeOK <=> GP!TypeOK
<1>1. G!CompletedRunCovers <=> GP!CompletedRunCovers
  BY SameDerived, SameSize DEF G!CompletedRunCovers, GP!CompletedRunCovers
<1>2. G!ChainHolds <=> GP!ChainHolds
  BY SameDerived, SameSize DEF G!ChainHolds, GP!ChainHolds
<1>3. G!CompletedKeepsOutput <=> GP!CompletedKeepsOutput
  BY SameDerived DEF G!CompletedKeepsOutput, GP!CompletedKeepsOutput
<1>4. G!TypeOK <=> GP!TypeOK
  BY SameDerived, SameSize DEF G!TypeOK, GP!TypeOK, G!Database, GP!Database, G!Statuses, GP!Statuses,
     G!Decisions, GP!Decisions, G!Nothing, GP!Nothing
<1>5. QED BY <1>1, <1>2, <1>3, <1>4

LEMMA TwoRows == IsFiniteSet({1, 2}) /\ Cardinality({1, 2}) = 2
<1>1. IsFiniteSet({1}) /\ Cardinality({1}) = 1
  BY FS_Singleton
<1>2. {1, 2} = {1} \cup {2} /\ 2 \notin {1}
  OBVIOUS
<1>3. IsFiniteSet({1} \cup {2}) /\ Cardinality({1} \cup {2}) = Cardinality({1}) + 1
  BY <1>1, <1>2, FS_AddElement
<1>4. QED BY <1>1, <1>2, <1>3

\* What is issued is statements of these rows, runs and incidents.
LEMMA StatementsIssued ==
    ASSUME NEW n \in MCScenarios
    PROVE  MCStatements[n] \subseteq GP!Statement
<1>1. GP!Cardinality(MCRows) = 2
  BY TwoRows, SameSize DEF MCRows
<1>2. MCImport \subseteq GP!Statement
  <2>1. [op : GP!RowWriters, row : MCRows] \cup [op : GP!FreezeWriters] \subseteq GP!Statement
    BY Zenon DEF GP!Statement
  <2>2. MCImport \subseteq [op : GP!RowWriters, row : MCRows] \cup [op : GP!FreezeWriters]
    BY DEF MCImport, GP!RowWriters, GP!FreezeWriters
  <2>3. QED BY <2>1, <2>2
<1>3. ASSUME NEW ids \in SUBSET MCRuns, NEW verdicts \in SUBSET {"include", "exclude"}
      PROVE  MCClassify(ids, verdicts) \subseteq GP!Statement
  <2> DEFINE Opens == [op : {"insertRunningClassificationRun", "delete run", "insertRunningClusteringRun"}, run : MCRuns]
             Ends == [op : {"completeClassificationRun"}, run : MCRuns, included : Nat]
             Adds == [op : {"insertClassificationResults"}, run : MCRuns, row : MCRows, decision : GP!Decisions]
             Takes == [op : {"delete result"}, run : MCRuns, row : MCRows]
  <2>1. Opens \cup Ends \cup Adds \cup Takes \subseteq GP!Statement
    BY Zenon DEF GP!Statement
  <2>2. /\ [op : {"insertRunningClassificationRun", "delete run"}, run : ids] \subseteq Opens
        /\ [op : {"insertClassificationResults"}, run : ids, row : MCRows, decision : verdicts] \subseteq Adds
        /\ [op : {"delete result"}, run : ids, row : MCRows] \subseteq Takes
        /\ [op : {"completeClassificationRun"}, run : ids, included : 0..2] \subseteq Ends
    <3>1. [op : {"insertRunningClassificationRun", "delete run"}, run : ids] \subseteq Opens
      BY DEF GP!Decisions
    <3>2. [op : {"insertClassificationResults"}, run : ids, row : MCRows, decision : verdicts] \subseteq Adds
      BY DEF GP!Decisions
    <3>3. [op : {"delete result"}, run : ids, row : MCRows] \subseteq Takes
      BY DEF GP!Decisions
    <3>4. [op : {"completeClassificationRun"}, run : ids, included : 0..2] \subseteq Ends
      BY DEF GP!Decisions
    <3>5. QED BY <3>1, <3>2, <3>3, <3>4
  <2> HIDE DEF Opens, Ends, Adds, Takes
  <2>3. QED BY Zenon, <2>1, <2>2 DEF MCClassify
<1>4. MCMoves \subseteq GP!Statement
  <2> DEFINE Moves == [op : {"move result"}, run : MCRuns, to : MCRuns, row : MCRows]
  <2>1. Moves \subseteq GP!Statement
    BY Zenon DEF GP!Statement
  <2>2. MCMoves \subseteq Moves
    BY DEF MCMoves, MCRuns
  <2>3. QED BY <2>1, <2>2
<1>5. MCCluster \subseteq GP!Statement
  <2> DEFINE Opens == [op : {"insertRunningClassificationRun", "delete run", "insertRunningClusteringRun"}, run : MCRuns]
             Ends == [op : {"completeClusteringRun"}, incidents : Nat]
             Adds == [op : {"insertIncidentClusters"}, incident : MCClusters, size : 1..2]
             Takes == [op : {"delete incident", "delete state"}, incident : MCClusters]
             Puts == [op : {"insertIncidentMemberships", "insertIncidentClaim"}, incident : MCClusters, row : MCRows]
             Leaves == [op : {"delete membership"}, row : MCRows]
  <2>1. Opens \cup Ends \cup Adds \cup Takes \cup Puts \cup Leaves \subseteq GP!Statement
    BY <1>1, Zenon DEF GP!Statement
  <2>2. /\ [op : {"insertRunningClusteringRun"}, run : {1}] \subseteq Opens
        /\ [op : {"insertIncidentClusters"}, incident : MCClusters, size : 1..2] \subseteq Adds
        /\ [op : {"delete incident"}, incident : MCClusters] \subseteq Takes
        /\ [op : {"insertIncidentMemberships"}, incident : MCClusters, row : MCRows] \subseteq Puts
        /\ [op : {"delete membership"}, row : MCRows] \subseteq Leaves
        /\ [op : {"completeClusteringRun"}, incidents : 0..2] \subseteq Ends
    <3>1. [op : {"insertRunningClusteringRun"}, run : {1}] \subseteq Opens
      BY DEF MCRuns
    <3>2. [op : {"insertIncidentClusters"}, incident : MCClusters, size : 1..2] \subseteq Adds
      BY DEF MCRuns
    <3>3. [op : {"delete incident"}, incident : MCClusters] \subseteq Takes
      BY DEF MCRuns
    <3>4. [op : {"insertIncidentMemberships"}, incident : MCClusters, row : MCRows] \subseteq Puts
      BY DEF MCRuns
    <3>5. [op : {"delete membership"}, row : MCRows] \subseteq Leaves
      BY DEF MCRuns
    <3>6. [op : {"completeClusteringRun"}, incidents : 0..2] \subseteq Ends
      BY DEF MCRuns
    <3>7. QED BY <3>1, <3>2, <3>3, <3>4, <3>5, <3>6
  <2> HIDE DEF Opens, Ends, Adds, Takes, Puts, Leaves
  <2>3. QED BY Zenon, <2>1, <2>2 DEF MCCluster
<1>6. MCEvidence \subseteq GP!Statement
  <2> DEFINE Opens == [op : {"insertRunningEvidenceRun", "completeWeekRun"}]
             Ends == [op : {"completeEvidenceRun"}, corroborated : Nat]
             Adds == [op : {"insertEvidenceStates"}, incident : MCClusters, kind : {"reported", "corroborated"},
                      row : MCRows \cup {0}]
             Takes == [op : {"delete incident", "delete state"}, incident : MCClusters]
             Rests == [op : {"insertIncidentMemberships", "insertIncidentClaim"}, incident : MCClusters, row : MCRows]
  <2>1. Opens \cup Ends \cup Adds \cup Takes \cup Rests \subseteq GP!Statement
    BY Zenon DEF GP!Statement
  <2>2. /\ [op : {"insertRunningEvidenceRun"}] \subseteq Opens
        /\ [op : {"insertIncidentClaim"}, incident : MCClusters, row : MCRows] \subseteq Rests
        /\ [op : {"insertEvidenceStates"}, incident : MCClusters, kind : {"reported"}, row : {0}] \subseteq Adds
        /\ [op : {"insertEvidenceStates"}, incident : MCClusters, kind : {"corroborated"}, row : MCRows] \subseteq Adds
        /\ [op : {"delete state"}, incident : MCClusters] \subseteq Takes
        /\ [op : {"completeEvidenceRun"}, corroborated : 0..2] \subseteq Ends
    <3>1. [op : {"insertRunningEvidenceRun"}] \subseteq Opens
      OBVIOUS
    <3>2. [op : {"insertIncidentClaim"}, incident : MCClusters, row : MCRows] \subseteq Rests
      OBVIOUS
    <3>3. [op : {"insertEvidenceStates"}, incident : MCClusters, kind : {"reported"}, row : {0}] \subseteq Adds
      OBVIOUS
    <3>4. [op : {"insertEvidenceStates"}, incident : MCClusters, kind : {"corroborated"}, row : MCRows] \subseteq Adds
      OBVIOUS
    <3>5. [op : {"delete state"}, incident : MCClusters] \subseteq Takes
      OBVIOUS
    <3>6. [op : {"completeEvidenceRun"}, corroborated : 0..2] \subseteq Ends
      OBVIOUS
    <3>7. QED BY <3>1, <3>2, <3>3, <3>4, <3>5, <3>6
  <2> HIDE DEF Opens, Ends, Adds, Takes, Rests
  <2>3. QED BY Zenon, <2>1, <2>2 DEF MCEvidence
<1>7. MCWeek \subseteq GP!Statement
  <2> DEFINE Adds == [op : {"insertWeekRunChild"}, child : {"classification", "clustering"}]
             Ends == [op : {"insertRunningEvidenceRun", "completeWeekRun"}]
  <2>1. Adds \cup Ends \subseteq GP!Statement
    BY Zenon DEF GP!Statement
  <2>2. [op : {"completeWeekRun"}] \subseteq Ends
    OBVIOUS
  <2> HIDE DEF Ends
  <2>3. QED BY Zenon, <2>1, <2>2 DEF MCWeek
<1>8. /\ MCClassify({1}, {"include", "exclude"}) \subseteq GP!Statement
      /\ MCClassify({1, 2}, {"include"}) \subseteq GP!Statement
  BY <1>3 DEF MCRuns
<1>9. QED
  BY <1>2, <1>4, <1>5, <1>6, <1>7, <1>8 DEF MCStatements, MCScenarios

LEMMA MCGuardsParameters == GP!GuardsParameters
<1>1. IsFiniteSet({"x", "y"})
  <2>1. IsFiniteSet({"x"} \cup {"y"})
    BY FS_Singleton, FS_Union
  <2>2. QED BY <2>1
<1>2. GP!IsFiniteSet(MCRows) /\ GP!IsFiniteSet(MCClusters)
  BY <1>1, TwoRows DEF GP!IsFiniteSet, IsFiniteSet, MCRows, MCClusters
<1>3. GP!Nothing \notin MCClusters /\ 0 \notin MCRuns
  BY DEF GP!Nothing, MCClusters, MCRuns
<1>4. QED BY <1>2, <1>3, StatementsIssued DEF GP!GuardsParameters

\* What each start holds.
LEMMA EmptyIs ==
    /\ MCEmpty \in GP!Database
    /\ MCEmpty.rows = {} /\ MCEmpty.frozen = FALSE
    /\ \A c \in MCRuns : MCEmpty.runs[c].status = "absent" /\ \A r \in MCRows : MCEmpty.results[c][r] = "none"
    /\ MCEmpty.clustering.status = "absent" /\ MCEmpty.evidence.status = "absent"
    /\ \A r \in MCRows : MCEmpty.member[r] = "none"
    /\ MCEmpty.claims = {}
    /\ \A x \in MCClusters : MCEmpty.states[x] = GP!NoState
<1>1. GP!Cardinality(MCRows) = 2
  BY TwoRows, SameSize DEF MCRows
<1>2. MCEmpty \in GP!Database
  BY <1>1 DEF MCEmpty, GP!Database, GP!Statuses, GP!Decisions, GP!Nothing
<1>3. QED BY <1>2 DEF MCEmpty, GP!NoState, GP!Nothing

LEMMA FrozenIs ==
    /\ MCFrozen \in GP!Database
    /\ MCFrozen.rows = MCRows /\ MCFrozen.frozen = TRUE
    /\ MCFrozen.runs = MCEmpty.runs /\ MCFrozen.results = MCEmpty.results
    /\ MCFrozen.clustering = MCEmpty.clustering /\ MCFrozen.evidence = MCEmpty.evidence
    /\ MCFrozen.sizes = MCEmpty.sizes /\ MCFrozen.member = MCEmpty.member
    /\ MCFrozen.claims = MCEmpty.claims /\ MCFrozen.states = MCEmpty.states
BY EmptyIs DEF MCFrozen, GP!Database

\* A batch that was classified, and one that was clustered beyond it.
Classified(d, included) ==
    /\ d.rows = MCRows /\ d.frozen = TRUE
    /\ d.runs[1] = [status |-> "completed", included |-> Cardinality(included)]
    /\ d.runs[2] = MCEmpty.runs[2]
    /\ \A r \in MCRows : d.results[1][r] = IF r \in included THEN "include" ELSE "exclude"
    /\ d.claims = {} /\ d.evidence.status = "absent" /\ \A x \in MCClusters : d.states[x] = GP!NoState

LEMMA ClassifiedIs ==
    ASSUME NEW included \in SUBSET MCRows
    PROVE  /\ MCClassified(included) \in GP!Database
           /\ Classified(MCClassified(included), included)
           /\ MCClassified(included).clustering = MCEmpty.clustering
           /\ MCClassified(included).member = MCEmpty.member
<1> DEFINE d == MCClassified(included)
           run == [status |-> "completed", included |-> Cardinality(included)]
           found == [r \in MCRows |-> IF r \in included THEN "include" ELSE "exclude"]
           v == [MCFrozen.runs EXCEPT ![1] = run]
           w == [MCFrozen.results EXCEPT ![1] = found]
           e == [MCFrozen EXCEPT !.runs = v]
<1>1. Cardinality(included) \in Nat
  <2>1. IsFiniteSet(included)
    BY TwoRows, FS_Subset DEF MCRows
  <2>2. QED BY <2>1, FS_CardinalityType
<1>2. run \in [status : GP!Statuses, included : Nat] /\ found \in [MCRows -> GP!Decisions \cup {GP!Nothing}]
  BY <1>1 DEF GP!Statuses, GP!Decisions
<1>3. /\ MCFrozen.runs \in [MCRuns -> [status : GP!Statuses, included : Nat]]
      /\ MCFrozen.results \in [MCRuns -> [MCRows -> GP!Decisions \cup {GP!Nothing}]]
  BY FrozenIs DEF GP!Database
<1>4. d = [e EXCEPT !.results = w]
  BY FrozenIs DEF MCClassified, GP!Database
<1>5. \A r \in MCRows : found[r] = IF r \in included THEN "include" ELSE "exclude"
  OBVIOUS
<1>6. run.status = "completed" /\ run.included = Cardinality(included)
  OBVIOUS
<1> HIDE DEF run, found
<1>7. /\ v \in [MCRuns -> [status : GP!Statuses, included : Nat]] /\ v[1] = run /\ v[2] = MCFrozen.runs[2]
      /\ w \in [MCRuns -> [MCRows -> GP!Decisions \cup {GP!Nothing}]] /\ w[1] = found /\ w[2] = MCFrozen.results[2]
  BY <1>2, <1>3 DEF MCRuns
<1> HIDE DEF v, w
<1>8. /\ e \in GP!Database /\ e.runs = v /\ e.rows = MCFrozen.rows /\ e.frozen = MCFrozen.frozen
      /\ e.clustering = MCFrozen.clustering /\ e.evidence = MCFrozen.evidence
      /\ e.sizes = MCFrozen.sizes /\ e.member = MCFrozen.member
      /\ e.claims = MCFrozen.claims /\ e.states = MCFrozen.states
  BY FrozenIs, <1>7 DEF GP!Database
<1> HIDE DEF e
<1>9. /\ d \in GP!Database /\ d.runs = v /\ d.results = w
      /\ d.rows = e.rows /\ d.frozen = e.frozen
      /\ d.clustering = e.clustering /\ d.evidence = e.evidence
      /\ d.sizes = e.sizes /\ d.member = e.member
      /\ d.claims = e.claims /\ d.states = e.states
  <2> HIDE DEF d
  <2>1. QED BY <1>4, <1>7, <1>8 DEF GP!Database
<1> HIDE DEF d
<1>10. Classified(d, included)
  BY <1>5, <1>7, <1>8, <1>9, EmptyIs, FrozenIs DEF run, Classified
<1>11. d \in GP!Database /\ d.clustering = MCEmpty.clustering /\ d.member = MCEmpty.member
  BY <1>8, <1>9, FrozenIs
<1>12. QED BY <1>10, <1>11 DEF d

Clustered(d) ==
    /\ Classified(d, MCRows)
    /\ d.clustering = [status |-> "completed", of |-> 1, incidents |-> 2]
    /\ \A x \in MCClusters : d.sizes[x] = 1
    /\ d.member[1] = "x" /\ d.member[2] = "y"

LEMMA ClusteredIs == MCClustered \in GP!Database /\ Clustered(MCClustered)
<1> DEFINE d == MCClustered
           e == MCClassified(MCRows)
           c == [status |-> "completed", of |-> 1, incidents |-> 2]
           v == [x \in MCClusters |-> 1]
           m == [r \in MCRows |-> IF r = 1 THEN "x" ELSE "y"]
<1>1. GP!Cardinality(MCRows) = 2
  BY TwoRows, SameSize DEF MCRows
<1>2. /\ c \in [status : GP!Statuses, of : MCRuns \cup {0}, incidents : Nat]
      /\ v \in [MCClusters -> 0..GP!Cardinality(MCRows)]
      /\ m \in [MCRows -> MCClusters \cup {GP!Nothing}]
  BY <1>1 DEF MCRuns, MCClusters, GP!Statuses
<1>3. (\A x \in MCClusters : v[x] = 1) /\ m[1] = "x" /\ m[2] = "y"
  BY DEF MCRows
<1>4. e \in GP!Database /\ Classified(e, MCRows)
  BY ClassifiedIs
<1>5. d = [[[e EXCEPT !.clustering = c] EXCEPT !.sizes = v] EXCEPT !.member = m]
  BY <1>4 DEF MCClustered, GP!Database
<1> HIDE DEF c, v, m, e
<1> DEFINE f == [e EXCEPT !.clustering = c]
           g == [f EXCEPT !.sizes = v]
<1>6. /\ f \in GP!Database /\ f.clustering = c
      /\ f.rows = e.rows /\ f.frozen = e.frozen /\ f.runs = e.runs /\ f.results = e.results
      /\ f.claims = e.claims /\ f.evidence = e.evidence /\ f.states = e.states
  BY <1>2, <1>4 DEF GP!Database
<1> HIDE DEF f
<1>7. /\ g \in GP!Database /\ g.clustering = c /\ g.sizes = v
      /\ g.rows = e.rows /\ g.frozen = e.frozen /\ g.runs = e.runs /\ g.results = e.results
      /\ g.claims = e.claims /\ g.evidence = e.evidence /\ g.states = e.states
  BY <1>2, <1>6 DEF GP!Database
<1>8. d = [g EXCEPT !.member = m]
  BY <1>5 DEF f
<1> HIDE DEF g, d
<1>9. /\ d \in GP!Database /\ d.clustering = c /\ d.sizes = v /\ d.member = m
      /\ d.rows = e.rows /\ d.frozen = e.frozen /\ d.runs = e.runs /\ d.results = e.results
      /\ d.claims = e.claims /\ d.evidence = e.evidence /\ d.states = e.states
  BY <1>2, <1>7, <1>8 DEF GP!Database
<1>10. Clustered(d)
  BY <1>3, <1>4, <1>9 DEF c, Clustered, Classified
<1>11. QED BY <1>9, <1>10 DEF d

\* Every start is sound.
LEMMA StartsSound ==
    ASSUME scenario \in MCScenarios, db = MCStart[scenario]
    PROVE  GP!Sound
<1> USE DEF GP!NoState, GP!Nothing
<1>1. CASE db = MCEmpty
  <2>1. GP!Present \subseteq MCClusters /\ GP!Stated = {} /\ db \in GP!Database
    BY <1>1, EmptyIs DEF GP!Present, GP!Stated
  <2>2. GP!CompletedRunCovers
    BY <1>1, EmptyIs DEF GP!CompletedRunCovers
  <2>3. GP!ClusteringSound
    BY <1>1, EmptyIs DEF GP!ClusteringSound
  <2>4. GP!EvidenceStands
    BY <1>1, <2>1, EmptyIs DEF GP!EvidenceStands
  <2>5. QED BY <2>1, <2>2, <2>3, <2>4 DEF GP!Sound
<1>2. CASE db = MCFrozen
  <2>1. GP!Stated = {} /\ db \in GP!Database
    BY <1>2, EmptyIs, FrozenIs DEF GP!Stated
  <2>2. GP!CompletedRunCovers
    BY <1>2, EmptyIs, FrozenIs DEF GP!CompletedRunCovers
  <2>3. GP!ClusteringSound
    BY <1>2, EmptyIs, FrozenIs DEF GP!ClusteringSound
  <2>4. GP!EvidenceStands
    BY <1>2, <2>1, EmptyIs, FrozenIs DEF GP!EvidenceStands
  <2>5. QED BY <2>1, <2>2, <2>3, <2>4 DEF GP!Sound
<1>3. ASSUME NEW included \in SUBSET MCRows, Classified(db, included)
      PROVE  GP!CompletedRunCovers /\ GP!Of(1, "include") = included /\ GP!Stated = {}
  <2>1. GP!Stored(1) = MCRows
    BY <1>3 DEF GP!Stored, Classified
  <2>2. GP!Of(1, "include") = included
    BY <1>3 DEF GP!Of, Classified
  <2>3. db.runs[2].status = "absent"
    BY <1>3, EmptyIs DEF MCRuns, Classified
  <2>4. GP!Cardinality(included) = Cardinality(included)
    BY SameSize
  <2>5. GP!CompletedRunCovers
    BY <1>3, <2>1, <2>2, <2>3, <2>4 DEF GP!CompletedRunCovers, MCRuns, Classified
  <2>6. GP!Stated = {}
    BY <1>3 DEF GP!Stated, Classified
  <2>7. QED BY <2>2, <2>5, <2>6
<1>4. ASSUME NEW included \in SUBSET MCRows, db = MCClassified(included)
      PROVE  GP!Sound
  <2>1. Classified(db, included) /\ db \in GP!Database
    BY <1>4, ClassifiedIs
  <2>2. db.clustering.status = "absent" /\ \A r \in MCRows : db.member[r] = "none"
    BY <1>4, EmptyIs, ClassifiedIs
  <2>3. GP!CompletedRunCovers /\ GP!Stated = {}
    BY <1>3, <2>1
  <2>4. GP!ClusteringSound
    BY <2>1, <2>2 DEF GP!ClusteringSound, Classified
  <2>5. GP!EvidenceStands
    BY <2>1, <2>3 DEF GP!EvidenceStands, Classified
  <2>6. QED BY <2>1, <2>3, <2>4, <2>5 DEF GP!Sound
<1>5. CASE db = MCClustered
  <2>1. Clustered(db) /\ Classified(db, MCRows) /\ db \in GP!Database
    BY <1>5, ClusteredIs DEF Clustered
  <2>2. GP!CompletedRunCovers /\ GP!Of(1, "include") = MCRows /\ GP!Stated = {}
    <3>1. MCRows \in SUBSET MCRows
      OBVIOUS
    <3>2. QED BY <1>3, <2>1, <3>1
  <2>3. GP!Present = MCClusters /\ GP!Members = MCRows
    BY <2>1 DEF GP!Present, GP!Members, MCRows, MCClusters, Clustered
  <2>4. GP!Cardinality(MCClusters) = 2
    <3>1. IsFiniteSet({"x"}) /\ Cardinality({"x"}) = 1
      BY FS_Singleton
    <3>2. {"x", "y"} = {"x"} \cup {"y"} /\ "y" \notin {"x"}
      OBVIOUS
    <3>3. Cardinality({"x"} \cup {"y"}) = Cardinality({"x"}) + 1
      BY <3>1, <3>2, FS_AddElement
    <3>4. QED BY <3>1, <3>2, <3>3, SameSize DEF MCClusters
  <2>5. GP!ClusteringSound
    <3>1. db.clustering = [status |-> "completed", of |-> 1, incidents |-> 2] /\ db.claims = {}
      BY <2>1 DEF Clustered, Classified
    <3>2. db.runs[1].status = "completed"
      BY <2>1 DEF Classified
    <3>3. \A r \in MCRows : db.member[r] \in MCClusters
      BY <2>1 DEF MCRows, MCClusters, Clustered
    <3>4. QED BY <2>2, <2>3, <2>4, <3>1, <3>2, <3>3 DEF GP!ClusteringSound, MCRuns
  <2>6. GP!EvidenceStands
    BY <2>1, <2>2 DEF GP!EvidenceStands, Classified
  <2>7. QED BY <2>1, <2>2, <2>5, <2>6 DEF GP!Sound
<1>6. db \in {MCEmpty, MCFrozen, MCClassified(MCRows), MCClassified({1}), MCClustered}
  BY DEF MCStart, MCScenarios
<1>7. {1} \subseteq MCRows
  BY DEF MCRows
<1>8. QED BY <1>1, <1>2, <1>4, <1>5, <1>6, <1>7

-----------------------------------------------------------------------------
(* The parts run beside each other: each steps as its own module allows, or *)
(* stays.                                                                   *)

LEMMA PartSteps ==
    ASSUME [MCNext]_<<part, vars, incidentVars, evidenceVars, editingVars, guardVars, draftVars>>
    PROVE  /\ [Next]_vars
           /\ [I!Next]_incidentVars
           /\ [D!Next]_editingVars
           /\ [V!Next]_evidenceVars
           /\ [F!Next]_draftVars
           /\ [G!Next]_guardVars
BY DEF MCNext, vars, incidentVars, editingVars, evidenceVars, draftVars, guardVars

-----------------------------------------------------------------------------
\* The text is written from a reading of the account that asked, in force and
\* of exactly the selected rows, after a paid and recorded call, and no edit
\* lies over one its author did not see (generateArticle, saveArticleRevision).
THEOREM ArticleSoundness == MCSpec => []ArticleSound
<1>1. MCInit => ArticleInv
  BY ArticleInit DEF MCInit
<1>2. ArticleInv /\ [MCNext]_<<part, vars, incidentVars, evidenceVars, editingVars, guardVars, draftVars>>
      => ArticleInv'
  BY PartSteps, ArticleNext
<1>3. ArticleInv => ArticleSound
  BY DEF ArticleInv
<1>4. QED BY <1>1, <1>2, <1>3, PTL DEF MCSpec

\* Every state of the article, its readings and its requests is well formed.
THEOREM ArticleTypeCorrect == Spec => []TypeOK
<1>1. ArticleInv => TypeOK
  BY DEF ArticleInv
<1>2. QED BY <1>1, ArticleInit, ArticleNext, PTL DEF Spec

\* An action that declared the revision it was made from was recorded on that
\* revision, and what was asked for twice is recorded once (assertDeclaredRevision,
\* actionKey); no draft revision lies over one its author did not see, and a
\* selection's history has no gap and no fork (saveDraftRevision, selectStory).
THEOREM ActsOnce == MCSpec => []ActsOnWhatItSaw
<1>1. MCInit => IncidentsInv /\ EditingInv
  BY IncidentsInit, EditingInit DEF MCInit
<1>2. IncidentsInv /\ EditingInv /\ [MCNext]_<<part, vars, incidentVars, evidenceVars, editingVars, guardVars, draftVars>>
      => IncidentsInv' /\ EditingInv'
  BY PartSteps, IncidentsNext, EditingNext
<1>3. IncidentsInv /\ EditingInv => ActsOnWhatItSaw
  BY DEF IncidentsInv, EditingInv, ActsOnWhatItSaw
<1>4. QED BY <1>1, <1>2, <1>3, PTL DEF MCSpec

\* Whatever is asked together, late or twice, the memberships stay divided into
\* incidents, and an action joins incidents whole or takes a part out of one
\* (mergeIncidents, splitIncident, replay).
THEOREM GroupingRefinement == MCSpec => ImplementsGrouping
<1>1. MCInit => IncidentsInv /\ I!Abstract!Init
  BY IncidentsInit, GroupingInit DEF MCInit
<1>2. IncidentsInv /\ [MCNext]_<<part, vars, incidentVars, evidenceVars, editingVars, guardVars, draftVars>>
      => IncidentsInv' /\ [I!Abstract!Next]_GroupingParts
  BY PartSteps, IncidentsNext, GroupingNext
<1>3. QED BY <1>1, <1>2, PTL
         DEF MCSpec, ImplementsGrouping, I!ImplementsGrouping, I!Abstract!Spec, GroupingParts

LEMMA MCGuardsInit == MCInit => GP!Inv
<1> SUFFICES ASSUME MCInit PROVE GP!Inv
  OBVIOUS
<1>1. GP!Init
  BY SameInit DEF MCInit
<1>2. scenario \in MCScenarios /\ db = MCStart[scenario]
  BY <1>1 DEF GP!Init
<1>3. GP!Sound
  BY <1>2, StartsSound
<1>4. QED BY <1>1, <1>3, MCGuardsParameters, GP!GuardsInit

LEMMA MCGuardsNext == GP!Inv /\ [G!Next]_guardVars => GP!Inv'
<1>1. [G!Next]_guardVars => [GP!Next]_(GP!guardVars)
  BY SameNext DEF guardVars, GP!guardVars
<1>2. QED BY <1>1, MCGuardsParameters, GP!GuardsNext

LEMMA MCGuardsHold ==
    GP!Inv => G!TypeOK /\ G!CompletedRunCovers /\ G!ChainHolds /\ G!CompletedKeepsOutput
BY MCGuardsParameters, GP!GuardsHold, SameClaims

\* The parts of the evidence, together.
AllEvidence == EvidenceInv /\ DraftInv /\ GP!Inv

LEMMA AllEvidenceInit == MCInit => AllEvidence
BY EvidenceInit, DraftInit, MCGuardsInit DEF MCInit, AllEvidence

LEMMA AllEvidenceNext == AllEvidence /\ [MCNext]_<<part, vars, incidentVars, evidenceVars, editingVars, guardVars, draftVars>> => AllEvidence'
BY PartSteps, EvidenceNext, DraftNext, MCGuardsNext DEF AllEvidence

\* A resolution answers with every decision recorded before it, nothing is
\* corroborated without a person, completed runs stand on one another and keep what
\* they held, and a draft is published whole or not at all (resolveEvidence,
\* decideAssociation, the guards of the migrations, publishDraft).
THEOREM EvidenceSoundness == MCSpec => []EvidenceSound
<1>1. AllEvidence => EvidenceSound
  BY EvidenceHolds, DraftHolds, MCGuardsHold DEF AllEvidence, EvidenceSound
<1>2. QED BY <1>1, AllEvidenceInit, AllEvidenceNext, PTL DEF MCSpec

\* Every state of the six is well formed; the lists of editors, decisions, runs and
\* actions stay within their limits, however many are appended at once.
THEOREM AllWellFormed == MCSpec => []WellFormed
<1> DEFINE All == ArticleInv /\ IncidentsInv /\ EditingInv /\ AllEvidence
<1>1. MCInit => All
  BY ArticleInit, IncidentsInit, EditingInit, AllEvidenceInit DEF MCInit
<1>2. All /\ [MCNext]_<<part, vars, incidentVars, evidenceVars, editingVars, guardVars, draftVars>> => All'
  BY PartSteps, ArticleNext, IncidentsNext, EditingNext, AllEvidenceNext
<1>3. All => WellFormed
  BY EvidenceHolds, DraftHolds, MCGuardsHold
     DEF ArticleInv, IncidentsInv, EditingInv, AllEvidence, EvidenceInv, WellFormed
<1>4. QED BY <1>1, <1>2, <1>3, PTL DEF MCSpec
=============================================================================
