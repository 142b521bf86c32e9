-------------------------- MODULE JudgeReadsProofs --------------------------
(***************************************************************************)
(* Proofs about JudgeTables and JudgeReads, for any numbers of rows,       *)
(* judges, statements and pages, while clients and judges write: the times *)
(* of verdicts and the answers to the judge; what a request that reads in  *)
(* several statements shows; and what a replacement of a domain reaches.   *)
(***************************************************************************)
EXTENDS JudgeReads, FiniteSetTheorems, SequenceTheorems, WellFoundedInduction, TLAPS

\* What a statement may do.
Op == {"create", "byHand", "edit", "retime", "delete", "judge"}

\* Rows hold what was sent of them; their texts and times are not bounded here.
AnyRow == [key : Keys \cup {Null}, of : Owners, kind : Kinds(entity), at : Nat,
           judged : Nat \cup {Null}, text : Nat]

TypeOK ==
  /\ entity \in Entities
  /\ now \in Nat
  /\ table = [i \in Ids |-> table[i]]
  /\ \A i \in Ids : table[i] # NoRow => table[i] \in AnyRow
  /\ written \in Seq([op : Op, ids : SUBSET Ids])
  /\ upd = [u \in Updaters |-> upd[u]]

\* What no client has edited has been submitted, and judged since.
TimeOK(i) ==
  i \notin ByHand =>
    /\ table[i].at <= now
    /\ table[i].judged # Null => table[i].judged \in table[i].at .. now
    /\ table[i].kind \in Final => table[i].judged # Null

TimesOK == entity = "submissions" => \A i \in Rows(table) : TimeOK(i)

\* While no other statement has written, every row with the submission_id is as
\* its UPDATE has left it, and there is one.
Own(u) ==
  /\ \E i \in Rows(table) : table[i].key = upd[u].key
  /\ \A i \in Rows(table) : table[i].key = upd[u].key => table[i].kind = upd[u].status

UpdateOK(u) ==
  /\ upd[u].pc = "find" =>
       /\ upd[u].from \in 1 .. Len(written)
       /\ upd[u].from = Len(written) => Own(u)
  /\ (upd[u].pc = "answered" /\ upd[u].from = upd[u].to) =>
       upd[u].answer # NoRow /\ upd[u].answer.key = upd[u].key /\ upd[u].answer.kind = upd[u].status

UpdatesOK == \A u \in Updaters : UpdateOK(u)

TInv == TypeOK /\ TimesOK /\ UpdatesOK

-----------------------------------------------------------------------------
(* What is true of the request that reads *)

Shape ==
  CASE reader.what = "replace" ->
         [what |-> "replace", pc |-> reader.pc, start |-> reader.start, from |-> reader.from,
          page |-> reader.page, next |-> reader.next, data |-> reader.data, index |-> reader.index]
    [] reader.what = "replaceMongo" ->
         [what |-> "replaceMongo", pc |-> reader.pc, start |-> reader.start, from |-> reader.from,
          next |-> reader.next, seen |-> reader.seen, bulk |-> reader.bulk, index |-> reader.index]
    [] reader.what = "walk" ->
         [what |-> "walk", pc |-> reader.pc, start |-> reader.start, from |-> reader.from,
          order |-> reader.order, page |-> reader.page, next |-> reader.next, rows |-> reader.rows,
          shown |-> reader.shown, rowsAt |-> reader.rowsAt, total |-> reader.total,
          countAt |-> reader.countAt]
    [] reader.what = "daily" ->
         [what |-> "daily", pc |-> reader.pc, start |-> reader.start, from |-> reader.from,
          at |-> reader.at, result |-> reader.result]
    [] reader.what \notin {"replace", "replaceMongo", "walk", "daily"} ->
         [what |-> reader.what, pc |-> reader.pc, start |-> reader.start, from |-> reader.from,
          owner |-> reader.owner, result |-> reader.result]

Reads(what) == reader.pc # "idle" /\ reader.what = what

\* The rows at the start have been used, and what was used is not used again:
\* they are there unless they have been deleted.
StartOK ==
  /\ reader.from \in 0 .. Len(written)
  /\ \A i \in Rows(reader.start) : reader.start[i] \in AnyRow
  /\ Rows(reader.start) \subseteq Used
  /\ Deleted = {} => Rows(reader.start) \subseteq Rows(table)
  /\ Now = reader.from /\ reader.what \notin {"replace", "replaceMongo"} => reader.start = table

ReaderOK ==
  /\ Rows(table) \subseteq Used
  /\ reader.pc = "idle" \/ /\ reader = Shape
                           /\ reader.pc \in {"read", "done", "thrown"}
                           /\ StartOK

\* How many rows come before row i.
Rank(i) == Cardinality({j \in Rows(table) : j < i})

\* Row i is on a page that is to be read, or is to be written from this page.
Ahead(i) ==
  /\ reader.pc = "read"
  /\ \/ reader.next = "page" /\ Rank(i) >= Skip(reader.page, PageSize)
     \/ /\ reader.next = "row"
        /\ \E n \in reader.index .. Len(reader.data) :
             reader.data[n] = [_id |-> i, text |-> reader.start[i].text]
     \/ /\ reader.next = "row"
        /\ Len(reader.data) = PageSize /\ Rank(i) >= reader.page * PageSize

\* What is written to row i is one mention less than at the start.
ReplacesRow(i) ==
  /\ table[i].text <= reader.start[i].text
  /\ \A n \in DOMAIN reader.data :
       reader.data[n]._id = i => reader.data[n].text <= reader.start[i].text
  /\ reader.start[i].text = 0 \/ table[i].text < reader.start[i].text \/ Ahead(i)

ReplaceOK ==
  Reads("replace") =>
    /\ reader.page \in Nat \ {0} /\ reader.index \in Nat
    /\ reader.next \in {"page", "row"}
    /\ reader.next = "row" => reader.index > 0
    /\ reader.data \in Seq([_id : Ids, text : Nat])
    /\ Deleted = {} => \A i \in Rows(reader.start) \ Changed : ReplacesRow(i)

\* Document i is to be found, or to be written; or it is done.
ReplacesDocument(i) ==
  \/ table[i] = NoRow
  \/ table[i].text = 0
  \/ reader.pc = "read" /\ reader.next = "find" /\ i \notin reader.seen
  \/ reader.pc = "read" /\ \E n \in reader.index .. Len(reader.bulk) : reader.bulk[n] = i

ReplaceMongoOK ==
  Reads("replaceMongo") =>
    /\ reader.next \in {"find", "execute"}
    /\ reader.index \in Nat \ {0} /\ reader.bulk \in Seq(Ids)
    /\ reader.next = "find" => reader.index = 1
    /\ \A i \in Rows(reader.start) \ Changed : ReplacesDocument(i)

WalkOrders == {<<"_id">>, <<"at", "_id">>}

\* How many rows come before row i in the order of the walk.
Place(i) == Cardinality({j \in Rows(table) : Before(j, i, reader.order)})

\* How many pages have been answered.
Answered == IF reader.next = "rows" THEN reader.page - 1 ELSE reader.page

Shown == {reader.shown[n] : n \in DOMAIN reader.shown}

\* That there are so many rows fits the page, moved statements later.
Fits(total, moved) ==
  LET seen == Skip(Answered, Limit) + Len(reader.rows)
  IN  /\ reader.rows # <<>> => total >= seen - moved
      /\ Len(reader.rows) < Limit => total <= seen + moved

WalkOK ==
  Reads("walk") =>
    /\ reader.order \in WalkOrders
    /\ reader.page \in Nat \ {0} /\ reader.next \in {"rows", "count"}
    /\ reader.rows \in Seq(Ids) /\ reader.shown \in Seq(Ids)
    /\ reader.rowsAt \in 0 .. Len(written) /\ reader.countAt \in Nat /\ reader.total \in Nat
    /\ reader.pc = "done" => reader.next = "rows"
    /\ Deleted \cup Displaced = {} =>
         \A i \in Rows(reader.start) \ Shown :
           /\ reader.pc = "read" /\ Place(i) >= Answered * Limit
           /\ reader.next = "count" => Len(reader.rows) = Limit
    /\ Created \cup Displaced = {} =>
         /\ \A i \in Shown \cap Rows(table) : Place(i) < Answered * Limit
         /\ \A m, n \in DOMAIN reader.shown : m # n => reader.shown[m] # reader.shown[n]
    /\ reader.next = "count" => Fits(Cardinality(Rows(table)), Now - reader.rowsAt)
    /\ reader.next = "rows" /\ reader.page > 1 =>
         Fits(reader.total, reader.countAt - reader.rowsAt)

OfAtStart(owner) == {i \in Rows(reader.start) : reader.start[i].of = owner}

SummaryOK ==
  Reads("getNodeActivitySummary") =>
    LET r == reader.result
    IN  /\ entity = "logs"
        /\ \/ Len(r) = 0 /\ r = <<>>
           \/ Len(r) = 1 /\ r = <<r[1]>>
           \/ Len(r) = 2 /\ r = <<r[1], r[2]>>
           \/ Len(r) = 3 /\ r = <<r[1], r[2], r[3]>>
        /\ reader.pc = "done" => Len(r) = 3
        /\ reader.pc = "read" => Len(r) < 3
        /\ Len(r) > 0 =>
             /\ r[1] \in Nat
             /\ Distance(Cardinality(Of(reader.owner)), r[1]) <= Moved(reader.from)
             /\ Moved(reader.from) = 0 => r[1] = Cardinality(OfAtStart(reader.owner))
        /\ Len(r) > 1 =>
             /\ Sum(r[2]) \in Nat /\ Distance(Sum(r[2]), r[1]) <= Moved(reader.from)
             /\ Moved(reader.from) = 0 =>
                  \A kind \in DOMAIN r[2] :
                    r[2][kind] = Cardinality({i \in OfAtStart(reader.owner) :
                                                reader.start[i].kind = kind})
        /\ Len(r) > 2 /\ Moved(reader.from) = 0 =>
             \A i \in OfAtStart(reader.owner) : r[3] >= reader.start[i].at

ReadsOK == ReplaceOK /\ ReplaceMongoOK /\ WalkOK /\ SummaryOK

IInv == TInv /\ ReaderOK /\ ReadsOK

-----------------------------------------------------------------------------
(* Rows and statements *)

LEMMA SameEntity == ASSUME UNCHANGED entity PROVE AnyRow' = AnyRow
BY DEF AnyRow, Kinds

LEMMA RowIsNotNoRow == ASSUME NEW row \in AnyRow PROVE row # NoRow
<1>1. DOMAIN row = {"key", "of", "kind", "at", "judged", "text"}
  BY DEF AnyRow
<1>2. DOMAIN NoRow = {"key"}
  BY DEF NoRow
<1> QED
  BY <1>1, <1>2

\* What a statement does to which rows is remembered, and nothing is forgotten.
LEMMA LogFacts ==
  ASSUME TypeOK, NEW op \in Op, NEW ids \in SUBSET Ids, Log(op, ids)
  PROVE  /\ written' \in Seq([op : Op, ids : SUBSET Ids])
         /\ Len(written') = Len(written) + 1
         /\ Len(written) \in Nat
         /\ ByHand \subseteq ByHand'
         /\ op \in {"byHand", "edit", "retime"} => ids \subseteq ByHand'
<1>1. written' = Append(written, [op |-> op, ids |-> ids])
  BY DEF Log
<1>2. /\ written \in Seq([op : Op, ids : SUBSET Ids])
      /\ [op |-> op, ids |-> ids] \in [op : Op, ids : SUBSET Ids]
  BY DEF TypeOK
<1>3. /\ Len(written) \in Nat /\ Len(written') = Len(written) + 1
      /\ written' \in Seq([op : Op, ids : SUBSET Ids])
      /\ written'[Len(written')] = [op |-> op, ids |-> ids]
      /\ \A m \in 1 .. Len(written) : written'[m] = written[m]
  BY <1>1, <1>2
<1>4. ByHand \subseteq ByHand'
  <2>1. Since(0, "byHand") \subseteq Since(0, "byHand")'
    BY <1>3 DEF Since
  <2>2. Since(0, "edit") \subseteq Since(0, "edit")'
    BY <1>3 DEF Since
  <2>3. Since(0, "retime") \subseteq Since(0, "retime")'
    BY <1>3 DEF Since
  <2> QED
    BY <2>1, <2>2, <2>3 DEF ByHand
<1>5. op \in {"byHand", "edit", "retime"} => ids \subseteq ByHand'
  <2>1. Len(written') \in 0 + 1 .. Len(written') /\ written'[Len(written')].op = op
        /\ written'[Len(written')].ids = ids
    BY <1>3
  <2>2. op = "byHand" => ids \subseteq Since(0, "byHand")'
    BY <2>1 DEF Since
  <2>3. op = "edit" => ids \subseteq Since(0, "edit")'
    BY <2>1 DEF Since
  <2>4. op = "retime" => ids \subseteq Since(0, "retime")'
    BY <2>1 DEF Since
  <2> QED
    BY <2>2, <2>3, <2>4 DEF ByHand
<1> QED
  BY <1>3, <1>4, <1>5

\* After a statement has written, no earlier update is the last one to have done so.
LEMMA LogLeavesUpdates ==
  ASSUME TypeOK, UpdatesOK, NEW op \in Op, NEW ids \in SUBSET Ids, Log(op, ids),
         NEW u \in Updaters, upd'[u] = upd[u]
  PROVE  UpdateOK(u)'
<1>1. Len(written') = Len(written) + 1 /\ Len(written) \in Nat
  BY LogFacts DEF Op
<1>2. UpdateOK(u)
  BY DEF UpdatesOK
<1> QED
  BY <1>1, <1>2 DEF UpdateOK

-----------------------------------------------------------------------------
(* The steps *)

LEMMA InitInv == Init => TInv
<1> SUFFICES ASSUME Init PROVE TInv
  OBVIOUS
<1>1. entity \in Entities /\ table = First[entity] /\ now = 0 /\ written = <<>>
      /\ upd = [u \in Updaters |-> Idle]
  BY DEF Init, InitTables
<1>2. table \in [Ids -> Row(entity) \cup {NoRow}]
  BY <1>1, JudgeTablesAssumption
<1>3. ASSUME NEW i \in Ids, table[i] # NoRow
      PROVE  /\ table[i] \in AnyRow /\ table[i].judged = Null /\ table[i].at = 0
             /\ entity = "submissions" => table[i].kind = "PENDING"
  <2>1. table[i] \in Row(entity)
    BY <1>2, <1>3
  <2>2. table[i] \in AnyRow
    BY <2>1, JudgeTablesAssumption DEF Row, NoTime, AnyRow
  <2> QED
    BY <1>1, <1>3, <2>2, JudgeTablesAssumption
<1>4. TypeOK
  <2>1. <<>> \in Seq([op : Op, ids : SUBSET Ids])
    OBVIOUS
  <2> QED
    BY <1>1, <1>2, <1>3, <2>1 DEF TypeOK
<1>5. TimesOK
  BY <1>1, <1>3 DEF TimesOK, TimeOK, Rows, Final
<1>6. UpdatesOK
  BY <1>1 DEF UpdatesOK, UpdateOK, Idle
<1> QED
  BY <1>4, <1>5, <1>6 DEF TInv

LEMMA StutterInv == ASSUME TInv, UNCHANGED writerVars PROVE TInv'
BY SameEntity DEF TInv, TypeOK, TimesOK, TimeOK, UpdatesOK, UpdateOK, Own, Rows, ByHand, Since,
   writerVars

\* A step that writes other texts to rows, and nothing else, is not seen here.
LEMMA TextInv ==
  ASSUME TInv, UNCHANGED <<entity, now, written, upd>>, NEW x, NEW text \in Nat,
         x \in Ids => table[x] # NoRow,
         table' = [table EXCEPT ![x].text = text]
  PROVE  TInv'
<1>1. TypeOK /\ TimesOK /\ UpdatesOK
  BY DEF TInv
<1>2. table' = [i \in Ids |-> table'[i]]
  BY <1>1 DEF TypeOK
<1>3. ASSUME NEW i \in Ids
      PROVE  /\ table'[i] # NoRow <=> table[i] # NoRow
             /\ table[i] # NoRow => /\ table'[i] \in AnyRow /\ table'[i].key = table[i].key
                                    /\ table'[i].kind = table[i].kind /\ table'[i].at = table[i].at
                                    /\ table'[i].judged = table[i].judged
  <2>1. CASE i = x
    <3>1. table'[i] = [table[i] EXCEPT !.text = text] /\ table[i] \in AnyRow /\ table[i] # NoRow
      BY <1>1, <2>1 DEF TypeOK
    <3>2. /\ table'[i] \in AnyRow /\ table'[i].key = table[i].key
          /\ table'[i].kind = table[i].kind /\ table'[i].at = table[i].at
          /\ table'[i].judged = table[i].judged
      BY <3>1 DEF AnyRow
    <3> QED
      BY <3>1, <3>2, RowIsNotNoRow
  <2>2. CASE i # x
    BY <1>1, <2>2 DEF TypeOK
  <2> QED
    BY <2>1, <2>2
<1>4. TypeOK'
  BY <1>1, <1>2, <1>3, SameEntity DEF TypeOK
<1>5. Rows(table') = Rows(table) /\ ByHand' = ByHand
  BY <1>3 DEF Rows, ByHand, Since
<1>6. TimesOK'
  BY <1>1, <1>3, <1>5 DEF TimesOK, TimeOK, Rows
<1>7. UpdatesOK'
  <2> SUFFICES ASSUME NEW u \in Updaters PROVE UpdateOK(u)'
    BY DEF UpdatesOK
  <2>1. Own(u) => Own(u)'
    BY <1>3, <1>5 DEF Own, Rows
  <2> QED
    BY <1>1, <2>1 DEF UpdatesOK, UpdateOK
<1> QED
  BY <1>4, <1>6, <1>7 DEF TInv

LEMMA ExecuteBulkInv == ASSUME TInv, ExecuteBulk PROVE TInv'
<1> DEFINE i == reader.bulk[reader.index]
<1>1. CASE reader.index > Len(reader.bulk) \/ table[i] = NoRow
  BY <1>1, StutterInv DEF ExecuteBulk, writerVars
<1>2. CASE ~(reader.index > Len(reader.bulk)) /\ table[i] # NoRow
  BY <1>2, TextInv DEF ExecuteBulk
<1> QED
  BY <1>1, <1>2

\* A new row is PENDING, or made by hand.
LEMMA InsertInv ==
  ASSUME TInv, NEW op \in Op, NEW text \in Nat, NEW body \in Bodies[entity],
         NEW kind \in Kinds(entity), NEW times,
         times[1] \in Nat, times[2] \in Nat \cup {Null}, Insert(body, kind, text, times, op),
         \/ op = "byHand"
         \/ times[1] = now /\ times[2] = Null /\ (kind \notin Final \/ entity # "submissions")
  PROVE  TInv'
<1>1. TypeOK /\ TimesOK /\ UpdatesOK
  BY DEF TInv
<1> DEFINE row == [key |-> body.key, of |-> body.of, kind |-> kind,
                   at |-> times[1], judged |-> times[2], text |-> text]
<1>2. PICK i \in Ids : table' = [table EXCEPT ![i] = row] /\ Log(op, {i})
  BY DEF Insert
<1>3. /\ written' \in Seq([op : Op, ids : SUBSET Ids])
      /\ ByHand \subseteq ByHand'
      /\ op = "byHand" => i \in ByHand'
  BY <1>1, <1>2, LogFacts DEF Op
<1>u. UNCHANGED <<entity, now, upd>>
  BY DEF Insert
<1>4. row \in AnyRow
  BY <1>1, JudgeTablesAssumption DEF AnyRow, TypeOK
<1>5. table'[i] = row /\ \A j \in Ids \ {i} : table'[j] = table[j]
  BY <1>1, <1>2 DEF TypeOK
<1>6. table' = [j \in Ids |-> table'[j]]
  BY <1>1, <1>2 DEF TypeOK
<1>7. TypeOK'
  BY <1>1, <1>u, <1>3, <1>4, <1>5, <1>6, SameEntity DEF TypeOK
<1>8. TimesOK'
  <2> SUFFICES ASSUME entity = "submissions", NEW j \in Ids, table'[j] # NoRow PROVE TimeOK(j)'
    BY DEF TimesOK, Rows, Insert
  <2>1. CASE j = i
    BY <1>1, <1>u, <1>3, <1>5, <2>1 DEF TimeOK, TypeOK
  <2>2. CASE j # i
    <3>1. TimeOK(j) /\ table'[j] = table[j]
      BY <1>1, <1>u, <1>5, <2>2 DEF TimesOK, Rows
    <3> QED
      BY <1>u, <1>3, <3>1 DEF TimeOK
  <2> QED
    BY <2>1, <2>2
<1>9. UpdatesOK'
  BY <1>1, <1>2, LogLeavesUpdates DEF Op, UpdatesOK, Insert
<1> QED
  BY <1>7, <1>8, <1>9 DEF TInv

\* Of a submission a client may send any time.
LEMMA SentAre ==
  ASSUME NEW times \in Sent PROVE times[1] \in Nat /\ times[2] \in Nat \cup {Null}
<1>1. times \in (0 .. NoTime) \X ((0 .. MaxTime) \cup {Null})
  BY JudgeTablesAssumption DEF Sent
<1> QED
  BY <1>1, JudgeTablesAssumption DEF NoTime

\* A client edits one row, and its time is an edit of its own.
Edits(op, i) ==
  /\ Log(op, {i})
  /\ table' = [j \in Ids |-> table'[j]]
  /\ \A j \in Ids \ {i} : table'[j] = table[j]
  /\ table'[i] \in AnyRow
  /\ op = "edit" => table'[i].at = table[i].at

LEMMA UpdateByIdIs ==
  ASSUME TypeOK, UpdateById
  PROVE  \E op \in {"edit", "retime"}, i \in Rows(table) : Edits(op, i)
<1>1. PICK i \in Rows(table) :
        \/ /\ \/ \E body \in Bodies[entity] :
                   table' \in {[table EXCEPT ![i].kind = body.kind],
                              [table EXCEPT ![i].of = body.of],
                              [table EXCEPT ![i].key = body.key], [table EXCEPT ![i].text = 0]}
              \/ \E times \in Sent : table' = [table EXCEPT ![i].judged = times[2]]
           /\ Log("edit", {i})
        \/ /\ \E times \in Sent : table' = [table EXCEPT ![i].at = times[1]]
           /\ Log("retime", {i})
  BY DEF UpdateById
<1>2. i \in Ids /\ table[i] \in AnyRow
  BY DEF Rows, TypeOK
<1>3. ASSUME NEW row, table' = [table EXCEPT ![i] = row], row \in AnyRow,
             NEW op, Log(op, {i}), op = "edit" => row.at = table[i].at
      PROVE  Edits(op, i)
  BY <1>2, <1>3 DEF Edits, TypeOK
<1>4. ASSUME NEW body \in Bodies[entity], Log("edit", {i}),
             table' \in {[table EXCEPT ![i].kind = body.kind], [table EXCEPT ![i].of = body.of],
                        [table EXCEPT ![i].key = body.key], [table EXCEPT ![i].text = 0]}
      PROVE  Edits("edit", i)
  <2>1. body.kind \in Kinds(entity) /\ body.of \in Owners /\ body.key \in Keys \cup {Null}
    BY JudgeTablesAssumption DEF TypeOK
  <2>2. PICK row : /\ table' = [table EXCEPT ![i] = row]
                   /\ row \in {[table[i] EXCEPT !.kind = body.kind],
                              [table[i] EXCEPT !.of = body.of],
                              [table[i] EXCEPT !.key = body.key], [table[i] EXCEPT !.text = 0]}
    BY <1>4
  <2>3. row \in AnyRow /\ row.at = table[i].at
    BY <1>2, <2>1, <2>2 DEF AnyRow
  <2> QED
    BY <1>3, <1>4, <2>2, <2>3
<1>5. ASSUME NEW times \in Sent, Log("edit", {i}), table' = [table EXCEPT ![i].judged = times[2]]
      PROVE  Edits("edit", i)
  <2>1. PICK row : table' = [table EXCEPT ![i] = row] /\ row = [table[i] EXCEPT !.judged = times[2]]
    BY <1>5
  <2>2. row \in AnyRow /\ row.at = table[i].at
    BY <1>2, <2>1, SentAre DEF AnyRow
  <2> QED
    BY <1>3, <1>5, <2>1, <2>2
<1>6. ASSUME NEW times \in Sent, Log("retime", {i}), table' = [table EXCEPT ![i].at = times[1]]
      PROVE  Edits("retime", i)
  <2>1. PICK row : table' = [table EXCEPT ![i] = row] /\ row = [table[i] EXCEPT !.at = times[1]]
    BY <1>6
  <2>2. row \in AnyRow
    BY <1>2, <2>1, SentAre DEF AnyRow
  <2> QED
    BY <1>3, <1>6, <2>1, <2>2
<1> QED
  BY <1>1, <1>4, <1>5, <1>6

\* A row that a client has edited is known to be edited.
LEMMA UpdateByIdInv == ASSUME TInv, UpdateById PROVE TInv'
<1>1. TypeOK /\ TimesOK /\ UpdatesOK
  BY DEF TInv
<1>2. PICK op \in {"edit", "retime"}, i \in Rows(table) : Edits(op, i)
  BY <1>1, UpdateByIdIs
<1>3. i \in Ids /\ Log(op, {i})
  BY <1>2 DEF Rows, Edits
<1>4. /\ written' \in Seq([op : Op, ids : SUBSET Ids])
      /\ ByHand \subseteq ByHand' /\ i \in ByHand'
  BY <1>1, <1>3, LogFacts DEF Op
<1>5. /\ table' = [j \in Ids |-> table'[j]]
      /\ \A j \in Ids \ {i} : table'[j] = table[j]
  BY <1>2 DEF Edits
<1>6. table'[i] \in AnyRow
  BY <1>2 DEF Edits
<1>7. TypeOK'
  BY <1>1, <1>4, <1>5, <1>6, SameEntity DEF TypeOK, UpdateById
<1>8. TimesOK'
  <2> SUFFICES ASSUME entity = "submissions", NEW j \in Ids, table'[j] # NoRow PROVE TimeOK(j)'
    BY DEF TimesOK, Rows, UpdateById
  <2>1. CASE j = i
    BY <1>4, <2>1 DEF TimeOK
  <2>2. CASE j # i
    <3>1. TimeOK(j) /\ table'[j] = table[j]
      BY <1>1, <1>5, <2>2 DEF TimesOK, Rows
    <3> QED
      BY <1>4, <3>1 DEF TimeOK, UpdateById
  <2> QED
    BY <2>1, <2>2
<1>9. UpdatesOK'
  BY <1>1, <1>2, <1>3, LogLeavesUpdates DEF Op, UpdatesOK, UpdateById
<1> QED
  BY <1>7, <1>8, <1>9 DEF TInv

LEMMA DeleteByIdInv == ASSUME TInv, DeleteById PROVE TInv'
<1>1. TypeOK /\ TimesOK /\ UpdatesOK
  BY DEF TInv
<1>2. PICK i \in Ids : table' = [table EXCEPT ![i] = NoRow] /\ Log("delete", {i})
  BY DEF DeleteById, Rows
<1>3. /\ written' \in Seq([op : Op, ids : SUBSET Ids]) /\ ByHand \subseteq ByHand'
  BY <1>1, <1>2, LogFacts DEF Op
<1>4. /\ table' = [j \in Ids |-> table'[j]]
      /\ \A j \in Ids : table'[j] \in {table[j], NoRow}
  BY <1>1, <1>2 DEF TypeOK
<1>5. TypeOK'
  BY <1>1, <1>3, <1>4, SameEntity DEF TypeOK, DeleteById
<1>6. TimesOK'
  <2> SUFFICES ASSUME entity = "submissions", NEW j \in Ids, table'[j] # NoRow PROVE TimeOK(j)'
    BY DEF TimesOK, Rows, DeleteById
  <2> QED
    BY <1>1, <1>3, <1>4 DEF TimesOK, TimeOK, Rows, DeleteById
<1>7. UpdatesOK'
  BY <1>1, <1>2, LogLeavesUpdates DEF Op, UpdatesOK, DeleteById
<1> QED
  BY <1>5, <1>6, <1>7 DEF TInv

LEMMA TickInv == ASSUME TInv, Tick PROVE TInv'
<1>1. TypeOK /\ TimesOK /\ UpdatesOK /\ now' = now + 1 /\ UNCHANGED <<entity, table, written, upd>>
  BY DEF TInv, Tick
<1>2. TypeOK'
  BY <1>1, SameEntity DEF TypeOK
<1>3. TimesOK'
  <2> SUFFICES ASSUME entity = "submissions", NEW i \in Rows(table) PROVE TimeOK(i)'
    BY <1>1 DEF TimesOK, Rows
  <2>1. TimeOK(i) /\ table[i].at \in Nat /\ now \in Nat
    BY <1>1 DEF TimesOK, TypeOK, AnyRow, Rows
  <2>2. ByHand' = ByHand
    BY <1>1 DEF ByHand, Since
  <2> QED
    BY <1>1, <2>1, <2>2 DEF TimeOK
<1>4. UpdatesOK'
  BY <1>1 DEF UpdatesOK, UpdateOK, Own, Rows
<1> QED
  BY <1>2, <1>3, <1>4 DEF TInv

\* The UPDATE of the judge: the rows that it finds have the time of the verdict,
\* and are as the call will find them.
LEMMA UpdateStatusInv == ASSUME TInv, NEW u \in Updaters, UpdateSubmissionStatus(u) PROVE TInv'
<1>1. TypeOK /\ TimesOK /\ UpdatesOK
  BY DEF TInv
<1>2. PICK k \in Keys, status \in Status :
        LET found == {i \in Rows(table) : table[i].key = k}
        IN  \/ /\ found = {}
               /\ upd' = [upd EXCEPT ![u] = [pc |-> "thrown"]]
               /\ UNCHANGED <<table, written>>
            \/ /\ found # {}
               /\ table' = [i \in Ids |-> IF i \notin found THEN table[i]
                              ELSE [table[i] EXCEPT !.kind = status, !.judged = Judged(status, @)]]
               /\ Log("judge", found)
               /\ upd' = [upd EXCEPT ![u] = [pc |-> "find", key |-> k, status |-> status,
                                             from |-> Len(written) + 1]]
  BY DEF UpdateSubmissionStatus
<1> DEFINE found == {i \in Rows(table) : table[i].key = k}
<1>3. UNCHANGED <<entity, now>> /\ entity = "submissions"
  BY DEF UpdateSubmissionStatus
<1>4. upd' = [v \in Updaters |-> upd'[v]] /\ \A v \in Updaters \ {u} : upd'[v] = upd[v]
  BY <1>1, <1>2 DEF TypeOK
<1>5. CASE found = {}
  <2>1. UNCHANGED <<table, written>> /\ upd'[u].pc = "thrown"
    <3>1. UNCHANGED <<table, written>> /\ upd' = [upd EXCEPT ![u] = [pc |-> "thrown"]]
      BY <1>2, <1>5
    <3> QED
      BY <1>1, <3>1 DEF TypeOK
  <2>2. TypeOK' /\ TimesOK'
    BY <1>1, <1>3, <1>4, <2>1, SameEntity DEF TypeOK, TimesOK, TimeOK, Rows, ByHand, Since
  <2>3. UpdatesOK'
    <3> SUFFICES ASSUME NEW v \in Updaters PROVE UpdateOK(v)'
      BY DEF UpdatesOK
    <3>1. CASE v = u
      BY <2>1, <3>1 DEF UpdateOK
    <3>2. CASE v # u
      BY <1>1, <1>4, <2>1, <3>2 DEF UpdatesOK, UpdateOK, Own, Rows
    <3> QED
      BY <3>1, <3>2
  <2> QED
    BY <2>2, <2>3 DEF TInv
<1>6. CASE found # {}
  <2>1. /\ table' = [i \in Ids |-> IF i \notin found THEN table[i]
                       ELSE [table[i] EXCEPT !.kind = status, !.judged = Judged(status, @)]]
        /\ Log("judge", found)
        /\ upd' = [upd EXCEPT ![u] = [pc |-> "find", key |-> k, status |-> status,
                                      from |-> Len(written) + 1]]
    BY <1>2, <1>6
  <2>2. found \in SUBSET Ids
    BY DEF Rows
  <2>3. /\ written' \in Seq([op : Op, ids : SUBSET Ids]) /\ ByHand \subseteq ByHand'
        /\ Len(written') = Len(written) + 1 /\ Len(written) \in Nat
    BY <1>1, <2>1, <2>2, LogFacts DEF Op
  <2>4. ASSUME NEW i \in found
        PROVE  /\ table'[i] \in AnyRow /\ table'[i].kind = status /\ table'[i].key = k
               /\ table'[i].judged = Judged(status, table[i].judged) /\ table'[i].at = table[i].at
    <3>1. table'[i] = [table[i] EXCEPT !.kind = status, !.judged = Judged(status, table[i].judged)]
      BY <2>1, <2>2
    <3>2. table[i] \in AnyRow /\ table[i].key = k
      BY <1>1 DEF TypeOK, Rows
    <3>3. status \in Kinds(entity)
      BY <1>3 DEF Kinds
    <3>4. Judged(status, table[i].judged) \in Nat \cup {Null}
      BY <1>1, <3>2 DEF Judged, TypeOK, AnyRow
    <3> QED
      BY <3>1, <3>2, <3>3, <3>4 DEF AnyRow
  <2>5. \A i \in Ids \ found : table'[i] = table[i]
    BY <2>1
  <2>6. TypeOK'
    <3>1. table' = [i \in Ids |-> table'[i]]
      BY <2>1
    <3>2. \A i \in Ids : table'[i] # NoRow => table'[i] \in AnyRow
      BY <1>1, <2>4, <2>5 DEF TypeOK
    <3> QED
      BY <1>1, <1>3, <1>4, <2>3, <3>1, <3>2, SameEntity DEF TypeOK
  <2>7. TimesOK'
    <3> SUFFICES ASSUME NEW i \in Ids, table'[i] # NoRow PROVE TimeOK(i)'
      BY DEF TimesOK, Rows
    <3>1. CASE i \in found
      <4> SUFFICES ASSUME i \notin ByHand'
                   PROVE  /\ table'[i].at <= now'
                          /\ table'[i].judged # Null => table'[i].judged \in table'[i].at .. now'
                          /\ table'[i].kind \in Final => table'[i].judged # Null
        BY DEF TimeOK
      <4>1. TimeOK(i) /\ i \notin ByHand /\ table[i].at \in Nat /\ now \in Nat
        BY <1>1, <1>3, <2>3, <3>1 DEF TimesOK, TypeOK, AnyRow, Rows
      <4>2. table'[i].at <= now' /\ now # Null
        BY <1>3, <2>4, <3>1, <4>1, JudgeTablesAssumption DEF TimeOK
      <4>3. table'[i].judged # Null => table'[i].judged \in table'[i].at .. now'
        BY <1>3, <2>4, <3>1, <4>1 DEF TimeOK, Judged
      <4>4. table'[i].kind \in Final => table'[i].judged # Null
        BY <2>4, <3>1, <4>2 DEF Judged
      <4> QED
        BY <4>2, <4>3, <4>4
    <3>2. CASE i \notin found
      BY <1>1, <1>3, <2>3, <2>5, <3>2 DEF TimesOK, TimeOK, Rows
    <3> QED
      BY <3>1, <3>2
  <2>8. UpdatesOK'
    <3> SUFFICES ASSUME NEW v \in Updaters PROVE UpdateOK(v)'
      BY DEF UpdatesOK
    <3>1. CASE v = u
      <4>1. upd'[u] = [pc |-> "find", key |-> k, status |-> status, from |-> Len(written) + 1]
        BY <1>1, <2>1 DEF TypeOK
      <4>2. \A i \in Rows(table') : table'[i].key = k => table'[i].kind = status
        BY <2>4, <2>5 DEF Rows
      <4>3. \E i \in Rows(table') : table'[i].key = k
        BY <1>6, <2>2, <2>4, RowIsNotNoRow DEF Rows
      <4> QED
        BY <2>3, <3>1, <4>1, <4>2, <4>3 DEF UpdateOK, Own
    <3>2. CASE v # u
      BY <1>1, <1>4, <2>1, <2>2, <3>2, LogLeavesUpdates DEF Op
    <3> QED
      BY <3>1, <3>2
  <2> QED
    BY <2>6, <2>7, <2>8 DEF TInv
<1> QED
  BY <1>5, <1>6

LEMMA FindUpdatedInv == ASSUME TInv, NEW u \in Updaters, FindUpdated(u) PROVE TInv'
<1>1. TypeOK /\ TimesOK /\ UpdatesOK /\ UpdateOK(u)
  BY DEF TInv, UpdatesOK
<1> DEFINE found == {i \in Rows(table) : table[i].key = upd[u].key}
<1>2. PICK row \in IF found = {} THEN {NoRow} ELSE {table[i] : i \in found} :
        upd' = [upd EXCEPT ![u] = [pc |-> "answered", key |-> upd[u].key, from |-> upd[u].from,
                                   status |-> upd[u].status, answer |-> row, to |-> Len(written)]]
  BY DEF FindUpdated, Find
<1>3. UNCHANGED <<entity, table, now, written>> /\ upd[u].pc = "find"
  BY DEF FindUpdated
<1>4. /\ upd' = [v \in Updaters |-> upd'[v]] /\ \A v \in Updaters \ {u} : upd'[v] = upd[v]
      /\ upd'[u] = [pc |-> "answered", key |-> upd[u].key, from |-> upd[u].from,
                    status |-> upd[u].status, answer |-> row, to |-> Len(written)]
  BY <1>1, <1>2 DEF TypeOK
<1>5. TypeOK' /\ TimesOK'
  BY <1>1, <1>3, <1>4, SameEntity DEF TypeOK, TimesOK, TimeOK, Rows, ByHand, Since
<1>6. UpdateOK(u)'
  <2>1. upd[u].from = Len(written) =>
          row # NoRow /\ row.key = upd[u].key /\ row.kind = upd[u].status
    BY <1>1, <1>2, <1>3 DEF UpdateOK, Own, Rows
  <2> QED
    BY <1>4, <2>1 DEF UpdateOK
<1>7. ASSUME NEW v \in Updaters \ {u} PROVE UpdateOK(v)'
  BY <1>1, <1>3, <1>4 DEF UpdatesOK, UpdateOK, Own, Rows
<1> QED
  BY <1>5, <1>6, <1>7 DEF TInv, UpdatesOK

-----------------------------------------------------------------------------
(* Statements, as a reader sees them *)

\* The statement op has written the rows ids.
Effect(op, ids) ==
  /\ op \in Op /\ ids \in SUBSET Ids
  /\ written' = Append(written, [op |-> op, ids |-> ids])
  /\ UNCHANGED entity
  /\ \A i \in Ids \ ids : table'[i] = table[i]
  /\ \/ /\ op \in {"create", "byHand"}
        /\ \E i \in Ids \ Used : ids = {i} /\ table'[i] # NoRow
     \/ /\ op = "delete"
        /\ \E i \in Rows(table) : ids = {i} /\ table'[i] = NoRow
     \/ /\ op \in {"edit", "retime", "judge"} /\ ids \subseteq Rows(table)
        /\ op # "judge" => \E i \in Ids : ids = {i}
        /\ op = "judge" => entity = "submissions"
        /\ \A i \in ids : table'[i] # NoRow /\ (op # "retime" => table'[i].at = table[i].at)

LEMMA RowsAreFinite == ASSUME NEW t, NEW S, S \subseteq Rows(t) PROVE IsFiniteSet(S)
<1>1. S \subseteq Ids /\ IsFiniteSet(Ids)
  BY JudgeTablesAssumption DEF Rows
<1> QED
  BY <1>1, FS_Subset

LEMMA InsertEffect ==
  ASSUME TInv, NEW op \in {"create", "byHand"}, NEW text \in Nat, NEW body, NEW kind, NEW times,
         Insert(body, kind, text, times, op)
  PROVE  \E ids : Effect(op, ids)
<1>1. PICK i \in Ids \ Used :
        /\ table' = [table EXCEPT ![i] = [key |-> body.key, of |-> body.of, kind |-> kind,
                                         at |-> times[1], judged |-> times[2], text |-> text]]
        /\ Log(op, {i})
  BY DEF Insert
<1>2. UNCHANGED entity
  BY DEF Insert
<1>3. \A j \in Ids \ {i} : table'[j] = table[j]
  BY <1>1 DEF TInv, TypeOK
<1>4. table'[i] # NoRow
  <2>1. table'[i] = [key |-> body.key, of |-> body.of, kind |-> kind,
                     at |-> times[1], judged |-> times[2], text |-> text]
    BY <1>1 DEF TInv, TypeOK
  <2>2. DOMAIN table'[i] = {"key", "of", "kind", "at", "judged", "text"}
    BY <2>1
  <2>3. DOMAIN NoRow = {"key"}
    BY DEF NoRow
  <2> QED
    BY <2>2, <2>3
<1> QED
  BY <1>1, <1>2, <1>3, <1>4 DEF Effect, Log, Op

LEMMA EditEffect == ASSUME TInv, UpdateById PROVE \E op, ids : Effect(op, ids)
<1>1. PICK op \in {"edit", "retime"}, i \in Rows(table) : Edits(op, i)
  BY UpdateByIdIs DEF TInv
<1>2. i \in Ids /\ UNCHANGED entity
  BY DEF Rows, UpdateById
<1>3. table'[i] # NoRow
  BY <1>1, RowIsNotNoRow DEF Edits
<1>4. Effect(op, {i})
  BY <1>1, <1>2, <1>3 DEF Effect, Op, Edits, Log
<1> QED
  BY <1>4

LEMMA DeleteEffect == ASSUME TInv, DeleteById PROVE \E ids : Effect("delete", ids)
<1>1. PICK i \in Rows(table) : table' = [table EXCEPT ![i] = NoRow] /\ Log("delete", {i})
  BY DEF DeleteById
<1>2. i \in Ids /\ UNCHANGED entity
  BY DEF DeleteById, Rows
<1>3. table'[i] = NoRow /\ \A j \in Ids \ {i} : table'[j] = table[j]
  BY <1>1, <1>2 DEF TInv, TypeOK
<1> QED
  BY <1>1, <1>2, <1>3 DEF Effect, Log, Op

LEMMA JudgeEffect ==
  ASSUME TInv, NEW u \in Updaters, UpdateSubmissionStatus(u)
  PROVE  UNCHANGED <<entity, table, written>> \/ \E ids : Effect("judge", ids)
<1>1. PICK k \in Keys, status \in Status :
        LET found == {i \in Rows(table) : table[i].key = k}
        IN  \/ UNCHANGED <<table, written>>
            \/ /\ table' = [i \in Ids |-> IF i \notin found THEN table[i]
                              ELSE [table[i] EXCEPT !.kind = status, !.judged = Judged(status, @)]]
               /\ Log("judge", found)
  BY DEF UpdateSubmissionStatus
<1> DEFINE found == {i \in Rows(table) : table[i].key = k}
<1>2. UNCHANGED entity /\ entity = "submissions"
  BY DEF UpdateSubmissionStatus
<1>3. CASE UNCHANGED <<table, written>>
  BY <1>2, <1>3
<1>4. CASE /\ table' = [i \in Ids |-> IF i \notin found THEN table[i]
                          ELSE [table[i] EXCEPT !.kind = status, !.judged = Judged(status, @)]]
           /\ Log("judge", found)
  <2>1. found \subseteq Rows(table) /\ found \in SUBSET Ids
    BY DEF Rows
  <2>2. \A i \in Ids \ found : table'[i] = table[i]
    BY <1>4
  <2>3. ASSUME NEW i \in found PROVE table'[i] # NoRow /\ table'[i].at = table[i].at
    <3>1. table'[i] = [table[i] EXCEPT !.kind = status, !.judged = Judged(status, table[i].judged)]
      BY <1>4, <2>1
    <3>2. table[i] \in AnyRow
      BY <2>1 DEF TInv, TypeOK, Rows
    <3>3. DOMAIN table'[i] = DOMAIN table[i] /\ table'[i].at = table[i].at
      BY <3>1, <3>2 DEF AnyRow
    <3>4. DOMAIN table[i] = {"key", "of", "kind", "at", "judged", "text"}
      BY <3>2 DEF AnyRow
    <3>5. DOMAIN NoRow = {"key"}
      BY DEF NoRow
    <3> QED
      BY <3>3, <3>4, <3>5
  <2>4. Effect("judge", found)
    BY <1>2, <1>4, <2>1, <2>2, <2>3 DEF Effect, Log, Op
  <2> QED
    BY <2>4
<1> QED
  BY <1>1, <1>3, <1>4

\* What others do is a statement, or not seen by the reader.
OthersAct == UNCHANGED <<entity, table, written>> \/ \E op, ids : Effect(op, ids)

LEMMA WriterEffect == ASSUME TInv, WriterStep PROVE OthersAct
<1> USE DEF OthersAct
<1>1. CASE CreateSubmission
  BY <1>1, InsertEffect DEF CreateSubmission
<1>2. CASE CreateLog
  <2>1. \A c \in LogCalls : c.text \in Nat
    BY DEF LogCalls
  <2> QED
    BY <1>2, <2>1, InsertEffect DEF CreateLog
<1>3. CASE Create
  BY <1>3, InsertEffect DEF Create
<1>4. CASE UpdateById \/ DeleteById
  BY <1>4, EditEffect, DeleteEffect
<1>5. CASE Tick \/ \E u \in Updaters : FindUpdated(u)
  BY <1>5 DEF Tick, FindUpdated
<1>6. CASE \E u \in Updaters : UpdateSubmissionStatus(u)
  BY <1>6, JudgeEffect
<1> QED
  BY <1>1, <1>2, <1>3, <1>4, <1>5, <1>6 DEF WriterStep

\* What has become of the rows.
LEMMA EffectOnRows ==
  ASSUME TInv, Rows(table) \subseteq Used, NEW op, NEW ids, Effect(op, ids)
  PROVE  /\ op \in {"create", "byHand"} => \E i \in Ids \ Used : Rows(table') = Rows(table) \cup {i}
         /\ op = "delete" => \E i \in Rows(table) : Rows(table') = Rows(table) \ {i} /\ ids = {i}
         /\ op \in {"edit", "retime", "judge"} => Rows(table') = Rows(table)
         /\ op # "retime" =>
              \A i \in Rows(table) \cap Rows(table') : table'[i].at = table[i].at
         /\ ids \cap Rows(table) # {} => op \notin {"create", "byHand"}
<1> USE DEF Effect, Rows
<1>1. CASE op \in {"create", "byHand"}
  BY <1>1
<1>2. CASE op = "delete"
  BY <1>2
<1>3. CASE op \in {"edit", "retime", "judge"}
  BY <1>3
<1> QED
  BY <1>1, <1>2, <1>3 DEF Op

\* One row more or less.
LEMMA EffectOnCount ==
  ASSUME TInv, Rows(table) \subseteq Used, NEW op, NEW ids, Effect(op, ids)
  PROVE  /\ Cardinality(Rows(table)) \in Nat /\ Cardinality(Rows(table')) \in Nat
         /\ Cardinality(Rows(table')) <= Cardinality(Rows(table)) + 1
         /\ Cardinality(Rows(table)) <= Cardinality(Rows(table')) + 1
<1>1. /\ IsFiniteSet(Rows(table)) /\ IsFiniteSet(Rows(table'))
      /\ Cardinality(Rows(table)) \in Nat /\ Cardinality(Rows(table')) \in Nat
  BY RowsAreFinite, FS_CardinalityType
<1>2. \/ \E i : Rows(table') = Rows(table) \cup {i}
      \/ \E i : Rows(table') = Rows(table) \ {i}
      \/ Rows(table') = Rows(table)
  BY EffectOnRows DEF Effect, Op
<1> QED
  BY <1>1, <1>2, FS_AddElement, FS_RemoveElement

LEMMA SinceStep ==
  ASSUME TInv, NEW op, NEW ids, Effect(op, ids), NEW from \in 0 .. Len(written), NEW o
  PROVE  Since(from, o)' = Since(from, o) \cup (IF o = op THEN ids ELSE {})
<1>1. /\ written \in Seq([op : Op, ids : SUBSET Ids])
      /\ [op |-> op, ids |-> ids] \in [op : Op, ids : SUBSET Ids]
      /\ written' = Append(written, [op |-> op, ids |-> ids])
  BY DEF TInv, TypeOK, Effect
<1>2. /\ Len(written) \in Nat /\ Len(written') = Len(written) + 1
      /\ written'[Len(written')] = [op |-> op, ids |-> ids]
      /\ \A m \in 1 .. Len(written) : written'[m] = written[m]
  BY <1>1
<1>3. ASSUME NEW x, x \in Since(from, o)'
      PROVE  x \in Since(from, o) \cup (IF o = op THEN ids ELSE {})
  <2>1. PICK m \in from + 1 .. Len(written') : written'[m].op = o /\ x \in written'[m].ids
    BY <1>3 DEF Since
  <2> QED
    BY <1>2, <2>1 DEF Since
<1>4. ASSUME NEW x, x \in Since(from, o) PROVE x \in Since(from, o)'
  <2>1. PICK m \in from + 1 .. Len(written) : written[m].op = o /\ x \in written[m].ids
    BY <1>4 DEF Since
  <2> QED
    BY <1>2, <2>1 DEF Since
<1>5. o = op => ids \subseteq Since(from, o)'
  BY <1>2 DEF Since
<1> QED
  BY <1>3, <1>4, <1>5

LEMMA UsedStep ==
  ASSUME TInv, NEW op, NEW ids, Effect(op, ids)
  PROVE  Used' = Used \cup ids
<1>1. /\ written \in Seq([op : Op, ids : SUBSET Ids])
      /\ [op |-> op, ids |-> ids] \in [op : Op, ids : SUBSET Ids]
      /\ written' = Append(written, [op |-> op, ids |-> ids])
      /\ UNCHANGED entity
  BY DEF TInv, TypeOK, Effect
<1>2. /\ Len(written) \in Nat /\ Len(written') = Len(written) + 1
      /\ DOMAIN written = 1 .. Len(written) /\ DOMAIN written' = 1 .. Len(written')
      /\ written'[Len(written')] = [op |-> op, ids |-> ids]
      /\ \A m \in 1 .. Len(written) : written'[m] = written[m]
  BY <1>1
<1>3. Rows(First[entity])' = Rows(First[entity])
  BY <1>1 DEF Rows
<1>4. ASSUME NEW x, x \in Used' PROVE x \in Used \cup ids
  <2>1. CASE x \in Rows(First[entity])'
    BY <1>3, <2>1 DEF Used
  <2>2. CASE \E n \in DOMAIN written' : x \in written'[n].ids
    BY <1>2, <2>2 DEF Used
  <2> QED
    BY <1>4, <2>1, <2>2 DEF Used
<1>5. ASSUME NEW x \in Used PROVE x \in Used'
  <2>1. CASE x \in Rows(First[entity])
    BY <1>3, <2>1 DEF Used
  <2>2. CASE \E n \in DOMAIN written : x \in written[n].ids
    <3>1. \E n \in DOMAIN written' : x \in written'[n].ids
      BY <1>2, <2>2
    <3> QED
      BY <3>1 DEF Used
  <2> QED
    BY <2>1, <2>2 DEF Used
<1>6. ids \subseteq Used'
  <2>1. \A x \in ids : x \in written'[Len(written')].ids /\ Len(written') \in DOMAIN written'
    BY <1>2
  <2> QED
    BY <2>1 DEF Used
<1> QED
  BY <1>4, <1>5, <1>6
-----------------------------------------------------------------------------
(* The request that reads, and the statements of others *)

LEMMA Lengths == ASSUME TypeOK PROVE Len(written) \in Nat
BY DEF TypeOK

\* A row goes to another place in the order of a walk.
Displaces(op) == op = "retime" /\ "at" \in ToSet(reader.order)

\* What others have done since the request has begun.
LEMMA History ==
  ASSUME TInv, StartOK, UNCHANGED reader, NEW op, NEW ids, Effect(op, ids)
  PROVE  /\ Deleted' = Deleted \cup (IF op = "delete" THEN ids ELSE {})
         /\ Created' = Created \cup (IF op \in {"create", "byHand"} THEN ids ELSE {})
         /\ Displaced' = Displaced \cup (IF Displaces(op) THEN ids ELSE {})
         /\ Changed' = Changed \cup (IF op \in {"edit", "retime", "judge"} THEN ids ELSE {})
         /\ Now' = Now + 1 /\ Now \in Nat
<1>1. reader.from \in 0 .. Len(written) /\ reader' = reader
  BY DEF StartOK
<1>2. \A o : Since(reader.from, o)' = Since(reader.from, o) \cup (IF o = op THEN ids ELSE {})
  BY <1>1, SinceStep
<1>3. Now' = Now + 1 /\ Now \in Nat
  BY DEF TInv, TypeOK, Effect, Now
<1> QED
  BY <1>1, <1>2, <1>3 DEF Deleted, Created, Changed, Displaced, Displaces, Retimed

LEMMA StartStep ==
  ASSUME TInv, ReaderOK, StartOK, UNCHANGED reader, NEW op, NEW ids, Effect(op, ids)
  PROVE  StartOK'
<1>1. /\ Deleted' = Deleted \cup (IF op = "delete" THEN ids ELSE {})
      /\ Now' = Now + 1 /\ Now \in Nat /\ Used' = Used \cup ids
  BY History, UsedStep
<1>2. AnyRow' = AnyRow /\ reader' = reader
  BY SameEntity DEF Effect
<1>3. reader'.from \in 0 .. Len(written') /\ Now' # reader'.from
  BY <1>1, <1>2 DEF StartOK, Now
<1>4. Deleted' = {} => Rows(reader'.start) \subseteq Rows(table')
  <2> SUFFICES ASSUME Deleted' = {} PROVE Rows(reader.start) \subseteq Rows(table')
    BY <1>2
  <2>1. op # "delete" /\ Deleted = {}
    BY <1>1 DEF Effect
  <2>2. Rows(table) \subseteq Rows(table')
    BY <2>1, EffectOnRows DEF Effect, Op, ReaderOK
  <2> QED
    BY <2>1, <2>2 DEF StartOK
<1>5. Rows(reader'.start) = Rows(reader.start)
  BY <1>2
<1> QED
  BY <1>1, <1>2, <1>3, <1>4, <1>5 DEF StartOK

LEMMA WriterReader ==
  ASSUME TInv, ReaderOK, OthersAct, UNCHANGED reader
  PROVE  ReaderOK'
<1>1. CASE UNCHANGED <<entity, table, written>>
  BY <1>1, SameEntity DEF ReaderOK, StartOK, Shape, Used, Deleted, Since, Now, Rows
<1>2. ASSUME NEW op, NEW ids, Effect(op, ids) PROVE ReaderOK'
  <2>1. Rows(table') \subseteq Used'
    <3>1. Rows(table') \subseteq Rows(table) \cup ids
      BY <1>2 DEF Effect, Rows
    <3> QED
      BY <1>2, <3>1, UsedStep DEF ReaderOK
  <2>2. CASE reader.pc = "idle"
    BY <2>1, <2>2 DEF ReaderOK
  <2>3. CASE reader.pc # "idle"
    <3>1. StartOK /\ reader = Shape /\ reader.pc \in {"read", "done", "thrown"}
      BY <2>3 DEF ReaderOK
    <3>2. StartOK'
      BY <1>2, <3>1, StartStep
    <3>3. Shape' = Shape
      BY DEF Shape
    <3> QED
      BY <2>1, <3>1, <3>2, <3>3 DEF ReaderOK
  <2> QED
    BY <2>2, <2>3
<1> QED
  BY <1>1, <1>2 DEF OthersAct

\* The request begins.
LEMMA BeginReader ==
  ASSUME TInv, ReaderOK, NEW request, Begin(request),
         request.pc \in {"read", "done"}, request.start = table, request.from = Now,
         reader' = Shape'
  PROVE  ReaderOK' /\ Deleted' = {} /\ Created' = {} /\ Changed' = {}
<1>1. /\ UNCHANGED <<entity, table, now, written, upd>>
      /\ reader'.pc \in {"read", "done"} /\ reader'.start = table /\ reader'.from = Now
  BY DEF Begin, writerVars
<1>2. \A o : Since(reader.from, o)' = {}
  <2>1. Len(written') \in Nat /\ reader'.from = Len(written')
    BY <1>1, Lengths DEF Now, TInv
  <2> QED
    BY <2>1 DEF Since
<1>3. Deleted' = {} /\ Created' = {} /\ Changed' = {}
  BY <1>2 DEF Deleted, Created, Changed, Retimed
<1>4. StartOK'
  BY <1>1, <1>3, SameEntity, Lengths DEF StartOK, Now, ReaderOK, Rows, Used, TInv, TypeOK
<1>5. Rows(table') \subseteq Used'
  BY <1>1 DEF ReaderOK, Rows, Used
<1> QED
  BY <1>1, <1>3, <1>4, <1>5 DEF ReaderOK

\* The request goes on: it keeps what it has found at its start, and no more
\* than the texts of rows may change by what it writes.
LEMMA ReaderGoes ==
  ASSUME TInv, ReaderOK, reader.pc # "idle", UNCHANGED <<entity, written>>,
         reader' = Shape', reader'.pc \in {"read", "done", "thrown"},
         reader'.what = reader.what, reader'.start = reader.start, reader'.from = reader.from,
         Rows(table') = Rows(table),
         reader.what \notin {"replace", "replaceMongo"} => table' = table
  PROVE  /\ ReaderOK' /\ Now' = Now
         /\ Deleted' = Deleted /\ Created' = Created /\ Changed' = Changed /\ Retimed' = Retimed
<1>1. /\ Deleted' = Deleted /\ Created' = Created /\ Changed' = Changed /\ Retimed' = Retimed
      /\ Now' = Now
  BY DEF Deleted, Created, Changed, Retimed, Since, Now
<1>2. Used' = Used /\ Rows(reader'.start) = Rows(reader.start)
  BY DEF Used, Rows
<1>3. StartOK'
  BY <1>1, <1>2, SameEntity DEF ReaderOK, StartOK
<1> QED
  BY <1>1, <1>2, <1>3 DEF ReaderOK
-----------------------------------------------------------------------------
(* Sequences of all rows, and pages of them *)

LEMMA ElementOf == ASSUME NEW S, NEW s \in Seq(S), NEW n \in DOMAIN s PROVE s[n] \in S
OBVIOUS

LEMMA Positions ==
  ASSUME NEW S, IsFiniteSet(S), NEW s \in SetToSeqs(S)
  PROVE  /\ s \in Seq(S) /\ Len(s) = Cardinality(S) /\ Len(s) \in Nat /\ DOMAIN s = 1 .. Len(s)
         /\ \A i \in S : \E n \in DOMAIN s : s[n] = i
         /\ \A m, n \in DOMAIN s : s[m] = s[n] => m = n
<1> DEFINE D == 1 .. Cardinality(S)
<1>1. Cardinality(S) \in Nat
  BY FS_CardinalityType
<1>2. s \in [D -> S] /\ \A m, n \in D : m # n => s[m] # s[n]
  BY DEF SetToSeqs
<1>3. s \in Injection(D, S)
  BY <1>2 DEF Injection, IsInjective
<1>4. IsFiniteSet(D) /\ Cardinality(D) = Cardinality(S)
  BY <1>1, FS_Interval
<1>5. s \in Surjection(D, S)
  BY <1>3, <1>4, FS_Injection
<1> QED
  BY <1>1, <1>2, <1>5 DEF Surjection

\* Before the n-th of them there are n - 1.
LEMMA BeforeThe ==
  ASSUME NEW S, IsFiniteSet(S), NEW s \in SetToSeqs(S), NEW n \in DOMAIN s,
         NEW B, B = {s[m] : m \in 1 .. n - 1}
  PROVE  Cardinality(B) = n - 1
<1>1. /\ n \in 1 .. Len(s) /\ Len(s) \in Nat /\ DOMAIN s = 1 .. Len(s)
      /\ \A k, m \in DOMAIN s : s[k] = s[m] => k = m
  BY Positions
<1> DEFINE f == [m \in 1 .. n - 1 |-> s[m]]
<1>2. f \in Bijection(1 .. n - 1, B)
  BY <1>1 DEF Bijection, Injection, Surjection, IsInjective
<1>3. ExistsBijection(1 .. n - 1, B)
  BY <1>2 DEF ExistsBijection
<1>4. IsFiniteSet(1 .. n - 1) /\ Cardinality(1 .. n - 1) = n - 1
  <2>1. PICK k \in Nat : k = n - 1
    BY <1>1
  <2>2. IsFiniteSet(1 .. k) /\ Cardinality(1 .. k) = k
    BY FS_Interval
  <2> QED
    BY <2>1, <2>2
<1> QED
  BY <1>3, <1>4, FS_Bijection

LEMMA SliceIs ==
  ASSUME NEW S, NEW s \in Seq(S), NEW skip \in Nat, NEW limit \in Nat
  PROVE  /\ Slice(s, skip, limit) \in Seq(S)
         /\ Len(Slice(s, skip, limit)) = IF Len(s) <= skip THEN 0
              ELSE IF Len(s) < skip + limit THEN Len(s) - skip ELSE limit
         /\ \A n \in 1 .. Len(Slice(s, skip, limit)) :
              skip + n \in DOMAIN s /\ Slice(s, skip, limit)[n] = s[skip + n]
<1> DEFINE a == skip + 1
           b == IF Len(s) < skip + limit THEN Len(s) ELSE skip + limit
<1>1. /\ a \in Int /\ b \in Int
      /\ \A n \in a .. b : s[n] \in S
  OBVIOUS
<1>2. Slice(s, skip, limit) = SubSeq(s, a, b)
  BY DEF Slice
<1> HIDE DEF a, b
<1>3. /\ SubSeq(s, a, b) \in Seq(S)
      /\ Len(SubSeq(s, a, b)) = IF a <= b THEN b - a + 1 ELSE 0
      /\ \A n \in 1 .. b - a + 1 : SubSeq(s, a, b)[n] = s[a + n - 1]
  BY <1>1, SubSeqProperties
<1>4. Len(SubSeq(s, a, b)) = IF Len(s) <= skip THEN 0
              ELSE IF Len(s) < skip + limit THEN Len(s) - skip ELSE limit
  BY <1>3 DEF a, b
<1>5. ASSUME NEW n \in 1 .. Len(SubSeq(s, a, b))
      PROVE  skip + n \in DOMAIN s /\ SubSeq(s, a, b)[n] = s[skip + n]
  <2>1. n \in 1 .. b - a + 1 /\ a + n - 1 = skip + n
    BY <1>1, <1>3 DEF a
  <2>2. skip + n \in 1 .. Len(s)
    BY <1>4
  <2> QED
    BY <1>3, <2>1, <2>2
<1> QED
  BY <1>2, <1>3, <1>4, <1>5

\* What comes after the rows that are skipped is on the page, or the page is full.
LEMMA SliceHas ==
  ASSUME NEW S, NEW s \in Seq(S), NEW skip \in Nat, NEW limit \in Nat, NEW n \in DOMAIN s, n > skip
  PROVE  LET page == Slice(s, skip, limit)
         IN  \/ n - skip \in 1 .. Len(page) /\ page[n - skip] = s[n]
             \/ n > skip + limit /\ Len(page) = limit
<1> DEFINE page == Slice(s, skip, limit)
<1>1. n \in 1 .. Len(s) /\ Len(s) \in Nat
  OBVIOUS
<1>2. /\ Len(page) = IF Len(s) <= skip THEN 0
                     ELSE IF Len(s) < skip + limit THEN Len(s) - skip ELSE limit
      /\ \A m \in 1 .. Len(page) : page[m] = s[skip + m]
  BY SliceIs
<1> HIDE DEF page
<1>3. CASE n <= skip + limit
  <2>1. n - skip \in 1 .. Len(page) /\ skip + (n - skip) = n
    BY <1>1, <1>2, <1>3
  <2>2. page[n - skip] = s[skip + (n - skip)]
    BY <1>2, <2>1
  <2> QED
    BY <2>1, <2>2 DEF page
<1>4. CASE n > skip + limit
  BY <1>1, <1>2, <1>4 DEF page
<1> QED
  BY <1>1, <1>3, <1>4

LEMMA Skips ==
  ASSUME NEW page \in Nat \ {0}, NEW limit \in Nat
  PROVE  /\ Skip(page, limit) \in Nat /\ page * limit = Skip(page, limit) + limit
         /\ page * limit \in Nat /\ Skip(page + 1, limit) = page * limit
<1>1. \A k \in Nat : (k + 1) * limit = k * limit + limit /\ k * limit \in Nat
  OBVIOUS
<1>2. page - 1 \in Nat /\ page = (page - 1) + 1 /\ (page + 1) - 1 = page
  OBVIOUS
<1> QED
  BY <1>1, <1>2 DEF Skip

-----------------------------------------------------------------------------
(* The replacement *)

\* The row at the n-th position has n - 1 before it.
LEMMA AscendingRank ==
  ASSUME NEW s \in Ascending(Rows(table)), NEW n \in DOMAIN s
  PROVE  Rank(s[n]) = n - 1
<1> DEFINE B == {j \in Rows(table) : j < s[n]}
<1>1. IsFiniteSet(Rows(table)) /\ Rows(table) \subseteq Nat
  BY RowsAreFinite, JudgeTablesAssumption DEF Rows
<1>2. s \in SetToSeqs(Rows(table)) /\ \A k, m \in DOMAIN s : k < m => s[k] < s[m]
  BY DEF Ascending
<1>3. /\ Len(s) \in Nat /\ DOMAIN s = 1 .. Len(s) /\ s \in Seq(Rows(table))
      /\ \A i \in Rows(table) : \E m \in DOMAIN s : s[m] = i
  BY <1>1, <1>2, Positions
<1>4. ASSUME NEW j \in B PROVE j \in {s[m] : m \in 1 .. n - 1}
  <2>1. PICK m \in DOMAIN s : s[m] = j
    BY <1>3
  <2>2. m < n
    <3>1. m \in Nat /\ n \in Nat /\ s[m] \in Nat /\ s[n] \in Nat /\ s[m] < s[n]
      BY <1>1, <1>3, <2>1
    <3>2. ~ n < m /\ m # n
      BY <1>2, <3>1
    <3> QED
      BY <3>1, <3>2
  <2> QED
    BY <1>3, <2>1, <2>2
<1>5. ASSUME NEW m \in 1 .. n - 1 PROVE s[m] \in B
  BY <1>2, <1>3
<1>6. B = {s[m] : m \in 1 .. n - 1}
  BY <1>4, <1>5
<1>7. Cardinality(B) = n - 1
  BY <1>1, <1>2, <1>6, BeforeThe
<1> QED
  BY <1>7 DEF Rank

LEMMA RankGrows ==
  ASSUME NEW i, Rows(table) \subseteq Rows(table')
  PROVE  Rank(i)' >= Rank(i) /\ Rank(i) \in Nat /\ Rank(i)' \in Nat
<1> DEFINE B(t) == {j \in Rows(t) : j < i}
<1>1. IsFiniteSet(B(table)) /\ IsFiniteSet(B(table'))
  BY RowsAreFinite
<1>2. B(table) \subseteq B(table')
  OBVIOUS
<1>3. /\ Cardinality(B(table)) <= Cardinality(B(table'))
      /\ Cardinality(B(table)) \in Nat /\ Cardinality(B(table')) \in Nat
  BY <1>1, <1>2, FS_Subset, FS_CardinalityType
<1>4. Rank(i) = Cardinality(B(table)) /\ Rank(i)' = Cardinality(B(table'))
  BY DEF Rank
<1> QED
  BY <1>3, <1>4

\* A row of the start that nobody has changed is as it was before the statement
\* of another, unless that has deleted it.
LEMMA Untouched ==
  ASSUME TInv, StartOK, UNCHANGED reader, NEW op, NEW ids, Effect(op, ids),
         NEW i \in Rows(reader.start), i \notin Changed'
  PROVE  /\ i \notin Changed /\ table'[i] \in {table[i], NoRow}
         /\ op # "delete" => table'[i] = table[i]
<1>1. Changed' = Changed \cup (IF op \in {"edit", "retime", "judge"} THEN ids ELSE {})
  BY History
<1>2. i \in Used /\ i \in Ids
  BY DEF StartOK, Rows
<1>3. i \in ids => op = "delete" /\ table'[i] = NoRow
  BY <1>1, <1>2 DEF Effect
<1> QED
  BY <1>1, <1>2, <1>3 DEF Effect

LEMMA WriterReplace ==
  ASSUME TInv, ReaderOK, ReplaceOK, UNCHANGED reader, NEW op, NEW ids, Effect(op, ids)
  PROVE  ReplaceOK'
<1> SUFFICES ASSUME Reads("replace") PROVE ReplaceOK'
  BY DEF ReplaceOK, Reads
<1>1. StartOK
  BY DEF ReaderOK, Reads
<1>2. Deleted' = Deleted \cup (IF op = "delete" THEN ids ELSE {})
  BY <1>1, History
<1>3. ASSUME Deleted' = {}, NEW i \in Rows(reader.start), i \notin Changed'
      PROVE  ReplacesRow(i)'
  <2>1. Deleted = {} /\ op # "delete"
    BY <1>2, <1>3 DEF Effect
  <2>2. table'[i] = table[i] /\ ReplacesRow(i)
    BY <1>1, <1>3, <2>1, Untouched DEF ReplaceOK
  <2>3. Rows(table) \subseteq Rows(table')
    BY <2>1, EffectOnRows DEF Effect, Op, ReaderOK
  <2>4. Ahead(i) => Ahead(i)'
    <3>1. Rank(i)' >= Rank(i) /\ Rank(i) \in Nat /\ Rank(i)' \in Nat
      BY <2>3, RankGrows
    <3>2. Skip(reader.page, PageSize) \in Nat /\ reader.page * PageSize \in Nat
      BY Skips, JudgeReadsAssumption DEF ReplaceOK
    <3> QED
      BY <3>1, <3>2 DEF Ahead, Skip
  <2> QED
    BY <2>2, <2>4 DEF ReplacesRow
<1>4. Rows(reader.start)' = Rows(reader.start)
  BY DEF Rows
<1> QED
  BY <1>3, <1>4 DEF ReplaceOK, Reads

\* A begun replacement has all of it before it.
LEMMA BeginReplaceReads == ASSUME TInv, ReaderOK, BeginReplace PROVE ReaderOK' /\ ReadsOK'
<1> DEFINE request == [what |-> "replace", pc |-> "read", start |-> table, from |-> Now,
                       page |-> 1, next |-> "page", data |-> <<>>, index |-> 0]
<1>1. Begin(request) /\ reader' = request /\ UNCHANGED <<entity, table, now, written, upd>>
  BY DEF BeginReplace, Begin, writerVars
<1>2. ReaderOK'
  BY <1>1, BeginReader DEF Shape
<1>3. ASSUME NEW i \in Rows(table) PROVE ReplacesRow(i)'
  <2>1. Rank(i)' >= Rank(i) /\ Rank(i) \in Nat /\ Rank(i)' \in Nat
    BY <1>1, RankGrows
  <2>2. Skip(1, PageSize) = 0
    BY JudgeReadsAssumption DEF Skip
  <2>3. table[i].text \in Nat
    BY DEF TInv, TypeOK, Rows, AnyRow
  <2>4. Ahead(i)'
    BY <1>1, <2>1, <2>2 DEF Ahead
  <2> QED
    BY <1>1, <2>3, <2>4 DEF ReplacesRow
<1>4. ReplaceOK'
  <2>1. <<>> \in Seq([_id : Ids, text : Nat])
    OBVIOUS
  <2> QED
    BY <1>1, <1>3, <2>1 DEF ReplaceOK, Rows
<1>5. (ReplaceMongoOK /\ WalkOK /\ SummaryOK)'
  BY <1>1 DEF ReplaceMongoOK, WalkOK, SummaryOK, Reads
<1> QED
  BY <1>2, <1>4, <1>5 DEF ReadsOK

LEMMA ReplacePageReads ==
  ASSUME TInv, ReaderOK, ReadsOK, ReplacePage PROVE ReaderOK' /\ ReadsOK'
<1>1. /\ reader.pc = "read" /\ reader.what = "replace" /\ reader.next = "page"
      /\ UNCHANGED <<entity, table, now, written, upd>>
  BY DEF ReplacePage, writerVars
<1>2. reader = Shape /\ Reads("replace") /\ ReplaceOK /\ StartOK
  BY <1>1 DEF ReaderOK, ReadsOK, Reads
<1>3. PICK s \in Ascending(Rows(table)) :
        LET data == Slice(s, Skip(reader.page, PageSize), PageSize)
        IN  reader' = [reader EXCEPT !.data = [n \in DOMAIN data |->
                                                 [_id |-> data[n], text |-> table[data[n]].text]],
                                     !.index = 1, !.next = "row"]
  BY DEF ReplacePage
<1> DEFINE skip == Skip(reader.page, PageSize)
           page == Slice(s, skip, PageSize)
           data == [n \in DOMAIN page |-> [_id |-> page[n], text |-> table[page[n]].text]]
<1>4. reader' = [what |-> "replace", pc |-> "read", start |-> reader.start, from |-> reader.from,
                 page |-> reader.page, next |-> "row", data |-> data, index |-> 1]
  <2> HIDE DEF data
  <2>1. reader' = [reader EXCEPT !.data = data, !.index = 1, !.next = "row"]
    BY <1>3 DEF data
  <2>2. reader = [what |-> "replace", pc |-> reader.pc,
                  start |-> reader.start, from |-> reader.from,
                  page |-> reader.page, next |-> reader.next, data |-> reader.data,
                  index |-> reader.index]
    BY <1>1, <1>2 DEF Shape
  <2> QED
    BY <1>1, <2>1, <2>2
<1>5. ReaderOK' /\ Deleted' = Deleted /\ Changed' = Changed
  <2> HIDE DEF data
  <2>1. reader' = Shape'
    BY <1>4 DEF Shape
  <2> QED
    BY <1>1, <1>4, <2>1, ReaderGoes
<1>6. /\ s \in Seq(Rows(table)) /\ DOMAIN s = 1 .. Len(s) /\ Len(s) \in Nat
      /\ \A i \in Rows(table) : \E n \in DOMAIN s : s[n] = i
  BY RowsAreFinite, Positions DEF Ascending
<1>7. /\ skip \in Nat /\ reader.page * PageSize = skip + PageSize /\ PageSize \in Nat \ {0}
      /\ reader.page \in Nat \ {0}
  BY <1>2, Skips, JudgeReadsAssumption DEF ReplaceOK
<1>8. page \in Seq(Rows(table)) /\ DOMAIN page = 1 .. Len(page) /\ Len(page) \in Nat
  <2>1. s \in Seq(Rows(table)) /\ skip \in Nat /\ PageSize \in Nat
    BY <1>6, <1>7
  <2> HIDE DEF skip
  <2>2. page \in Seq(Rows(table))
    BY <2>1, SliceIs
  <2> HIDE DEF page
  <2> QED
    BY <2>2
<1> HIDE DEF skip, page
<1>9. /\ data \in Seq([_id : Ids, text : Nat]) /\ Len(data) = Len(page)
      /\ DOMAIN data = DOMAIN page
  <2>1. \A i \in Rows(table) : i \in Ids /\ table[i].text \in Nat
    BY DEF TInv, TypeOK, Rows, AnyRow
  <2>2. \A n \in DOMAIN page : page[n] \in Rows(table)
    BY <1>8
  <2>3. \A n \in DOMAIN page : data[n] \in [_id : Ids, text : Nat]
    BY <2>1, <2>2
  <2> QED
    BY <1>8, <2>3
<1>10. ASSUME Deleted = {}, NEW i \in Rows(reader.start), i \notin Changed
       PROVE  ReplacesRow(i)'
  <2>1. ReplacesRow(i) /\ i \in Rows(table)
    BY <1>2, <1>10 DEF ReplaceOK, StartOK
  <2>2. ASSUME NEW n \in DOMAIN data, data[n]._id = i
        PROVE  data[n].text <= reader.start[i].text
    BY <1>9, <2>1, <2>2 DEF ReplacesRow
  <2>3. CASE ~Ahead(i)
    <3>1. reader.start[i].text = 0 \/ table[i].text < reader.start[i].text
      BY <2>1, <2>3 DEF ReplacesRow
    <3> QED
      BY <1>1, <1>4, <2>1, <2>2, <3>1 DEF ReplacesRow
  <2>4. CASE Ahead(i) /\ table[i].text = reader.start[i].text
    <3>1. PICK n \in DOMAIN s : s[n] = i
      BY <1>6, <2>1
    <3>2. Rank(i) = n - 1 /\ Rank(i) >= skip
      BY <1>1, <2>4, <3>1, AscendingRank DEF Ahead, skip
    <3>3. n \in Nat /\ n > skip
      BY <1>6, <1>7, <3>2
    <3>4. \/ n - skip \in 1 .. Len(page) /\ page[n - skip] = s[n]
          \/ n > skip + PageSize /\ Len(page) = PageSize
      BY <1>6, <1>7, <3>3, SliceHas DEF page
    <3>5. Rank(i)' = Rank(i)
      BY <1>1 DEF Rank, Rows
    <3>6. Ahead(i)'
      <4>1. CASE n - skip \in 1 .. Len(page) /\ page[n - skip] = s[n]
        <5>1. data[n - skip] = [_id |-> i, text |-> reader.start[i].text]
          BY <1>8, <2>4, <3>1, <4>1
        <5>2. n - skip \in 1 .. Len(data)
          BY <1>9, <4>1
        <5> HIDE DEF data
        <5> QED
          BY <1>4, <5>1, <5>2 DEF Ahead
      <4>2. CASE n > skip + PageSize /\ Len(page) = PageSize
        <5>1. Rank(i)' >= reader.page * PageSize
          BY <1>7, <3>2, <3>3, <3>5, <4>2
        <5>2. Len(data) = PageSize
          BY <1>9, <4>2
        <5> HIDE DEF data
        <5> QED
          BY <1>4, <5>1, <5>2 DEF Ahead
      <4> QED
        BY <3>4, <4>1, <4>2
    <3> HIDE DEF data
    <3> QED
      BY <1>1, <1>4, <2>1, <2>2, <3>6 DEF ReplacesRow
  <2>5. table[i].text \in Nat /\ reader.start[i].text \in Nat
    BY <1>2, <1>10, <2>1 DEF TInv, TypeOK, StartOK, Rows, AnyRow
  <2> QED
    BY <1>1, <1>4, <2>1, <2>2, <2>3, <2>4, <2>5 DEF ReplacesRow
<1>11. ReplaceOK'
  <2> HIDE DEF data
  <2>1. Rows(reader.start)' = Rows(reader.start)
    BY <1>4 DEF Rows
  <2> QED
    BY <1>4, <1>5, <1>7, <1>9, <1>10, <2>1 DEF ReplaceOK
<1>12. (ReplaceMongoOK /\ WalkOK /\ SummaryOK)'
  BY <1>4 DEF ReplaceMongoOK, WalkOK, SummaryOK, Reads
<1> QED
  BY <1>5, <1>11, <1>12 DEF ReadsOK

LEMMA ReplaceRowReads ==
  ASSUME TInv, ReaderOK, ReadsOK, ReplaceRow PROVE TInv' /\ ReaderOK' /\ ReadsOK'
<1> DEFINE row == reader.data[reader.index]
<1>1. /\ reader.pc = "read" /\ reader.what = "replace" /\ reader.next = "row"
      /\ reader.index <= Len(reader.data)
      /\ table' = IF row.text > 0 /\ table[row._id] # NoRow
                  THEN [table EXCEPT ![row._id].text = Replace(row.text)] ELSE table
      /\ UNCHANGED <<entity, now, written, upd>>
  BY DEF ReplaceRow
<1>2. reader = Shape /\ Reads("replace") /\ ReplaceOK /\ StartOK
  BY <1>1 DEF ReaderOK, ReadsOK, Reads
<1>3. reader' = [what |-> "replace", pc |-> "read", start |-> reader.start, from |-> reader.from,
                 page |-> reader.page, next |-> "row", data |-> reader.data,
                 index |-> reader.index + 1]
  <2>1. reader' = [reader EXCEPT !.index = @ + 1]
    BY DEF ReplaceRow
  <2> QED
    BY <1>1, <1>2, <2>1 DEF Shape
<1>4. /\ reader.index \in DOMAIN reader.data /\ reader.index \in Nat \ {0}
      /\ row \in [_id : Ids, text : Nat]
  <2>1. /\ reader.index \in Nat \ {0}
        /\ reader.data \in Seq([_id : Ids, text : Nat])
    BY <1>1, <1>2 DEF ReplaceOK
  <2>2. reader.index \in DOMAIN reader.data
    BY <1>1, <2>1
  <2> QED
    BY <2>1, <2>2, ElementOf
<1>5. row.text > 0 => Replace(row.text) \in Nat /\ Replace(row.text) = row.text - 1
  BY <1>4 DEF Replace
<1> DEFINE writes == row.text > 0 /\ table[row._id] # NoRow
<1> HIDE DEF row
<1>6. TInv'
  <2>1. CASE writes
    BY <1>1, <1>5, <2>1, TextInv
  <2>2. CASE ~writes
    BY <1>1, <2>2, StutterInv DEF writerVars
  <2> QED
    BY <2>1, <2>2
<1>7. /\ \A i \in Ids : i # row._id => table'[i] = table[i]
      /\ ~writes => table' = table
      /\ writes => /\ table'[row._id].text = row.text - 1
                   /\ table'[row._id] \in AnyRow
                   /\ table[row._id] \in AnyRow
  <2>1. CASE writes
    <3>1. table[row._id] \in AnyRow
      BY <1>4, <2>1 DEF TInv, TypeOK
    <3>2. /\ table'[row._id] = [table[row._id] EXCEPT !.text = row.text - 1]
          /\ \A i \in Ids : i # row._id => table'[i] = table[i]
      BY <1>1, <1>4, <1>5, <2>1 DEF TInv, TypeOK
    <3>3. table'[row._id].text = row.text - 1 /\ table'[row._id] \in AnyRow
      BY <1>5, <2>1, <3>1, <3>2 DEF AnyRow
    <3> QED
      BY <2>1, <3>1, <3>2, <3>3
  <2>2. CASE ~writes
    BY <1>1, <2>2
  <2> QED
    BY <2>1, <2>2
<1>8. Rows(table') = Rows(table)
  <2>1. \A i \in Ids : table'[i] # NoRow <=> table[i] # NoRow
    BY <1>7, RowIsNotNoRow
  <2> QED
    BY <2>1 DEF Rows
<1>9. ReaderOK' /\ Deleted' = Deleted /\ Changed' = Changed
  <2>1. reader' = Shape'
    BY <1>3 DEF Shape
  <2> QED
    BY <1>1, <1>3, <1>8, <2>1, ReaderGoes
<1>10. ASSUME Deleted = {}, NEW i \in Rows(reader.start), i \notin Changed
       PROVE  ReplacesRow(i)'
  <2>1. ReplacesRow(i) /\ i \in Rows(table) /\ i \in Ids
    BY <1>2, <1>10 DEF ReplaceOK, StartOK, Rows
  <2>2. table[i].text \in Nat /\ reader.start[i].text \in Nat
    BY <1>2, <1>10, <2>1 DEF TInv, TypeOK, StartOK, Rows, AnyRow
  <2>3. row._id = i => row.text <= reader.start[i].text
    BY <1>4, <2>1 DEF ReplacesRow, row
  <2>4. CASE writes /\ row._id = i
    <3>1. table'[i].text = row.text - 1 /\ row.text \in Nat
      BY <1>4, <1>7, <2>4
    <3>2. table'[i].text < reader.start[i].text
      BY <2>2, <2>3, <2>4, <3>1
    <3> QED
      BY <1>3, <2>1, <2>2, <3>1, <3>2 DEF ReplacesRow
  <2>5. CASE ~(writes /\ row._id = i)
    <3>1. table'[i] = table[i]
      BY <1>7, <2>1, <2>5
    <3>2. Rank(i)' = Rank(i)
      BY <1>8 DEF Rank
    <3>3. ASSUME Ahead(i), reader.start[i].text # 0
          PROVE  Ahead(i)' \/ table[i].text < reader.start[i].text
      <4>1. CASE /\ Len(reader.data) = PageSize /\ Rank(i) >= reader.page * PageSize
        BY <1>3, <3>2, <4>1 DEF Ahead
      <4>2. ASSUME NEW n \in reader.index .. Len(reader.data),
                   reader.data[n] = [_id |-> i, text |-> reader.start[i].text]
            PROVE  Ahead(i)'
        <5>1. n # reader.index
          <6>1. n = reader.index => row._id = i /\ row.text = reader.start[i].text
            BY <4>2 DEF row
          <6>2. table[i] # NoRow
            BY <2>1 DEF Rows
          <6> QED
            BY <2>2, <2>5, <3>3, <6>1, <6>2
        <5>2. n \in reader.index + 1 .. Len(reader.data)
          BY <1>4, <5>1
        <5> QED
          BY <1>3, <4>2, <5>2 DEF Ahead
      <4> QED
        BY <1>1, <3>3, <4>1, <4>2 DEF Ahead
    <3> QED
      BY <1>3, <2>1, <3>1, <3>3 DEF ReplacesRow
  <2> QED
    BY <2>4, <2>5
<1>11. ReplaceOK'
  <2>1. Rows(reader.start)' = Rows(reader.start)
    BY <1>3 DEF Rows
  <2> QED
    BY <1>2, <1>3, <1>4, <1>9, <1>10, <2>1 DEF ReplaceOK
<1>12. (ReplaceMongoOK /\ WalkOK /\ SummaryOK)'
  BY <1>3 DEF ReplaceMongoOK, WalkOK, SummaryOK, Reads
<1> QED
  BY <1>6, <1>9, <1>11, <1>12 DEF ReadsOK

LEMMA ReplaceNextReads ==
  ASSUME TInv, ReaderOK, ReadsOK, ReplaceNext PROVE ReaderOK' /\ ReadsOK'
<1> DEFINE full == Len(reader.data) = PageSize
<1>1. /\ reader.pc = "read" /\ reader.what = "replace" /\ reader.next = "row"
      /\ reader.index > Len(reader.data)
      /\ UNCHANGED <<entity, table, now, written, upd>>
  BY DEF ReplaceNext, writerVars
<1>2. reader = Shape /\ Reads("replace") /\ ReplaceOK /\ StartOK
  BY <1>1 DEF ReaderOK, ReadsOK, Reads
<1>3. /\ full => reader' = [what |-> "replace", pc |-> "read", start |-> reader.start,
                            from |-> reader.from, page |-> reader.page + 1, next |-> "page",
                            data |-> reader.data, index |-> reader.index]
      /\ ~full => reader' = [what |-> "replace", pc |-> "done", start |-> reader.start,
                             from |-> reader.from, page |-> reader.page, next |-> "row",
                             data |-> reader.data, index |-> reader.index]
  <2> DEFINE page == reader.page + 1
  <2>1. /\ full => reader' = [reader EXCEPT !.page = page, !.next = "page"]
        /\ ~full => reader' = [reader EXCEPT !.pc = "done"]
    BY DEF ReplaceNext
  <2>2. reader = [what |-> "replace", pc |-> "read", start |-> reader.start, from |-> reader.from,
                  page |-> reader.page, next |-> "row", data |-> reader.data,
                  index |-> reader.index]
    BY <1>1, <1>2 DEF Shape
  <2> HIDE DEF full, page
  <2>3. CASE full
    <3>1. reader' = [what |-> "replace", pc |-> "read", start |-> reader.start,
                     from |-> reader.from, page |-> page, next |-> "page",
                     data |-> reader.data, index |-> reader.index]
      <4>1. ASSUME NEW start, NEW from, NEW page0, NEW data, NEW index,
                   reader = [what |-> "replace", pc |-> "read", start |-> start, from |-> from,
                             page |-> page0, next |-> "row", data |-> data, index |-> index]
            PROVE  reader' = [what |-> "replace", pc |-> "read", start |-> start, from |-> from,
                              page |-> page, next |-> "page", data |-> data, index |-> index]
        BY <2>1, <2>3, <4>1
      <4> QED
        BY <2>2, <4>1
    <3> QED
      BY <2>3, <3>1 DEF page
  <2>4. CASE ~full
    BY <2>1, <2>2, <2>4
  <2> QED
    BY <2>3, <2>4
<1>4. ReaderOK' /\ Deleted' = Deleted /\ Changed' = Changed
  <2>1. reader' = Shape'
    BY <1>3 DEF Shape
  <2>2. Rows(table') = Rows(table)
    BY <1>1
  <2> QED
    BY <1>1, <1>3, <2>1, <2>2, ReaderGoes
<1>5. /\ reader.page \in Nat \ {0} /\ PageSize \in Nat
      /\ Skip(reader.page + 1, PageSize) = reader.page * PageSize
  BY <1>2, Skips, JudgeReadsAssumption DEF ReplaceOK
<1>6. ASSUME Deleted = {}, NEW i \in Rows(reader.start), i \notin Changed
      PROVE  ReplacesRow(i)'
  <2>1. ReplacesRow(i)
    BY <1>2, <1>6 DEF ReplaceOK
  <2>2. Rank(i)' = Rank(i)
    BY <1>1 DEF Rank, Rows
  <2>3. Ahead(i) => full /\ Rank(i) >= reader.page * PageSize
    <3>1. reader.index .. Len(reader.data) = {}
      BY <1>1, <1>2 DEF ReplaceOK
    <3> QED
      BY <1>1, <3>1 DEF Ahead
  <2>4. Ahead(i) => Ahead(i)'
    BY <1>3, <1>5, <2>2, <2>3 DEF Ahead
  <2> QED
    BY <1>1, <1>3, <2>1, <2>4 DEF ReplacesRow
<1>7. ReplaceOK'
  <2>1. Rows(reader.start)' = Rows(reader.start)
    BY <1>3 DEF Rows
  <2>2. /\ reader.data \in Seq([_id : Ids, text : Nat]) /\ reader.index \in Nat \ {0}
        /\ reader.page + 1 \in Nat \ {0}
    BY <1>1, <1>2, <1>5 DEF ReplaceOK
  <2> HIDE DEF full
  <2>3. CASE full
    BY <1>3, <1>4, <1>5, <1>6, <2>1, <2>2, <2>3 DEF ReplaceOK
  <2>4. CASE ~full
    BY <1>3, <1>4, <1>5, <1>6, <2>1, <2>2, <2>4 DEF ReplaceOK
  <2> QED
    BY <2>3, <2>4
<1>8. (ReplaceMongoOK /\ WalkOK /\ SummaryOK)'
  BY <1>3 DEF ReplaceMongoOK, WalkOK, SummaryOK, Reads
<1> QED
  BY <1>4, <1>7, <1>8 DEF ReadsOK
\* Documents

LEMMA WriterReplaceMongo ==
  ASSUME TInv, ReaderOK, ReplaceMongoOK, UNCHANGED reader, NEW op, NEW ids, Effect(op, ids)
  PROVE  ReplaceMongoOK'
<1> SUFFICES ASSUME Reads("replaceMongo") PROVE ReplaceMongoOK'
  BY DEF ReplaceMongoOK, Reads
<1>1. StartOK
  BY DEF ReaderOK, Reads
<1>2. ASSUME NEW i \in Rows(reader.start), i \notin Changed' PROVE ReplacesDocument(i)'
  <2>1. table'[i] \in {table[i], NoRow} /\ ReplacesDocument(i)
    BY <1>1, <1>2, Untouched DEF ReplaceMongoOK
  <2> QED
    BY <2>1 DEF ReplacesDocument
<1>3. Rows(reader.start)' = Rows(reader.start)
  BY DEF Rows
<1> QED
  BY <1>2, <1>3 DEF ReplaceMongoOK, Reads

LEMMA BeginReplaceMongoReads ==
  ASSUME TInv, ReaderOK, BeginReplaceMongo PROVE ReaderOK' /\ ReadsOK'
<1> DEFINE request == [what |-> "replaceMongo", pc |-> "read", start |-> table, from |-> Now,
                       next |-> "find", seen |-> {}, bulk |-> <<>>, index |-> 1]
<1>1. Begin(request) /\ reader' = request /\ UNCHANGED <<entity, table, now, written, upd>>
  BY DEF BeginReplaceMongo, Begin, writerVars
<1>2. ReaderOK'
  BY <1>1, BeginReader DEF Shape
<1>3. ReplaceMongoOK'
  <2>1. <<>> \in Seq(Ids)
    OBVIOUS
  <2> QED
    BY <1>1, <2>1 DEF ReplaceMongoOK, ReplacesDocument
<1>4. (ReplaceOK /\ WalkOK /\ SummaryOK)'
  BY <1>1 DEF ReplaceOK, WalkOK, SummaryOK, Reads
<1> QED
  BY <1>2, <1>3, <1>4 DEF ReadsOK

LEMMA FindDocumentsReads ==
  ASSUME TInv, ReaderOK, ReadsOK, FindDocuments PROVE ReaderOK' /\ ReadsOK'
<1>1. /\ reader.pc = "read" /\ reader.what = "replaceMongo" /\ reader.next = "find"
      /\ UNCHANGED <<entity, table, now, written, upd>>
  BY DEF FindDocuments, writerVars
<1>2. reader = Shape /\ Reads("replaceMongo") /\ ReplaceMongoOK /\ StartOK
  BY <1>1 DEF ReaderOK, ReadsOK, Reads
<1> DEFINE rest == Rows(table) \ reader.seen
<1>3. reader = [what |-> "replaceMongo", pc |-> "read", start |-> reader.start,
                from |-> reader.from, next |-> "find", seen |-> reader.seen,
                bulk |-> reader.bulk, index |-> 1]
  BY <1>1, <1>2 DEF Shape, ReplaceMongoOK
<1>4. reader.bulk \in Seq(Ids) /\ Len(reader.bulk) \in Nat
  BY <1>2 DEF ReplaceMongoOK
<1>5. Rows(reader.start) \subseteq Ids
  BY DEF Rows
<1>6. CASE rest = {} /\ reader' = [reader EXCEPT !.next = "execute"]
  <2>1. reader' = [what |-> "replaceMongo", pc |-> "read", start |-> reader.start,
                   from |-> reader.from, next |-> "execute", seen |-> reader.seen,
                   bulk |-> reader.bulk, index |-> 1]
    BY <1>3, <1>6
  <2>2. ReaderOK' /\ Changed' = Changed
    <3>1. reader' = Shape' /\ Rows(table') = Rows(table)
      BY <1>1, <2>1 DEF Shape
    <3> QED
      BY <1>1, <2>1, <3>1, ReaderGoes
  <2>3. ASSUME NEW i \in Rows(reader.start), i \notin Changed PROVE ReplacesDocument(i)'
    <3>1. ReplacesDocument(i)
      BY <1>2, <2>3 DEF ReplaceMongoOK
    <3>2. i \in reader.seen \/ table[i] = NoRow
      BY <1>5, <1>6, <2>3 DEF Rows
    <3> QED
      BY <1>1, <1>3, <2>1, <3>1, <3>2 DEF ReplacesDocument
  <2>4. ReplaceMongoOK'
    <3>1. Rows(reader.start)' = Rows(reader.start)
      BY <2>1 DEF Rows
    <3> QED
      BY <1>4, <2>1, <2>2, <2>3, <3>1 DEF ReplaceMongoOK
  <2>5. (ReplaceOK /\ WalkOK /\ SummaryOK)'
    BY <2>1 DEF ReplaceOK, WalkOK, SummaryOK, Reads
  <2> QED
    BY <2>2, <2>4, <2>5 DEF ReadsOK
<1>7. ASSUME NEW page \in SUBSET rest,
             NEW found \in SetToSeqs({i \in page : table[i].text > 0}),
             reader' = [reader EXCEPT !.bulk = @ \o found, !.seen = @ \cup page]
      PROVE  ReaderOK' /\ ReadsOK'
  <2>1. reader' = [what |-> "replaceMongo", pc |-> "read", start |-> reader.start,
                   from |-> reader.from, next |-> "find", seen |-> reader.seen \cup page,
                   bulk |-> reader.bulk \o found, index |-> 1]
    <3> DEFINE bulk == reader.bulk \o found
               seen == reader.seen \cup page
    <3>1. reader' = [reader EXCEPT !.bulk = bulk, !.seen = seen]
      BY <1>7
    <3> HIDE DEF bulk, seen
    <3>2. reader' = [what |-> "replaceMongo", pc |-> "read", start |-> reader.start,
                     from |-> reader.from, next |-> "find", seen |-> seen, bulk |-> bulk,
                     index |-> 1]
      <4>1. ASSUME NEW start, NEW from, NEW seen0, NEW bulk0,
                   reader = [what |-> "replaceMongo", pc |-> "read", start |-> start,
                             from |-> from, next |-> "find", seen |-> seen0,
                             bulk |-> bulk0, index |-> 1]
            PROVE  reader' = [what |-> "replaceMongo", pc |-> "read", start |-> start,
                              from |-> from, next |-> "find", seen |-> seen,
                              bulk |-> bulk, index |-> 1]
        BY <3>1, <4>1
      <4> QED
        BY <1>3, <4>1
    <3> QED
      BY <3>2 DEF bulk, seen
  <2>2. ReaderOK' /\ Changed' = Changed
    <3>1. reader' = Shape' /\ Rows(table') = Rows(table)
      BY <1>1, <2>1 DEF Shape
    <3> QED
      BY <1>1, <2>1, <3>1, ReaderGoes
  <2> DEFINE S == {i \in page : table[i].text > 0}
  <2>3. /\ found \in Seq(S) /\ Len(found) \in Nat /\ DOMAIN found = 1 .. Len(found)
        /\ \A i \in S : \E n \in DOMAIN found : found[n] = i
    <3>1. S \subseteq Rows(table) /\ IsFiniteSet(S)
      <4>1. S \subseteq Rows(table)
        OBVIOUS
      <4> QED
        BY <4>1, RowsAreFinite
    <3> HIDE DEF S
    <3>2. found \in SetToSeqs(S)
      BY <1>7 DEF S
    <3> QED
      BY <3>1, <3>2, Positions
  <2>4. found \in Seq(Ids) /\ reader.bulk \o found \in Seq(Ids)
    <3>1. S \subseteq Ids
      BY DEF Rows
    <3>2. found \in Seq(Ids)
      BY <2>3, <3>1
    <3> QED
      BY <1>4, <3>2
  <2>5. /\ \A n \in 1 .. Len(reader.bulk) : (reader.bulk \o found)[n] = reader.bulk[n]
        /\ \A n \in 1 .. Len(found) : (reader.bulk \o found)[Len(reader.bulk) + n] = found[n]
        /\ Len(reader.bulk \o found) = Len(reader.bulk) + Len(found)
    BY <1>4, <2>4
  <2>6. ASSUME NEW i \in Rows(reader.start), i \notin Changed PROVE ReplacesDocument(i)'
    <3>1. ReplacesDocument(i)
      BY <1>2, <2>6 DEF ReplaceMongoOK
    <3>2. CASE table[i] = NoRow \/ table[i].text = 0
      BY <1>1, <3>2 DEF ReplacesDocument
    <3>3. CASE i \notin reader.seen \cup page
      BY <2>1, <3>3 DEF ReplacesDocument
    <3>4. CASE \E n \in 1 .. Len(reader.bulk) : reader.bulk[n] = i
      <4>1. PICK n \in 1 .. Len(reader.bulk) : reader.bulk[n] = i
        BY <3>4
      <4>2. n \in 1 .. Len(reader.bulk \o found) /\ (reader.bulk \o found)[n] = i
        BY <1>4, <2>3, <2>5, <4>1
      <4> QED
        BY <2>1, <4>2 DEF ReplacesDocument
    <3>5. CASE i \in S
      <4>1. PICK n \in 1 .. Len(found) : found[n] = i
        BY <2>3, <3>5
      <4>2. PICK m : m = Len(reader.bulk) + n
        OBVIOUS
      <4>3. m \in 1 .. Len(reader.bulk \o found) /\ (reader.bulk \o found)[m] = i
        BY <1>4, <2>3, <2>5, <4>1, <4>2
      <4> QED
        BY <2>1, <4>3 DEF ReplacesDocument
    <3>6. i \in page => i \in S \/ table[i].text = 0
      <4>1. \A j \in Rows(table) : table[j].text \in Nat
        BY DEF TInv, TypeOK, Rows, AnyRow
      <4>2. page \subseteq Rows(table)
        BY <1>7
      <4> QED
        BY <4>1, <4>2
    <3> QED
      BY <1>3, <3>1, <3>2, <3>3, <3>4, <3>5, <3>6 DEF ReplacesDocument
  <2>7. ReplaceMongoOK'
    <3>1. Rows(reader.start)' = Rows(reader.start)
      BY <2>1 DEF Rows
    <3> QED
      BY <2>1, <2>2, <2>4, <2>6, <3>1 DEF ReplaceMongoOK
  <2>8. (ReplaceOK /\ WalkOK /\ SummaryOK)'
    BY <2>1 DEF ReplaceOK, WalkOK, SummaryOK, Reads
  <2> QED
    BY <2>2, <2>7, <2>8 DEF ReadsOK
<1> QED
  BY <1>6, <1>7 DEF FindDocuments

LEMMA ExecuteBulkReads ==
  ASSUME TInv, ReaderOK, ReadsOK, ExecuteBulk PROVE ReaderOK' /\ ReadsOK'
<1> DEFINE ends == reader.index > Len(reader.bulk)
           x == reader.bulk[reader.index]
<1>1. /\ reader.pc = "read" /\ reader.what = "replaceMongo" /\ reader.next = "execute"
      /\ UNCHANGED <<entity, now, written, upd>>
      /\ ends => reader' = [reader EXCEPT !.pc = "done"] /\ table' = table
      /\ ~ends => /\ table' = IF table[x] = NoRow THEN table ELSE [table EXCEPT ![x].text = 0]
                  /\ reader' = [reader EXCEPT !.index = @ + 1]
  BY DEF ExecuteBulk
<1>2. reader = Shape /\ Reads("replaceMongo") /\ ReplaceMongoOK /\ StartOK
  BY <1>1 DEF ReaderOK, ReadsOK, Reads
<1>3. reader = [what |-> "replaceMongo", pc |-> "read", start |-> reader.start,
                from |-> reader.from, next |-> "execute", seen |-> reader.seen,
                bulk |-> reader.bulk, index |-> reader.index]
  BY <1>1, <1>2 DEF Shape
<1>4. reader.index \in Nat \ {0} /\ reader.bulk \in Seq(Ids) /\ Len(reader.bulk) \in Nat
  BY <1>2 DEF ReplaceMongoOK
<1>5. ~ends => x \in Ids
  BY <1>4
<1>6. /\ ends => reader' = [what |-> "replaceMongo", pc |-> "done", start |-> reader.start,
                            from |-> reader.from, next |-> "execute", seen |-> reader.seen,
                            bulk |-> reader.bulk, index |-> reader.index]
      /\ ~ends => reader' = [what |-> "replaceMongo", pc |-> "read", start |-> reader.start,
                             from |-> reader.from, next |-> "execute", seen |-> reader.seen,
                             bulk |-> reader.bulk, index |-> reader.index + 1]
  <2> HIDE DEF ends, x
  <2> QED
    BY <1>1, <1>3
<1>7. /\ \A i \in Ids : i # x => table'[i] = table[i]
      /\ ends => table' = table
      /\ ~ends => (table'[x] = NoRow \/ table'[x].text = 0)
      /\ Rows(table') = Rows(table)
  <2>1. CASE ends \/ table[x] = NoRow
    BY <1>1, <2>1
  <2>2. CASE ~ends /\ table[x] # NoRow
    <3>1. table[x] \in AnyRow
      BY <1>5, <2>2 DEF TInv, TypeOK
    <3>2. /\ table'[x] = [table[x] EXCEPT !.text = 0]
          /\ \A i \in Ids : i # x => table'[i] = table[i]
      BY <1>1, <1>5, <2>2 DEF TInv, TypeOK
    <3>3. table'[x].text = 0 /\ table'[x] \in AnyRow
      BY <3>1, <3>2 DEF AnyRow
    <3>4. table'[x] # NoRow
      BY <3>3, RowIsNotNoRow
    <3>5. Rows(table') = Rows(table)
      BY <1>5, <2>2, <3>2, <3>4 DEF Rows
    <3> QED
      BY <2>2, <3>2, <3>3, <3>5
  <2> QED
    BY <2>1, <2>2
<1> HIDE DEF ends, x
<1>8. ReaderOK' /\ Changed' = Changed
  <2>1. reader' = Shape'
    BY <1>6 DEF Shape
  <2> QED
    BY <1>1, <1>6, <1>7, <2>1, ReaderGoes
<1>9. ASSUME NEW i \in Rows(reader.start), i \notin Changed PROVE ReplacesDocument(i)'
  <2>1. ReplacesDocument(i) /\ i \in Ids
    BY <1>2, <1>9 DEF ReplaceMongoOK, Rows
  <2>2. CASE i = x /\ ~ends
    BY <1>7, <2>2 DEF ReplacesDocument
  <2>3. CASE ~(i = x /\ ~ends)
    <3>1. table'[i] = table[i]
      BY <1>7, <2>1, <2>3
    <3>2. ASSUME NEW n \in reader.index .. Len(reader.bulk), reader.bulk[n] = i
          PROVE  ReplacesDocument(i)'
      <4>1. ~ends
        BY <1>4, <3>2 DEF ends
      <4>2. n \in reader.index + 1 .. Len(reader.bulk)
        BY <1>4, <2>3, <3>2, <4>1 DEF x
      <4> QED
        BY <1>6, <3>2, <4>1, <4>2 DEF ReplacesDocument
    <3> QED
      BY <1>1, <2>1, <3>1, <3>2 DEF ReplacesDocument
  <2> QED
    BY <2>2, <2>3
<1>10. ReplaceMongoOK'
  <2>1. Rows(reader.start)' = Rows(reader.start)
    BY <1>6 DEF Rows
  <2> QED
    BY <1>4, <1>6, <1>8, <1>9, <2>1 DEF ReplaceMongoOK
<1>11. (ReplaceOK /\ WalkOK /\ SummaryOK)'
  BY <1>6 DEF ReplaceOK, WalkOK, SummaryOK, Reads
<1> QED
  BY <1>8, <1>10, <1>11 DEF ReadsOK

-----------------------------------------------------------------------------
(* The pages of a list *)

\* The orders of a walk leave no two rows level.
LEMMA BeforeIs ==
  ASSUME NEW i, NEW j
  PROVE  /\ Before(i, j, <<"_id">>) <=> i > j
         /\ Before(i, j, <<"_id">>)' <=> i > j
         /\ Before(i, j, <<"at", "_id">>) <=>
              table[i].at > table[j].at \/ (table[i].at = table[j].at /\ i > j)
         /\ Before(i, j, <<"at", "_id">>)' <=>
              table'[i].at > table'[j].at \/ (table'[i].at = table'[j].at /\ i > j)
<1>1. (Before(i, j, <<"_id">>) <=> i > j) /\ (Before(i, j, <<"_id">>)' <=> i > j)
  <2> DEFINE order == <<"_id">>
  <2>1. DOMAIN order = {1} /\ order[1] = "_id" /\ 1 .. 1 - 1 = {}
    OBVIOUS
  <2> HIDE DEF order
  <2>2. (Before(i, j, order) <=> i > j) /\ (Before(i, j, order)' <=> i > j)
    BY <2>1 DEF Before
  <2> QED
    BY <2>2 DEF order
<1>2. /\ Before(i, j, <<"at", "_id">>) <=>
           table[i].at > table[j].at \/ (table[i].at = table[j].at /\ i > j)
      /\ Before(i, j, <<"at", "_id">>)' <=>
           table'[i].at > table'[j].at \/ (table'[i].at = table'[j].at /\ i > j)
  <2> DEFINE order == <<"at", "_id">>
  <2>1. /\ DOMAIN order = {1, 2} /\ order[1] = "at" /\ order[2] = "_id"
        /\ 1 .. 1 - 1 = {} /\ 1 .. 2 - 1 = {1}
    OBVIOUS
  <2> HIDE DEF order
  <2>2. Before(i, j, order) <=>
          table[i].at > table[j].at \/ (table[i].at = table[j].at /\ i > j)
    BY <2>1 DEF Before
  <2>3. Before(i, j, order)' <=>
          table'[i].at > table'[j].at \/ (table'[i].at = table'[j].at /\ i > j)
    BY <2>1 DEF Before
  <2> QED
    BY <2>2, <2>3 DEF order
<1> QED
  BY <1>1, <1>2

LEMMA BeforeIsTotal ==
  ASSUME TypeOK, NEW order \in WalkOrders, NEW i \in Rows(table), NEW j \in Rows(table)
  PROVE  /\ ~ Before(i, i, order)
         /\ i # j => (Before(i, j, order) <=> ~ Before(j, i, order))
<1>1. i \in Nat /\ j \in Nat /\ table[i].at \in Nat /\ table[j].at \in Nat
  BY JudgeTablesAssumption DEF TypeOK, Rows, AnyRow
<1>2. CASE order = <<"_id">>
  <2>1. /\ ~ Before(i, i, <<"_id">>)
        /\ i # j => (Before(i, j, <<"_id">>) <=> ~ Before(j, i, <<"_id">>))
    BY <1>1, BeforeIs
  <2> QED
    BY <1>2, <2>1
<1>3. CASE order = <<"at", "_id">>
  <2> DEFINE o == <<"at", "_id">>
  <2> HIDE DEF o
  <2>1. /\ Before(i, i, o) <=> table[i].at > table[i].at \/ (table[i].at = table[i].at /\ i > i)
        /\ Before(i, j, o) <=> table[i].at > table[j].at \/ (table[i].at = table[j].at /\ i > j)
        /\ Before(j, i, o) <=> table[j].at > table[i].at \/ (table[j].at = table[i].at /\ j > i)
    BY BeforeIs DEF o
  <2>2. ~ Before(i, i, o) /\ (i # j => (Before(i, j, o) <=> ~ Before(j, i, o)))
    BY <1>1, <2>1
  <2> QED
    BY <1>3, <2>2 DEF o
<1> QED
  BY <1>2, <1>3 DEF WalkOrders

LEMMA AtOrders ==
  ASSUME NEW order \in WalkOrders PROVE order = <<"_id">> \/ "at" \in ToSet(order)
<1>1. "at" \in ToSet(<<"at", "_id">>)
  BY DEF ToSet
<1> QED
  BY <1>1 DEF WalkOrders

\* The order of two rows is kept while both stay, and keep their times.
LEMMA BeforeStays ==
  ASSUME NEW order \in WalkOrders, NEW i, NEW j,
         order = <<"_id">> \/ (table'[i].at = table[i].at /\ table'[j].at = table[j].at)
  PROVE  Before(i, j, order)' <=> Before(i, j, order)
<1>1. /\ Before(i, j, <<"_id">>) <=> i > j
      /\ Before(i, j, <<"at", "_id">>) <=>
           table[i].at > table[j].at \/ (table[i].at = table[j].at /\ i > j)
  BY BeforeIs
<1>2. /\ Before(i, j, <<"_id">>)' <=> i > j
      /\ Before(i, j, <<"at", "_id">>)' <=>
           table'[i].at > table'[j].at \/ (table'[i].at = table'[j].at /\ i > j)
  BY BeforeIs
<1>3. CASE order = <<"_id">>
  BY <1>1, <1>2, <1>3
<1>4. CASE table'[i].at = table[i].at /\ table'[j].at = table[j].at
  BY <1>1, <1>2, <1>4 DEF WalkOrders
<1> QED
  BY <1>3, <1>4

\* The row at the n-th position has n - 1 before it.
LEMMA SortedPlace ==
  ASSUME TypeOK, NEW order \in WalkOrders, NEW s \in Sorted(Rows(table), order),
         NEW n \in DOMAIN s, order = reader.order
  PROVE  Place(s[n]) = n - 1
<1> DEFINE B == {j \in Rows(table) : Before(j, s[n], order)}
<1>1. IsFiniteSet(Rows(table))
  BY RowsAreFinite
<1>2. /\ s \in SetToSeqs(Rows(table))
      /\ \A m, k \in DOMAIN s : m < k => ~ Before(s[k], s[m], order)
  BY DEF Sorted
<1>3. /\ Len(s) \in Nat /\ DOMAIN s = 1 .. Len(s)
      /\ \A m \in DOMAIN s : s[m] \in Rows(table)
      /\ \A i \in Rows(table) : \E m \in DOMAIN s : s[m] = i
      /\ \A k, m \in DOMAIN s : s[k] = s[m] => k = m
  BY <1>1, <1>2, Positions, ElementOf
<1>4. ASSUME NEW j \in B PROVE j \in {s[m] : m \in 1 .. n - 1}
  <2>1. PICK m \in DOMAIN s : s[m] = j
    BY <1>3
  <2>2. ~ n < m /\ m # n
    BY <1>2, <1>3, <2>1, BeforeIsTotal
  <2>3. m \in 1 .. n - 1
    BY <1>3, <2>1, <2>2
  <2> QED
    BY <2>1, <2>3
<1>5. ASSUME NEW m \in 1 .. n - 1 PROVE s[m] \in B
  <2>1. m \in DOMAIN s /\ m < n /\ m # n
    BY <1>3
  <2>2. ~ Before(s[n], s[m], order) /\ s[m] # s[n]
    BY <1>2, <1>3, <2>1
  <2> QED
    BY <1>3, <2>1, <2>2, BeforeIsTotal
<1>6. B = {s[m] : m \in 1 .. n - 1}
  BY <1>4, <1>5
<1>7. Cardinality(B) = n - 1
  BY <1>1, <1>2, <1>6, BeforeThe
<1> QED
  BY <1>7 DEF Place

LEMMA PlaceIsNat == ASSUME NEW i PROVE Place(i) \in Nat
<1>1. IsFiniteSet({j \in Rows(table) : Before(j, i, reader.order)})
  BY RowsAreFinite
<1> QED
  BY <1>1, FS_CardinalityType DEF Place

\* A row that stays moves on when rows are created, and back when they are deleted.
LEMMA PlaceMoves ==
  ASSUME TInv, ReaderOK, reader.order \in WalkOrders, UNCHANGED reader,
         NEW op, NEW ids, Effect(op, ids), ~ Displaces(op),
         NEW i \in Rows(table) \cap Rows(table')
  PROVE  /\ op # "delete" => Place(i)' >= Place(i)
         /\ op \notin {"create", "byHand"} => Place(i)' <= Place(i)
         /\ Place(i) \in Nat /\ Place(i)' \in Nat
<1> DEFINE order == reader.order
           A == {j \in Rows(table) : Before(j, i, order)}
           B == {j \in Rows(table') : Before(j, i, order)'}
<1>1. /\ IsFiniteSet(A) /\ IsFiniteSet(B) /\ Cardinality(A) \in Nat /\ Cardinality(B) \in Nat
  BY RowsAreFinite, FS_CardinalityType
<1>2. Place(i) = Cardinality(A) /\ Place(i)' = Cardinality(B)
  BY DEF Place
<1>3. \A j \in Rows(table) \cap Rows(table') : Before(j, i, order)' <=> Before(j, i, order)
  <2>1. op # "retime" => \A j \in Rows(table) \cap Rows(table') : table'[j].at = table[j].at
    BY EffectOnRows DEF ReaderOK
  <2>2. op = "retime" => order = <<"_id">>
    BY AtOrders DEF Displaces
  <2>3. PICK o \in WalkOrders : o = reader.order
    OBVIOUS
  <2>4. ASSUME NEW j \in Rows(table) \cap Rows(table')
        PROVE  Before(j, i, o)' <=> Before(j, i, o)
    <3>1. o = <<"_id">> \/ (table'[i].at = table[i].at /\ table'[j].at = table[j].at)
      BY <2>1, <2>2, <2>3, <2>4
    <3> QED
      BY <3>1, BeforeStays
  <2> QED
    BY <2>3, <2>4
<1>4. op # "delete" => Rows(table) \subseteq Rows(table')
  BY EffectOnRows DEF Effect, Op, ReaderOK
<1>5. op \notin {"create", "byHand"} => Rows(table') \subseteq Rows(table)
  BY EffectOnRows DEF Effect, Op, ReaderOK
<1>6. op # "delete" => Cardinality(A) <= Cardinality(B)
  BY <1>1, <1>3, <1>4, FS_Subset
<1>7. op \notin {"create", "byHand"} => Cardinality(B) <= Cardinality(A)
  BY <1>1, <1>3, <1>5, FS_Subset
<1> QED
  BY <1>1, <1>2, <1>6, <1>7

LEMMA PagesAnswered ==
  ASSUME WalkOK, Reads("walk")
  PROVE  /\ Answered \in Nat /\ Limit \in Nat \ {0} /\ Answered * Limit \in Nat
         /\ Skip(Answered, Limit) \in Int
         /\ reader.next = "rows" => Skip(reader.page, Limit) = Answered * Limit
         /\ reader.next = "count" => /\ reader.page * Limit = Answered * Limit
                                     /\ Skip(reader.page, Limit) + Limit = Answered * Limit
<1>1. reader.page \in Nat \ {0} /\ reader.next \in {"rows", "count"}
  BY DEF WalkOK
<1>2. Limit \in Nat \ {0}
  BY JudgeReadsAssumption
<1>3. \A k \in Nat : k * Limit \in Nat /\ (k - 1) * Limit \in Int
  BY <1>2
<1>4. Answered \in Nat
  BY <1>1 DEF Answered
<1>5. Skip(reader.page, Limit) + Limit = reader.page * Limit
  BY <1>1, <1>2, Skips
<1> QED
  BY <1>1, <1>2, <1>3, <1>4, <1>5 DEF Answered, Skip

LEMMA WriterWalk ==
  ASSUME TInv, ReaderOK, WalkOK, UNCHANGED reader, NEW op, NEW ids, Effect(op, ids)
  PROVE  WalkOK'
<1> SUFFICES ASSUME Reads("walk") PROVE WalkOK'
  BY DEF WalkOK, Reads
<1>1. StartOK
  BY DEF ReaderOK, Reads
<1>2. /\ Deleted' = Deleted \cup (IF op = "delete" THEN ids ELSE {})
      /\ Created' = Created \cup (IF op \in {"create", "byHand"} THEN ids ELSE {})
      /\ Displaced' = Displaced \cup (IF Displaces(op) THEN ids ELSE {})
      /\ Now' = Now + 1 /\ Now \in Nat
  BY <1>1, History
<1>d. Displaced' = {} => ~ Displaces(op) /\ Displaced = {}
  BY <1>2 DEF Effect, Displaces
<1>3. (Deleted \cup Displaced)' = {} =>
        op # "delete" /\ ~ Displaces(op) /\ Deleted \cup Displaced = {}
  BY <1>2, <1>d DEF Effect
<1>4. (Created \cup Displaced)' = {} =>
        op \notin {"create", "byHand"} /\ ~ Displaces(op) /\ Created \cup Displaced = {}
  BY <1>2, <1>d DEF Effect
<1>5. Answered' = Answered /\ Shown' = Shown /\ Rows(reader.start)' = Rows(reader.start)
  BY DEF Answered, Shown, Rows
<1>6. reader.order \in WalkOrders /\ Answered * Limit \in Nat
  BY PagesAnswered DEF WalkOK
<1>7. ASSUME (Deleted \cup Displaced)' = {}, NEW i \in Rows(reader.start) \ Shown
      PROVE  Place(i)' >= Answered * Limit
  <2>1. i \in Rows(table) /\ Place(i) >= Answered * Limit
    BY <1>1, <1>3, <1>7 DEF StartOK, WalkOK
  <2>2. Rows(table) \subseteq Rows(table')
    BY <1>3, <1>7, EffectOnRows DEF Effect, Op, ReaderOK
  <2>3. Place(i)' >= Place(i) /\ Place(i) \in Nat /\ Place(i)' \in Nat
    BY <1>3, <1>6, <1>7, <2>1, <2>2, PlaceMoves
  <2> QED
    BY <1>6, <2>1, <2>3
<1>8. ASSUME (Created \cup Displaced)' = {}, NEW i \in Shown \cap Rows(table')
      PROVE  Place(i)' < Answered * Limit
  <2>1. Rows(table') \subseteq Rows(table)
    BY <1>4, <1>8, EffectOnRows DEF Effect, Op, ReaderOK
  <2>2. i \in Rows(table) /\ Place(i) < Answered * Limit
    BY <1>4, <1>8, <2>1 DEF WalkOK
  <2>3. Place(i)' <= Place(i) /\ Place(i) \in Nat /\ Place(i)' \in Nat
    BY <1>4, <1>6, <1>8, <2>1, <2>2, PlaceMoves
  <2> QED
    BY <1>6, <2>2, <2>3
<1>9. (reader.next = "count" => Fits(Cardinality(Rows(table)), Now - reader.rowsAt))'
  <2> SUFFICES ASSUME reader.next = "count"
               PROVE  Fits(Cardinality(Rows(table)), Now - reader.rowsAt)'
    OBVIOUS
  <2> DEFINE seen == Skip(Answered, Limit) + Len(reader.rows)
  <2>1. seen \in Int /\ reader.rowsAt \in Nat
    BY PagesAnswered DEF WalkOK
  <2>2. /\ Cardinality(Rows(table)) \in Nat /\ Cardinality(Rows(table')) \in Nat
        /\ Cardinality(Rows(table')) <= Cardinality(Rows(table)) + 1
        /\ Cardinality(Rows(table)) <= Cardinality(Rows(table')) + 1
    BY EffectOnCount DEF ReaderOK
  <2>3. /\ reader.rows # <<>> => Cardinality(Rows(table)) >= seen - (Now - reader.rowsAt)
        /\ Len(reader.rows) < Limit => Cardinality(Rows(table)) <= seen + (Now - reader.rowsAt)
    BY DEF WalkOK, Fits
  <2>4. seen' = seen
    BY <1>5 DEF Skip
  <2> HIDE DEF seen
  <2>5. /\ reader.rows # <<>> => Cardinality(Rows(table')) >= seen - (Now' - reader.rowsAt)
        /\ Len(reader.rows) < Limit => Cardinality(Rows(table')) <= seen + (Now' - reader.rowsAt)
    BY <1>2, <2>1, <2>2, <2>3
  <2> QED
    BY <2>4, <2>5 DEF Fits, seen
<1>10. (reader.next = "rows" /\ reader.page > 1 =>
          Fits(reader.total, reader.countAt - reader.rowsAt))'
  BY <1>5 DEF WalkOK, Fits
<1>11. reader.rowsAt \in 0 .. Len(written')
  BY <1>2 DEF WalkOK, Now
<1> QED
  BY <1>3, <1>4, <1>5, <1>7, <1>8, <1>9, <1>10, <1>11 DEF WalkOK, Reads

LEMMA BeginWalkReads == ASSUME TInv, ReaderOK, BeginWalk PROVE ReaderOK' /\ ReadsOK'
<1>1. PICK sort \in {<<>>, <<"at">>} :
        Begin([what |-> "walk", pc |-> "read", start |-> table, from |-> Now,
               order |-> Order(sort), page |-> 1, next |-> "rows", rows |-> <<>>, shown |-> <<>>,
               rowsAt |-> Now, total |-> 0, countAt |-> Now])
  BY DEF BeginWalk
<1> DEFINE order == Order(sort)
           request == [what |-> "walk", pc |-> "read", start |-> table, from |-> Now,
                       order |-> order, page |-> 1, next |-> "rows", rows |-> <<>>,
                       shown |-> <<>>, rowsAt |-> Now, total |-> 0, countAt |-> Now]
<1>2. order \in WalkOrders
  <2>1. Order(<<>>) = <<"_id">>
    <3> DEFINE none == <<>>
    <3>1. DOMAIN none = {}
      OBVIOUS
    <3>0. Append(none, "_id") = <<"_id">>
      <4>1. /\ <<>> \in Seq({"_id"}) /\ <<"_id">> \in Seq({"_id"})
            /\ Append(<<>>, "_id") = <<>> \o <<"_id">> /\ <<>> \o <<"_id">> = <<"_id">>
        BY AppendIsConcat, ConcatEmptySeq
      <4> QED
        BY <4>1
    <3> HIDE DEF none
    <3>2. Order(none) = <<"_id">>
      BY <3>0, <3>1 DEF Order
    <3> QED
      BY <3>2 DEF none
  <2>2. Order(<<"at">>) = <<"at", "_id">>
    <3> DEFINE at == <<"at">>
    <3>0. Append(at, "_id") = <<"at", "_id">>
      <4> DEFINE S == {"at", "_id"}
                 a == Append(at, "_id")
                 b == <<"at", "_id">>
      <4>1. a \in Seq(S) /\ b \in Seq(S) /\ Len(a) = 2 /\ Len(b) = 2
        OBVIOUS
      <4>2. a[1] = "at" /\ a[2] = "_id" /\ b[1] = "at" /\ b[2] = "_id"
        OBVIOUS
      <4> HIDE DEF S, a, b
      <4>3. a = b
        BY <4>1, <4>2, SeqEqual
      <4> QED
        BY <4>3 DEF a, b
    <3>1. DOMAIN at = {1} /\ at[1] = "at"
      OBVIOUS
    <3> HIDE DEF at
    <3>2. Order(at) = <<"at", "_id">>
      BY <3>0, <3>1 DEF Order
    <3> QED
      BY <3>2 DEF at
  <2> QED
    BY <1>1, <2>1, <2>2 DEF WalkOrders
<1> HIDE DEF order
<1>3. Begin(request) /\ reader' = request /\ UNCHANGED <<entity, table, now, written, upd>>
  BY <1>1 DEF Begin, writerVars, order
<1>4. ReaderOK'
  BY <1>3, BeginReader DEF Shape
<1>5. Now \in 0 .. Len(written) /\ Now \in Nat
  BY Lengths DEF Now, TInv
<1>6. \A i : Place(i)' \in Nat
  <2>1. \A i : Place(i)' = Cardinality({j \in Rows(table') : Before(j, i, reader.order)'})
    BY DEF Place
  <2>2. \A i : IsFiniteSet({j \in Rows(table') : Before(j, i, reader.order)'})
    BY RowsAreFinite
  <2> QED
    BY <2>1, <2>2, FS_CardinalityType
<1>7. WalkOK'
  <2>1. <<>> \in Seq(Ids) /\ Len(<<>>) = 0 /\ DOMAIN <<>> = {}
    OBVIOUS
  <2>2. Answered' = 0 /\ 0 * Limit = 0 /\ Shown' = {}
    BY <1>3, <2>1, JudgeReadsAssumption DEF Answered, Shown
  <2>3. \A i : Place(i)' >= 0
    BY <1>6
  <2>4. /\ reader' = request /\ Now' = Now /\ Len(written') = Len(written)
    BY <1>3 DEF Now
  <2> QED
    BY <1>2, <1>5, <2>1, <2>2, <2>3, <2>4 DEF WalkOK
<1>8. (ReplaceOK /\ ReplaceMongoOK /\ SummaryOK)'
  BY <1>3 DEF ReplaceOK, ReplaceMongoOK, SummaryOK, Reads
<1> QED
  BY <1>4, <1>7, <1>8 DEF ReadsOK

LEMMA PageRowsReads == ASSUME TInv, ReaderOK, ReadsOK, PageRows PROVE ReaderOK' /\ ReadsOK'
<1>1. /\ reader.pc = "read" /\ reader.what = "walk" /\ reader.next = "rows"
      /\ UNCHANGED <<entity, table, now, written, upd>>
  BY DEF PageRows, writerVars
<1>2. reader = Shape /\ Reads("walk") /\ WalkOK /\ StartOK
  BY <1>1 DEF ReaderOK, ReadsOK, Reads
<1>3. PICK s \in Sorted(Rows(table), reader.order) :
        LET rows == Slice(s, Skip(reader.page, Limit), Limit)
        IN  reader' = [reader EXCEPT !.rows = rows, !.shown = @ \o rows, !.rowsAt = Now,
                                     !.next = "count"]
  BY DEF PageRows
<1> DEFINE skip == Skip(reader.page, Limit)
           page == Slice(s, skip, Limit)
           shown == reader.shown \o page
<1>4. reader' = [what |-> "walk", pc |-> "read", start |-> reader.start, from |-> reader.from,
                 order |-> reader.order, page |-> reader.page, next |-> "count", rows |-> page,
                 shown |-> shown, rowsAt |-> Now, total |-> reader.total,
                 countAt |-> reader.countAt]
  <2> HIDE DEF page, shown
  <2>1. reader' = [reader EXCEPT !.rows = page, !.shown = shown, !.rowsAt = Now, !.next = "count"]
    BY <1>3 DEF page, shown
  <2>2. reader = [what |-> "walk", pc |-> "read", start |-> reader.start, from |-> reader.from,
                  order |-> reader.order, page |-> reader.page, next |-> "rows",
                  rows |-> reader.rows, shown |-> reader.shown, rowsAt |-> reader.rowsAt,
                  total |-> reader.total, countAt |-> reader.countAt]
    BY <1>1, <1>2 DEF Shape
  <2>3. ASSUME NEW start, NEW from, NEW order, NEW page0, NEW rows0, NEW shown0, NEW rowsAt,
               NEW total, NEW countAt,
               reader = [what |-> "walk", pc |-> "read", start |-> start, from |-> from,
                         order |-> order, page |-> page0, next |-> "rows", rows |-> rows0,
                         shown |-> shown0, rowsAt |-> rowsAt, total |-> total,
                         countAt |-> countAt]
        PROVE  reader' = [what |-> "walk", pc |-> "read", start |-> start, from |-> from,
                          order |-> order, page |-> page0, next |-> "count", rows |-> page,
                          shown |-> shown, rowsAt |-> Now, total |-> total, countAt |-> countAt]
    BY <2>1, <2>3
  <2> QED
    BY <2>2, <2>3
<1>5. /\ ReaderOK' /\ Deleted' = Deleted /\ Created' = Created /\ Displaced' = Displaced
      /\ Now' = Now
  <2> HIDE DEF page, shown
  <2>1. reader' = Shape' /\ Rows(table') = Rows(table)
    BY <1>1, <1>4 DEF Shape
  <2>2. /\ ReaderOK' /\ Deleted' = Deleted /\ Created' = Created /\ Retimed' = Retimed
        /\ Now' = Now
    BY <1>1, <1>4, <2>1, ReaderGoes
  <2>3. reader'.order = reader.order
    BY <1>4
  <2> QED
    BY <2>2, <2>3 DEF Displaced
<1>6. /\ reader.order \in WalkOrders /\ reader.page \in Nat \ {0} /\ reader.shown \in Seq(Ids)
      /\ reader.total \in Nat /\ reader.countAt \in Nat
  BY <1>2 DEF WalkOK
<1>7. /\ skip \in Nat /\ Limit \in Nat \ {0} /\ skip = Answered * Limit
      /\ reader.page * Limit = skip + Limit
  BY <1>1, <1>2, <1>6, PagesAnswered, Skips
<1>8. /\ s \in Seq(Rows(table)) /\ DOMAIN s = 1 .. Len(s) /\ Len(s) = Cardinality(Rows(table))
      /\ \A i \in Rows(table) : \E n \in DOMAIN s : s[n] = i
      /\ \A m, n \in DOMAIN s : s[m] = s[n] => m = n
      /\ Len(s) \in Nat
  BY RowsAreFinite, Positions DEF Sorted
<1>9. /\ page \in Seq(Rows(table)) /\ DOMAIN page = 1 .. Len(page) /\ Len(page) \in Nat
      /\ Len(page) = IF Len(s) <= skip THEN 0
                     ELSE IF Len(s) < skip + Limit THEN Len(s) - skip ELSE Limit
      /\ \A n \in 1 .. Len(page) : skip + n \in DOMAIN s /\ page[n] = s[skip + n]
  <2> HIDE DEF skip
  <2>1. /\ page \in Seq(Rows(table))
        /\ Len(page) = IF Len(s) <= skip THEN 0
                       ELSE IF Len(s) < skip + Limit THEN Len(s) - skip ELSE Limit
        /\ \A n \in 1 .. Len(page) : skip + n \in DOMAIN s /\ page[n] = s[skip + n]
    <3>1. s \in Seq(Rows(table)) /\ skip \in Nat /\ Limit \in Nat
      BY <1>7, <1>8
    <3> QED
      BY <3>1, SliceIs
  <2> HIDE DEF page
  <2>2. DOMAIN page = 1 .. Len(page) /\ Len(page) \in Nat
    BY <2>1
  <2> QED
    BY <2>1, <2>2
<1>10. ASSUME NEW n \in DOMAIN s PROVE Place(s[n]) = n - 1
  BY <1>6, <1>10, SortedPlace DEF TInv
<1>11. \A i : Place(i)' = Place(i)
  BY <1>1, <1>4 DEF Place, Before, Rows
<1> HIDE DEF skip, page
<1>12. page \in Seq(Ids) /\ shown \in Seq(Ids)
  <2>1. Rows(table) \subseteq Ids
    BY DEF Rows
  <2>2. page \in Seq(Ids)
    BY <1>9, <2>1
  <2> QED
    BY <1>6, <2>2
<1>13. /\ Len(shown) = Len(reader.shown) + Len(page) /\ DOMAIN shown = 1 .. Len(shown)
       /\ Len(reader.shown) \in Nat
       /\ \A n \in 1 .. Len(reader.shown) : shown[n] = reader.shown[n]
       /\ \A n \in 1 .. Len(page) : shown[Len(reader.shown) + n] = page[n]
  BY <1>6, <1>12
<1>14. ASSUME NEW n \in 1 .. Len(page)
       PROVE  /\ page[n] \in Rows(table) /\ Place(page[n]) = skip + n - 1
  <2>1. PICK k \in DOMAIN s : k = skip + n
    BY <1>9
  <2>2. Place(s[k]) = k - 1 /\ page[n] = s[k] /\ s[k] \in Rows(table)
    BY <1>8, <1>9, <1>10, <2>1, ElementOf
  <2> QED
    BY <1>7, <2>1, <2>2
<1>15. Answered' = reader.page /\ Answered' * Limit = skip + Limit
  BY <1>4, <1>7 DEF Answered
<1> HIDE DEF shown
<1>16. /\ \A x \in Shown' : x \in Shown \/ \E n \in 1 .. Len(page) : page[n] = x
       /\ Shown \subseteq Shown'
       /\ \A n \in 1 .. Len(page) : page[n] \in Shown'
  <2>1. Shown' = {shown[n] : n \in 1 .. Len(shown)}
    BY <1>4, <1>13 DEF Shown
  <2>2. Shown = {reader.shown[n] : n \in 1 .. Len(reader.shown)}
    BY <1>6 DEF Shown
  <2>3. ASSUME NEW n \in 1 .. Len(page) PROVE page[n] \in Shown'
    <3>1. PICK k : k = Len(reader.shown) + n
      OBVIOUS
    <3>2. k \in 1 .. Len(shown) /\ shown[k] = page[n]
      BY <1>9, <1>13, <3>1
    <3> QED
      BY <2>1, <3>2
  <2>4. ASSUME NEW n \in 1 .. Len(reader.shown) PROVE reader.shown[n] \in Shown'
    <3>1. n \in 1 .. Len(shown) /\ shown[n] = reader.shown[n]
      BY <1>9, <1>13
    <3> QED
      BY <2>1, <3>1
  <2>5. ASSUME NEW n \in 1 .. Len(shown)
        PROVE  shown[n] \in Shown \/ \E m \in 1 .. Len(page) : page[m] = shown[n]
    <3>1. CASE n <= Len(reader.shown)
      BY <1>13, <2>2, <3>1
    <3>2. CASE n > Len(reader.shown)
      <4>1. PICK m \in 1 .. Len(page) : n = Len(reader.shown) + m
        <5>1. /\ n - Len(reader.shown) \in 1 .. Len(page)
              /\ n = Len(reader.shown) + (n - Len(reader.shown))
          BY <1>9, <1>13, <3>2
        <5> QED
          BY <5>1
      <4> QED
        BY <1>13, <4>1
    <3> QED
      BY <1>13, <3>1, <3>2
  <2> QED
    BY <2>1, <2>2, <2>3, <2>4, <2>5
<1>17. ASSUME Deleted \cup Displaced = {}, NEW i \in Rows(reader.start), i \notin Shown'
       PROVE  Place(i) >= skip + Limit /\ Len(page) = Limit
  <2>1. i \in Rows(table) /\ Place(i) >= skip
    BY <1>2, <1>7, <1>16, <1>17 DEF WalkOK, StartOK
  <2>2. PICK n \in DOMAIN s : s[n] = i
    BY <1>8, <2>1
  <2>3. Place(i) = n - 1 /\ n \in Nat /\ n > skip
    BY <1>7, <1>8, <1>10, <2>1, <2>2
  <2>4. \/ n - skip \in 1 .. Len(page) /\ page[n - skip] = s[n]
        \/ n > skip + Limit /\ Len(page) = Limit
    BY <1>7, <1>8, <2>3, SliceHas DEF page
  <2>5. ~ (n - skip \in 1 .. Len(page) /\ page[n - skip] = s[n])
    BY <1>16, <1>17, <2>2
  <2> QED
    BY <1>7, <2>3, <2>4, <2>5
<1>18. ASSUME Created \cup Displaced = {}, NEW i \in Shown' \cap Rows(table)
       PROVE  Place(i) < skip + Limit
  <2>1. CASE i \in Shown
    <3>1. Place(i) < skip /\ Place(i) \in Nat
      BY <1>2, <1>7, <1>18, <2>1, PlaceIsNat DEF WalkOK
    <3> QED
      BY <1>7, <3>1
  <2>2. CASE \E n \in 1 .. Len(page) : page[n] = i
    <3>1. PICK n \in 1 .. Len(page) : page[n] = i
      BY <2>2
    <3>2. Place(i) = skip + n - 1 /\ n <= Limit /\ n \in Nat
      BY <1>7, <1>8, <1>9, <1>14, <3>1
    <3> QED
      BY <1>7, <3>2
  <2> QED
    BY <1>16, <2>1, <2>2
<1>19. ASSUME Created \cup Displaced = {},
              NEW m \in DOMAIN shown, NEW n \in DOMAIN shown, m < n
       PROVE  shown[m] # shown[n]
  <2>1. m \in Nat /\ n \in Nat
    BY <1>13
  <2>2. CASE n <= Len(reader.shown)
    <3>1. m \in DOMAIN reader.shown /\ n \in DOMAIN reader.shown /\ m # n
      BY <1>6, <1>13, <1>19, <2>2
    <3>2. reader.shown[m] # reader.shown[n]
      BY <1>2, <1>19, <3>1 DEF WalkOK
    <3> QED
      BY <1>6, <1>13, <3>1, <3>2
  <2>3. CASE n > Len(reader.shown)
    <3>1. PICK k \in 1 .. Len(page) : n = Len(reader.shown) + k
      <4>1. /\ n - Len(reader.shown) \in 1 .. Len(page)
            /\ n = Len(reader.shown) + (n - Len(reader.shown))
        BY <1>9, <1>13, <2>1, <2>3
      <4> QED
        BY <4>1
    <3>2. shown[n] = page[k] /\ page[k] \in Rows(table) /\ Place(page[k]) = skip + k - 1
      BY <1>13, <1>14, <3>1
    <3>3. CASE m <= Len(reader.shown)
      <4>1. shown[m] = reader.shown[m] /\ reader.shown[m] \in Shown
        <5>1. m \in 1 .. Len(reader.shown) /\ m \in DOMAIN reader.shown
          BY <1>6, <1>13, <2>1, <3>3
        <5>2. shown[m] = reader.shown[m]
          BY <1>13, <5>1
        <5>3. reader.shown[m] \in Shown
          BY <5>1 DEF Shown
        <5> QED
          BY <5>2, <5>3
      <4>2. shown[m] \in Rows(table) => Place(shown[m]) < skip
        BY <1>2, <1>7, <1>19, <4>1 DEF WalkOK
      <4>3. k \in Nat /\ k > 0
        BY <1>9
      <4> QED
        BY <1>7, <3>2, <4>2, <4>3
    <3>4. CASE m > Len(reader.shown)
      <4>1. PICK j \in 1 .. Len(page) : m = Len(reader.shown) + j
        <5>1. /\ m - Len(reader.shown) \in 1 .. Len(page)
              /\ m = Len(reader.shown) + (m - Len(reader.shown))
          <6>1. PICK a \in Nat : a = Len(reader.shown)
            BY <1>13
          <6>2. PICK b \in Nat : b = Len(page)
            BY <1>9
          <6>3. m \in 1 .. a + b /\ m > a
            BY <1>13, <3>4, <6>1, <6>2
          <6>4. m - a \in 1 .. b /\ m = a + (m - a)
            BY <6>3
          <6> QED
            BY <6>1, <6>2, <6>4
        <5> QED
          BY <5>1
      <4>2. shown[m] = page[j] /\ Place(page[j]) = skip + j - 1
        BY <1>13, <1>14, <4>1
      <4>3. j # k /\ j \in Nat /\ k \in Nat
        BY <1>9, <1>13, <1>19, <3>1, <4>1
      <4> QED
        BY <1>7, <3>2, <4>2, <4>3
    <3> QED
      BY <1>13, <2>1, <3>3, <3>4
  <2> QED
    BY <1>13, <2>1, <2>2, <2>3
<1>20. /\ page # <<>> => Len(s) >= skip + Len(page)
       /\ Len(page) < Limit => Len(s) <= skip + Len(page)
  <2>1. page # <<>> => Len(page) > 0
    BY <1>9
  <2> QED
    BY <1>7, <1>8, <1>9, <2>1
<1>21. (reader.next = "count" => Fits(Cardinality(Rows(table)), Now - reader.rowsAt))'
  <2>1. /\ Now' = Now /\ reader'.rowsAt = Now /\ Now \in Nat /\ reader'.rows = page
        /\ Skip(Answered, Limit)' = skip /\ Cardinality(Rows(table))' = Len(s)
    BY <1>1, <1>4, <1>5, <1>8, <1>15, Lengths DEF skip, Skip, Rows, TInv, Now
  <2>2. PICK moved : moved = Now' - reader'.rowsAt
    OBVIOUS
  <2>3. moved = 0
    BY <2>1, <2>2
  <2>4. /\ page # <<>> => Len(s) >= (skip + Len(page)) - moved
        /\ Len(page) < Limit => Len(s) <= (skip + Len(page)) + moved
    BY <1>7, <1>8, <1>9, <1>20, <2>3
  <2>5. /\ reader'.rows # <<>> =>
             Cardinality(Rows(table))'
               >= (Skip(Answered, Limit)' + Len(reader'.rows)) - moved
        /\ Len(reader'.rows) < Limit =>
             Cardinality(Rows(table))'
               <= (Skip(Answered, Limit)' + Len(reader'.rows)) + moved
    <3> HIDE DEF page, skip
    <3> QED
      BY <2>1, <2>4, Zenon
  <2> QED
    BY <2>2, <2>5, Zenon DEF Fits
<1>22. WalkOK'
  <2>1. Rows(reader.start)' = Rows(reader.start) /\ Rows(table)' = Rows(table)
    BY <1>1, <1>4 DEF Rows
  <2>2. Now \in 0 .. Len(written)
    BY Lengths DEF Now, TInv
  <2>3. Created \cup Displaced = {} =>
          \A m, n \in DOMAIN shown : m # n => shown[m] # shown[n]
    <3> SUFFICES ASSUME Created \cup Displaced = {},
                        NEW m \in DOMAIN shown, NEW n \in DOMAIN shown, m # n
                 PROVE  shown[m] # shown[n]
      OBVIOUS
    <3>1. m \in Nat /\ n \in Nat
      BY <1>13
    <3> QED
      BY <1>19, <3>1
  <2> QED
    BY <1>1, <1>4, <1>5, <1>6, <1>11, <1>12, <1>15, <1>17, <1>18, <1>21, <2>1, <2>2, <2>3 DEF WalkOK
<1>23. (ReplaceOK /\ ReplaceMongoOK /\ SummaryOK)'
  BY <1>4 DEF ReplaceOK, ReplaceMongoOK, SummaryOK, Reads
<1> QED
  BY <1>5, <1>22, <1>23 DEF ReadsOK

LEMMA PageCountReads == ASSUME TInv, ReaderOK, ReadsOK, PageCount PROVE ReaderOK' /\ ReadsOK'
<1> DEFINE full == Len(reader.rows) = Limit
           page == reader.page + 1
           total == Cardinality(Rows(table))
           pc == IF full THEN "read" ELSE "done"
<1>1. /\ reader.pc = "read" /\ reader.what = "walk" /\ reader.next = "count"
      /\ UNCHANGED <<entity, table, now, written, upd>>
      /\ reader' = [reader EXCEPT !.total = total, !.countAt = Now, !.page = page,
                                  !.next = "rows", !.pc = pc]
  BY DEF PageCount, writerVars, Count
<1>2. reader = Shape /\ Reads("walk") /\ WalkOK /\ StartOK
  BY <1>1 DEF ReaderOK, ReadsOK, Reads
<1> HIDE DEF page, total, pc
<1>3. reader' = [what |-> "walk", pc |-> pc, start |-> reader.start, from |-> reader.from,
                 order |-> reader.order, page |-> page, next |-> "rows",
                 rows |-> reader.rows, shown |-> reader.shown, rowsAt |-> reader.rowsAt,
                 total |-> total, countAt |-> Now]
  <2>1. reader = [what |-> "walk", pc |-> "read", start |-> reader.start, from |-> reader.from,
                  order |-> reader.order, page |-> reader.page, next |-> "count",
                  rows |-> reader.rows, shown |-> reader.shown, rowsAt |-> reader.rowsAt,
                  total |-> reader.total, countAt |-> reader.countAt]
    BY <1>1, <1>2 DEF Shape
  <2>2. ASSUME NEW start, NEW from, NEW order, NEW page0, NEW rows0, NEW shown0, NEW rowsAt,
               NEW total0, NEW countAt,
               reader = [what |-> "walk", pc |-> "read", start |-> start, from |-> from,
                         order |-> order, page |-> page0, next |-> "count", rows |-> rows0,
                         shown |-> shown0, rowsAt |-> rowsAt, total |-> total0,
                         countAt |-> countAt]
        PROVE  reader' = [what |-> "walk", pc |-> pc, start |-> start, from |-> from,
                          order |-> order, page |-> page, next |-> "rows", rows |-> rows0,
                          shown |-> shown0, rowsAt |-> rowsAt, total |-> total, countAt |-> Now]
    BY <1>1, <2>2
  <2> QED
    BY <2>1, <2>2
<1>4. pc \in {"read", "done"}
  BY DEF pc
<1>5. /\ ReaderOK' /\ Deleted' = Deleted /\ Created' = Created /\ Displaced' = Displaced
      /\ Now' = Now
  <2>1. reader' = Shape' /\ Rows(table') = Rows(table)
    BY <1>1, <1>3 DEF Shape
  <2>2. /\ ReaderOK' /\ Deleted' = Deleted /\ Created' = Created /\ Retimed' = Retimed
        /\ Now' = Now
    BY <1>1, <1>3, <1>4, <2>1, ReaderGoes
  <2>3. reader'.order = reader.order
    BY <1>3
  <2> QED
    BY <2>2, <2>3 DEF Displaced
<1>6. /\ reader.order \in WalkOrders /\ reader.page \in Nat \ {0} /\ page \in Nat \ {0}
      /\ page - 1 = reader.page /\ page > 1
  BY <1>2 DEF WalkOK, page
<1>7. Answered' = Answered /\ Shown' = Shown
  <2>1. reader'.next = "rows" /\ reader'.page = page /\ reader'.shown = reader.shown
    BY <1>3
  <2> QED
    BY <1>1, <1>6, <2>1 DEF Answered, Shown
<1>8. \A i : Place(i)' = Place(i)
  <2>1. table' = table /\ reader'.order = reader.order
    BY <1>1, <1>3
  <2> QED
    BY <2>1 DEF Place, Before, Rows
<1>9. total \in Nat /\ Now \in Nat
  BY RowsAreFinite, FS_CardinalityType, Lengths DEF total, Now, TInv
<1>10. Fits(total, Now - reader.rowsAt)
  BY <1>1, <1>2 DEF WalkOK, total
<1>11. Fits(reader.total, reader.countAt - reader.rowsAt)'
  BY <1>3, <1>7, <1>10 DEF Fits, Skip
<1>12. WalkOK'
  <2>1. Rows(reader.start)' = Rows(reader.start) /\ Rows(table)' = Rows(table)
    BY <1>1, <1>3 DEF Rows
  <2>2. ASSUME Deleted \cup Displaced = {}, NEW i \in Rows(reader.start) \ Shown
        PROVE  pc = "read" /\ Place(i) >= Answered * Limit
    BY <1>1, <1>2, <2>2 DEF WalkOK, pc
  <2> QED
    BY <1>1, <1>2, <1>3, <1>5, <1>6, <1>7, <1>8, <1>9, <1>11, <2>1, <2>2 DEF WalkOK
<1>13. (ReplaceOK /\ ReplaceMongoOK /\ SummaryOK)'
  BY <1>3 DEF ReplaceOK, ReplaceMongoOK, SummaryOK, Reads
<1> QED
  BY <1>5, <1>12, <1>13 DEF ReadsOK

-----------------------------------------------------------------------------
(* The activity of a node *)

LEMMA Appends ==
  ASSUME NEW x, NEW y, NEW z
  PROVE  /\ Append(<<>>, x) = <<x>> /\ Append(<<x>>, y) = <<x, y>>
         /\ Append(<<x, y>>, z) = <<x, y, z>>
<1> DEFINE S == {x, y, z}
<1>1. /\ <<>> \in Seq(S) /\ <<x>> \in Seq(S) /\ <<x, y>> \in Seq(S) /\ <<x, y, z>> \in Seq(S)
      /\ x \in S /\ y \in S /\ z \in S
  OBVIOUS
<1>2. /\ Len(<<>>) = 0
      /\ Len(<<x>>) = 1 /\ <<x>>[1] = x
      /\ Len(<<x, y>>) = 2 /\ <<x, y>>[1] = x /\ <<x, y>>[2] = y
      /\ Len(<<x, y, z>>) = 3 /\ <<x, y, z>>[1] = x /\ <<x, y, z>>[2] = y /\ <<x, y, z>>[3] = z
  OBVIOUS
<1>3. ASSUME NEW s \in Seq(S), NEW e \in S
      PROVE  /\ Append(s, e) \in Seq(S) /\ Len(Append(s, e)) = Len(s) + 1
             /\ Append(s, e)[Len(s) + 1] = e
             /\ \A n \in 1 .. Len(s) : Append(s, e)[n] = s[n]
  BY <1>3
<1> HIDE DEF S
<1>4. Append(<<>>, x) = <<x>>
  <2> DEFINE a == Append(<<>>, x)
  <2>1. a \in Seq(S) /\ Len(a) = 1 /\ a[1] = x
    BY <1>1, <1>2, <1>3
  <2> HIDE DEF a
  <2>2. a = <<x>>
    BY <1>1, <1>2, <2>1, SeqEqual
  <2> QED
    BY <2>2 DEF a
<1>5. Append(<<x>>, y) = <<x, y>>
  <2> DEFINE a == Append(<<x>>, y)
  <2>1. a \in Seq(S) /\ Len(a) = 2 /\ a[1] = x /\ a[2] = y
    BY <1>1, <1>2, <1>3
  <2> HIDE DEF a
  <2>2. a = <<x, y>>
    BY <1>1, <1>2, <2>1, SeqEqual
  <2> QED
    BY <2>2 DEF a
<1>6. Append(<<x, y>>, z) = <<x, y, z>>
  <2> DEFINE a == Append(<<x, y>>, z)
  <2>1. a \in Seq(S) /\ Len(a) = 3 /\ a[1] = x /\ a[2] = y /\ a[3] = z
    BY <1>1, <1>2, <1>3
  <2> HIDE DEF a
  <2>2. a = <<x, y, z>>
    BY <1>1, <1>2, <2>1, SeqEqual
  <2> QED
    BY <2>2 DEF a
<1> QED
  BY <1>4, <1>5, <1>6

\* What counts of k, if there are any, and 0 otherwise.
Part(f, k, s) == IF k \in s THEN f[k] ELSE 0
LEMMA SumOfTwo ==
  ASSUME NEW f, DOMAIN f \subseteq EventType, \A k \in DOMAIN f : f[k] \in Nat
  PROVE  Sum(f) = Part(f, "HEARTBEAT", DOMAIN f) + Part(f, "ERROR", DOMAIN f)
<1> DEFINE D == DOMAIN f
           a == "HEARTBEAT"
           b == "ERROR"
           c(s) == CHOOSE x \in s : TRUE
           Iter(g) == g = [s \in SUBSET D |-> IF s = {} THEN 0 ELSE f[c(s)] + g[s \ {c(s)}]]
           iter == CHOOSE g : Iter(g)
           total == [s \in SUBSET D |-> Part(f, a, s) + Part(f, b, s)]
<1>1. Sum(f) = iter[D]
  BY DEF Sum, FoldFunctionOnSet, MapThenFoldSet
<1>2. ASSUME NEW s \in SUBSET D, s # {} PROVE c(s) \in s
  BY <1>2
<1> HIDE DEF c
<1>3. ASSUME NEW s \in SUBSET D
      PROVE  total[s] = IF s = {} THEN 0 ELSE f[c(s)] + total[s \ {c(s)}]
  <2>1. s \ {c(s)} \in SUBSET D /\ total[s] = Part(f, a, s) + Part(f, b, s)
    OBVIOUS
  <2>2. total[s \ {c(s)}] = Part(f, a, s \ {c(s)}) + Part(f, b, s \ {c(s)})
    BY <2>1
  <2>3. CASE s = {}
    BY <2>1, <2>3 DEF Part
  <2>4. CASE s # {}
    <3>1. c(s) \in s /\ c(s) \in {a, b}
      BY <1>2, <2>4 DEF EventType
    <3>2. Part(f, a, s) \in Nat /\ Part(f, b, s) \in Nat
      BY DEF Part
    <3>3. CASE c(s) = a
      <4>1. /\ Part(f, a, s \ {c(s)}) = 0 /\ Part(f, b, s \ {c(s)}) = Part(f, b, s)
            /\ Part(f, a, s) = f[a]
        BY <3>1, <3>3 DEF Part
      <4> QED
        BY <2>1, <2>2, <2>4, <3>2, <3>3, <4>1
    <3>4. CASE c(s) = b
      <4>1. /\ Part(f, b, s \ {c(s)}) = 0 /\ Part(f, a, s \ {c(s)}) = Part(f, a, s)
            /\ Part(f, b, s) = f[b]
        BY <3>1, <3>4 DEF Part
      <4> QED
        BY <2>1, <2>2, <2>4, <3>2, <3>4, <4>1
    <3> QED
      BY <3>1, <3>3, <3>4
  <2> QED
    BY <2>3, <2>4
<1>4. Iter(total)
  BY <1>3
<1>5. Iter(iter)
  <2> HIDE DEF Iter, total
  <2> QED
    BY <1>4
<1> HIDE DEF iter
<1>6. ASSUME NEW s \in SUBSET D
      PROVE  iter[s] = IF s = {} THEN 0 ELSE f[c(s)] + iter[s \ {c(s)}]
  BY <1>5
<1>7. ASSUME NEW s \in SUBSET D, \A r \in SUBSET s : r # s => iter[r] = total[r]
      PROVE  iter[s] = total[s]
  <2>1. iter[s] = IF s = {} THEN 0 ELSE f[c(s)] + iter[s \ {c(s)}]
    BY <1>6
  <2>2. total[s] = IF s = {} THEN 0 ELSE f[c(s)] + total[s \ {c(s)}]
    BY <1>3
  <2>3. s # {} => iter[s \ {c(s)}] = total[s \ {c(s)}]
    BY <1>2, <1>7
  <2> HIDE DEF total
  <2> QED
    BY <2>1, <2>2, <2>3
<1> HIDE DEF total
<1>8. iter[{}] = total[{}]
  BY <1>3, <1>6
<1>9. \A x \in D : iter[{x}] = total[{x}]
  <2> SUFFICES ASSUME NEW x \in D PROVE iter[{x}] = total[{x}]
    OBVIOUS
  <2>1. \A r \in SUBSET {x} : r # {x} => iter[r] = total[r]
    BY <1>8
  <2> QED
    BY <1>7, <2>1
<1>10. iter[D] = total[D]
  <2>1. ASSUME NEW r \in SUBSET D, r # D PROVE iter[r] = total[r]
    <3>1. r = {} \/ \E x \in D : r = {x}
      BY <2>1 DEF EventType
    <3> QED
      BY <1>8, <1>9, <3>1
  <2> QED
    BY <1>7, <2>1
<1> QED
  BY <1>1, <1>10 DEF total

\* Of all kinds together there are as many as there are rows.
LEMMA SumOfKinds ==
  ASSUME TypeOK, entity = "logs", NEW R \in SUBSET Rows(table)
  PROVE  Sum(ByKind(R)) = Cardinality(R) /\ Cardinality(R) \in Nat
<1> DEFINE f == ByKind(R)
           a == "HEARTBEAT"
           b == "ERROR"
           Has(k) == {i \in R : table[i].kind = k}
<1>1. \A i \in R : table[i].kind \in EventType
  BY DEF TypeOK, Rows, AnyRow, Kinds
<1>2. /\ DOMAIN f = {table[i].kind : i \in R}
      /\ \A k \in DOMAIN f : f[k] = Cardinality(Has(k))
  BY DEF ByKind, Count
<1>3. \A k : IsFiniteSet(Has(k)) /\ Cardinality(Has(k)) \in Nat
  BY RowsAreFinite, FS_CardinalityType
<1>4. DOMAIN f \subseteq EventType
  BY <1>1, <1>2
<1> HIDE DEF f
<1>5. Sum(f) = Part(f, a, DOMAIN f) + Part(f, b, DOMAIN f)
  BY <1>2, <1>3, <1>4, SumOfTwo
<1>6. \A k : Part(f, k, DOMAIN f) = Cardinality(Has(k))
  <2> SUFFICES ASSUME NEW k PROVE Part(f, k, DOMAIN f) = Cardinality(Has(k))
    OBVIOUS
  <2>1. CASE k \in DOMAIN f
    BY <1>2, <2>1 DEF Part
  <2>2. CASE k \notin DOMAIN f
    <3>1. Has(k) = {}
      BY <1>2, <2>2
    <3> QED
      BY <2>2, <3>1, FS_EmptySet DEF Part
  <2> QED
    BY <2>1, <2>2
<1>7. Cardinality(R) = Cardinality(Has(a)) + Cardinality(Has(b)) /\ Cardinality(R) \in Nat
  <2>1. R = Has(a) \cup Has(b) /\ Has(a) \cap Has(b) = {}
    BY <1>1 DEF EventType
  <2>2. Cardinality(R) = Cardinality(Has(a)) + Cardinality(Has(b)) - Cardinality({})
    <3> HIDE DEF Has
    <3> QED
      BY <1>3, <2>1, FS_Union
  <2>3. Cardinality(Has(a)) \in Nat /\ Cardinality(Has(b)) \in Nat /\ Cardinality({}) = 0
    BY <1>3, FS_EmptySet
  <2> HIDE DEF Has
  <2> QED
    BY <2>2, <2>3
<1> QED
  BY <1>5, <1>6, <1>7 DEF f

\* The latest of some rows has the fewest after it.
LEMMA LatestIsThere ==
  ASSUME TypeOK, NEW R \in SUBSET Rows(table), R # {}
  PROVE  \E i \in R : \A j \in R : table[j].at <= table[i].at
<1> DEFINE After(i) == {j \in R : table[j].at > table[i].at}
           Later == OpToRel(<, Nat)
           T == {Cardinality(After(i)) : i \in R}
<1>1. \A i \in R : IsFiniteSet(After(i)) /\ Cardinality(After(i)) \in Nat
  BY RowsAreFinite, FS_CardinalityType
<1>2. IsWellFoundedOn(Later, Nat) /\ T \subseteq Nat /\ T # {}
  BY <1>1, NatLessThanWellFounded
<1>3. PICK x \in T : \A y \in T : ~ (<<y, x>> \in Later)
  <2> HIDE DEF Later, T
  <2> QED
    BY <1>2, WFMin
<1>4. PICK i \in R : x = Cardinality(After(i))
  BY <1>3
<1>5. \A j \in R : ~ (Cardinality(After(j)) < Cardinality(After(i)))
  BY <1>1, <1>3, <1>4 DEF OpToRel
<1>6. \A j \in R : table[j].at \in Nat
  BY DEF TypeOK, Rows, AnyRow
<1>7. ASSUME NEW j \in R, table[j].at > table[i].at PROVE FALSE
  <2>1. /\ After(j) \subseteq After(i) /\ j \in After(i) /\ j \notin After(j)
    BY <1>6, <1>7
  <2> HIDE DEF After
  <2>2. /\ Cardinality(After(j)) <= Cardinality(After(i))
        /\ Cardinality(After(j)) # Cardinality(After(i))
    BY <1>1, <2>1, FS_Subset
  <2> QED
    BY <1>1, <1>5, <2>2
<1> QED
  BY <1>6, <1>7

\* A statement changes how many rows an owner has by one at most.
LEMMA OfStep ==
  ASSUME TInv, Rows(table) \subseteq Used, entity = "logs",
         NEW op, NEW ids, Effect(op, ids), NEW owner
  PROVE  /\ Cardinality(Of(owner)) \in Nat /\ Cardinality(Of(owner))' \in Nat
         /\ Distance(Cardinality(Of(owner))', Cardinality(Of(owner))) <= 1
<1> DEFINE A == Of(owner)
           B == {j \in Rows(table') : table'[j].of = owner}
<1>1. B = Of(owner)'
  BY DEF Of
<1>2. PICK i : ids = {i}
  BY DEF Effect, Op
<1>3. \A j \in Ids \ {i} : table'[j] = table[j]
  BY <1>2 DEF Effect
<1>4. A \subseteq B \cup {i} /\ B \subseteq A \cup {i}
  BY <1>3 DEF Of, Rows
<1>5. IsFiniteSet(A) /\ IsFiniteSet(B)
  <2>1. A \subseteq Rows(table) /\ B \subseteq Rows(table')
    BY DEF Of
  <2> HIDE DEF A, B
  <2> QED
    BY <2>1, RowsAreFinite
<1> HIDE DEF A, B
<1>6. /\ Cardinality(A) \in Nat /\ Cardinality(B) \in Nat
      /\ IsFiniteSet(A \cup {i}) /\ IsFiniteSet(B \cup {i})
      /\ Cardinality(A \cup {i}) <= Cardinality(A) + 1
      /\ Cardinality(B \cup {i}) <= Cardinality(B) + 1
      /\ Cardinality(A \cup {i}) \in Nat /\ Cardinality(B \cup {i}) \in Nat
  <2> SUFFICES ASSUME NEW S, IsFiniteSet(S)
               PROVE  /\ Cardinality(S) \in Nat /\ IsFiniteSet(S \cup {i})
                      /\ Cardinality(S \cup {i}) <= Cardinality(S) + 1
                      /\ Cardinality(S \cup {i}) \in Nat
    BY <1>5
  <2>1. Cardinality(S) \in Nat
    BY FS_CardinalityType
  <2>2. /\ IsFiniteSet(S \cup {i})
        /\ Cardinality(S \cup {i}) = IF i \in S THEN Cardinality(S) ELSE Cardinality(S) + 1
    BY FS_AddElement
  <2> QED
    BY <2>1, <2>2
<1>7. Cardinality(A) <= Cardinality(B \cup {i}) /\ Cardinality(B) <= Cardinality(A \cup {i})
  BY <1>4, <1>6, FS_Subset
<1>8. Distance(Cardinality(B), Cardinality(A)) <= 1
  BY <1>6, <1>7 DEF Distance
<1> QED
  BY <1>1, <1>6, <1>8 DEF A

LEMMA WriterSummary ==
  ASSUME TInv, ReaderOK, SummaryOK, UNCHANGED reader, NEW op, NEW ids, Effect(op, ids)
  PROVE  SummaryOK'
<1> SUFFICES ASSUME Reads("getNodeActivitySummary") PROVE SummaryOK'
  BY DEF SummaryOK, Reads
<1> DEFINE r == reader.result
           owner == reader.owner
           moved == Moved(reader.from)
<1>1. StartOK /\ entity = "logs" /\ entity' = entity
  BY DEF ReaderOK, Reads, SummaryOK, Effect
<1>2. moved \in Nat /\ moved' = moved + 1
  <2>1. Now' = Now + 1 /\ Now \in Nat
    BY <1>1, History
  <2>2. reader.from \in 0 .. Now /\ reader' = reader
    BY <1>1 DEF StartOK, Now
  <2> QED
    BY <2>1, <2>2 DEF Moved
<1> HIDE DEF moved
<1>3. /\ Cardinality(Of(owner)) \in Nat /\ Cardinality(Of(owner))' \in Nat
      /\ Distance(Cardinality(Of(owner))', Cardinality(Of(owner))) <= 1
  BY <1>1, OfStep DEF ReaderOK
<1>4. ASSUME Len(r) > 0
      PROVE  r[1] \in Nat /\ Distance(Cardinality(Of(owner))', r[1]) <= moved'
  <2>1. r[1] \in Nat /\ Distance(Cardinality(Of(owner)), r[1]) <= moved
    BY <1>4 DEF SummaryOK, moved
  <2> QED
    BY <1>2, <1>3, <2>1 DEF Distance
<1>5. ASSUME Len(r) > 1
      PROVE  Sum(r[2]) \in Nat /\ r[1] \in Nat /\ Distance(Sum(r[2]), r[1]) <= moved'
  <2>1. r[1] \in Nat /\ Sum(r[2]) \in Nat /\ Distance(Sum(r[2]), r[1]) <= moved
    BY <1>5 DEF SummaryOK, moved
  <2> QED
    BY <1>2, <2>1 DEF Distance
<1>6. moved' # 0
  BY <1>2
<1>7. Sum(reader.result[2])' = Sum(r[2])
  OBVIOUS
<1> QED
  BY <1>1, <1>4, <1>5, <1>6, <1>7 DEF SummaryOK, Reads, moved

LEMMA StutterSummary ==
  ASSUME SummaryOK, UNCHANGED <<entity, table, written, reader>> PROVE SummaryOK'
<1> SUFFICES ASSUME Reads("getNodeActivitySummary") PROVE SummaryOK'
  BY DEF SummaryOK, Reads
<1> DEFINE r == reader.result
           owner == reader.owner
           moved == Moved(reader.from)
           count == Cardinality(Of(owner))
           start == OfAtStart(owner)
<1>1. count' = count
  BY DEF Of, Rows
<1>2. start' = start
  BY DEF OfAtStart, Rows
<1>3. moved' = moved
  BY DEF Moved, Now
<1>4. Sum(r[2])' = Sum(r[2])
  OBVIOUS
<1>5. /\ entity = "logs"
      /\ reader.pc = "done" => Len(r) = 3
      /\ reader.pc = "read" => Len(r) < 3
  BY DEF SummaryOK
<1>6. \/ Len(r) = 0 /\ r = <<>>
      \/ Len(r) = 1 /\ r = <<r[1]>>
      \/ Len(r) = 2 /\ r = <<r[1], r[2]>>
      \/ Len(r) = 3 /\ r = <<r[1], r[2], r[3]>>
  BY DEF SummaryOK
<1>7. Len(r) > 0 =>
        /\ r[1] \in Nat
        /\ Distance(count, r[1]) <= moved
        /\ moved = 0 => r[1] = Cardinality(start)
  BY DEF SummaryOK
<1>8. Len(r) > 1 =>
        /\ Sum(r[2]) \in Nat /\ Distance(Sum(r[2]), r[1]) <= moved
        /\ moved = 0 => \A kind \in DOMAIN r[2] :
             r[2][kind] = Cardinality({i \in start : reader.start[i].kind = kind})
  BY DEF SummaryOK
<1>9. Len(r) > 2 /\ moved = 0 => \A i \in start : r[3] >= reader.start[i].at
  BY DEF SummaryOK
<1>10. /\ Distance(count', r[1]) = Distance(count, r[1])
       /\ Distance(Sum(r[2])', r[1]) = Distance(Sum(r[2]), r[1])
  BY <1>1, <1>4
<1> HIDE DEF moved, count, start
<1>11. /\ Len(r) > 0 =>
            /\ r[1] \in Nat
            /\ Distance(count', r[1]) <= moved'
            /\ moved' = 0 => r[1] = Cardinality(start')
       /\ Len(r) > 1 =>
            /\ Sum(r[2])' \in Nat /\ Distance(Sum(r[2])', r[1]) <= moved'
            /\ moved' = 0 => \A kind \in DOMAIN r[2] :
                 r[2][kind] = Cardinality({i \in start' : reader.start[i].kind = kind})
       /\ Len(r) > 2 /\ moved' = 0 => \A i \in start' : r[3] >= reader.start[i].at
  BY <1>1, <1>2, <1>3, <1>4, <1>7, <1>8, <1>9, <1>10
<1> QED
  BY <1>5, <1>6, <1>11 DEF SummaryOK, Reads, moved, count, start

LEMMA BeginSummaryReads == ASSUME TInv, ReaderOK, BeginSummary PROVE ReaderOK' /\ ReadsOK'
<1>1. PICK what \in Summaries, owner \in Owners :
        Begin([what |-> what, pc |-> "read", start |-> table, from |-> Now,
               owner |-> owner, result |-> <<>>])
  BY DEF BeginSummary
<1> DEFINE request == [what |-> what, pc |-> "read", start |-> table, from |-> Now,
                       owner |-> owner, result |-> <<>>]
<1>2. reader' = request /\ UNCHANGED <<entity, table, now, written, upd>> /\ Begin(request)
  BY <1>1 DEF Begin, writerVars
<1>3. /\ what \notin {"replace", "replaceMongo", "walk", "daily"}
      /\ what = "getNodeActivitySummary" => entity = "logs"
  BY DEF Summaries, TInv, TypeOK, Entities
<1>4. ReaderOK'
  BY <1>2, <1>3, BeginReader DEF Shape
<1>5. SummaryOK'
  <2>1. Len(<<>>) = 0
    OBVIOUS
  <2> QED
    BY <1>2, <1>3, <2>1 DEF SummaryOK, Reads
<1>6. (ReplaceOK /\ ReplaceMongoOK /\ WalkOK)'
  BY <1>2, <1>3 DEF ReplaceOK, ReplaceMongoOK, WalkOK, Reads
<1> QED
  BY <1>4, <1>5, <1>6 DEF ReadsOK

LEMMA ReadDailyReads == ASSUME TInv, ReaderOK, ReadDaily PROVE ReaderOK' /\ ReadsOK'
<1>1. PICK rows :
        Begin([what |-> "daily", pc |-> "done", start |-> table, from |-> Now,
               at |-> now, result |-> ByDay(rows)])
  BY DEF ReadDaily
<1> DEFINE days == ByDay(rows)
           request == [what |-> "daily", pc |-> "done", start |-> table, from |-> Now,
                       at |-> now, result |-> days]
<1> HIDE DEF days
<1>2. reader' = request /\ UNCHANGED <<entity, table, now, written, upd>> /\ Begin(request)
  BY <1>1 DEF Begin, writerVars, days
<1>3. ReaderOK'
  BY <1>2, BeginReader DEF Shape
<1>4. ReadsOK'
  BY <1>2 DEF ReadsOK, ReplaceOK, ReplaceMongoOK, WalkOK, SummaryOK, Reads
<1> QED
  BY <1>3, <1>4

\* What the statements read of rows of the owner.
LEMMA SummaryReads ==
  ASSUME TInv, entity = "logs", NEW owner
  PROVE  /\ Read("total", owner) = Cardinality(Of(owner)) /\ Cardinality(Of(owner)) \in Nat
         /\ Sum(Read("kinds", owner)) = Cardinality(Of(owner))
         /\ \A kind \in DOMAIN Read("kinds", owner) :
              Read("kinds", owner)[kind] = Cardinality({i \in Of(owner) : table[i].kind = kind})
         /\ \A i \in Of(owner) : Read("last", owner) >= table[i].at
<1>1. Of(owner) \subseteq Rows(table)
  BY DEF Of
<1>2. Sum(ByKind(Of(owner))) = Cardinality(Of(owner)) /\ Cardinality(Of(owner)) \in Nat
  BY <1>1, SumOfKinds DEF TInv
<1>3. /\ Read("total", owner) = Cardinality(Of(owner))
      /\ Read("kinds", owner) = ByKind(Of(owner))
      /\ Read("last", owner) = IF Of(owner) = {} THEN Null
                               ELSE Max({table[i].at : i \in Of(owner)})
  BY DEF Read, Count
<1>4. ASSUME NEW i \in Of(owner) PROVE Read("last", owner) >= table[i].at
  <2> DEFINE T == {table[j].at : j \in Of(owner)}
  <2>1. PICK j \in Of(owner) : \A k \in Of(owner) : table[k].at <= table[j].at
    BY <1>1, <1>4, LatestIsThere DEF TInv
  <2>2. \A k \in Of(owner) : table[k].at \in Nat
    BY <1>1 DEF TInv, TypeOK, Rows, AnyRow
  <2>3. table[j].at \in T /\ \A t \in T : table[j].at >= t
    BY <2>1, <2>2
  <2>4. \A t \in T : Max(T) >= t
    <3> HIDE DEF T
    <3> QED
      BY <2>3 DEF Max
  <2> QED
    BY <1>3, <2>4
<1>5. \A kind \in DOMAIN ByKind(Of(owner)) :
        ByKind(Of(owner))[kind] = Cardinality({i \in Of(owner) : table[i].kind = kind})
  BY DEF ByKind, Count
<1> QED
  BY <1>2, <1>3, <1>4, <1>5

LEMMA ReadSummaryReads ==
  ASSUME TInv, ReaderOK, ReadsOK, ReadSummary PROVE ReaderOK' /\ ReadsOK'
<1> DEFINE r == reader.result
           owner == reader.owner
           program == Program(reader.what)
           statement == program[Len(r) + 1]
           result == Append(r, IF statement = "languages" THEN Null ELSE Read(statement, owner))
           pc == IF Len(result) = Len(program) THEN "done" ELSE "read"
<1>1. /\ reader.pc = "read" /\ reader.what \in Summaries
      /\ UNCHANGED <<entity, table, now, written, upd>>
      /\ statement = "average" => reader' = [reader EXCEPT !.pc = "thrown"]
      /\ statement # "average" => reader' = [reader EXCEPT !.result = result, !.pc = pc]
  BY DEF ReadSummary, writerVars
<1>2. /\ reader.what \notin {"replace", "replaceMongo", "walk", "daily"}
      /\ reader.what = "getNodeActivitySummary" => entity = "logs"
  BY <1>1 DEF Summaries, TInv, TypeOK, Entities
<1>3. reader = Shape /\ StartOK /\ SummaryOK
  BY <1>1 DEF ReaderOK, ReadsOK
<1>4. reader = [what |-> reader.what, pc |-> "read", start |-> reader.start, from |-> reader.from,
                owner |-> reader.owner, result |-> reader.result]
  BY <1>1, <1>2, <1>3 DEF Shape
<1> HIDE DEF r, program, statement, result, pc
<1>5. /\ statement = "average" =>
           reader' = [what |-> reader.what, pc |-> "thrown", start |-> reader.start,
                      from |-> reader.from, owner |-> reader.owner, result |-> reader.result]
      /\ statement # "average" =>
           reader' = [what |-> reader.what, pc |-> pc, start |-> reader.start,
                      from |-> reader.from, owner |-> reader.owner, result |-> result]
  <2>1. ASSUME NEW what, NEW start, NEW from, NEW owner0, NEW result0,
               reader = [what |-> what, pc |-> "read", start |-> start, from |-> from,
                         owner |-> owner0, result |-> result0]
        PROVE  /\ statement = "average" =>
                    reader' = [what |-> what, pc |-> "thrown", start |-> start,
                               from |-> from, owner |-> owner0, result |-> result0]
               /\ statement # "average" =>
                    reader' = [what |-> what, pc |-> pc, start |-> start,
                               from |-> from, owner |-> owner0, result |-> result]
    BY <1>1, <2>1
  <2> QED
    BY <1>4, <2>1
<1>6. /\ reader'.what = reader.what /\ reader'.start = reader.start /\ reader'.from = reader.from
      /\ reader'.owner = reader.owner /\ reader'.pc \in {"read", "done", "thrown"}
      /\ reader'.pc # "idle" /\ reader' = Shape'
  <2>1. pc \in {"read", "done"}
    BY DEF pc
  <2>2. CASE statement = "average"
    BY <1>2, <1>5, <2>2 DEF Shape
  <2>3. CASE statement # "average"
    BY <1>2, <1>5, <2>1, <2>3 DEF Shape
  <2> QED
    BY <2>2, <2>3
<1>7. ReaderOK' /\ Now' = Now
  <2>1. Rows(table') = Rows(table) /\ table' = table
    BY <1>1
  <2> QED
    BY <1>1, <1>2, <1>6, <2>1, ReaderGoes
<1>8. ASSUME reader.what = "getNodeActivitySummary" PROVE SummaryOK'
  <2> DEFINE moved == Moved(reader.from)
             of == Cardinality(Of(owner))
  <2>1. entity = "logs" /\ reader.pc = "read" /\ Len(r) < 3
    BY <1>1, <1>3, <1>8 DEF SummaryOK, Reads, r
  <2>2. program = <<"total", "kinds", "last">> /\ Len(program) = 3
    BY <1>8 DEF program, Program
  <2>3. /\ Read("total", owner) = of /\ of \in Nat
        /\ Sum(Read("kinds", owner)) = of
        /\ \A kind \in DOMAIN Read("kinds", owner) :
             Read("kinds", owner)[kind] = Cardinality({i \in Of(owner) : table[i].kind = kind})
        /\ \A i \in Of(owner) : Read("last", owner) >= table[i].at
    BY <2>1, SummaryReads
  <2>4. moved \in Nat /\ moved' = moved
    <3>1. Now \in Nat /\ reader.from \in 0 .. Now
      BY <1>3, Lengths DEF StartOK, Now, TInv
    <3> QED
      BY <1>6, <1>7, <3>1 DEF Moved
  <2>5. moved = 0 => reader.start = table /\ OfAtStart(owner) = Of(owner)
    <3>1. Now \in Nat /\ reader.from \in 0 .. Now
      BY <1>3, Lengths DEF StartOK, Now, TInv
    <3>2. moved = 0 => reader.start = table
      BY <1>2, <1>3, <3>1 DEF StartOK, Moved
    <3> QED
      BY <3>2 DEF OfAtStart, Of
  <2>6. /\ Of(reader.owner)' = Of(owner) /\ OfAtStart(reader.owner)' = OfAtStart(owner)
        /\ reader'.start = reader.start /\ entity' = entity
    BY <1>1, <1>6 DEF Of, OfAtStart, Rows
  <2>7. statement # "average" => reader'.result = result /\ reader'.pc = pc
    BY <1>5
  <2>8. CASE Len(r) = 0
    <3>1. r = <<>> /\ statement = "total"
      BY <1>3, <1>6, <1>8, <2>1, <2>2, <2>8 DEF SummaryOK, Reads, r, statement
    <3>2. result = <<of>>
      BY <2>3, <3>1, Appends DEF result
    <3>3. reader'.result = <<of>> /\ reader'.pc = "read" /\ Len(<<of>>) = 1 /\ <<of>>[1] = of
      BY <2>2, <2>7, <3>1, <3>2 DEF pc
    <3>4. Distance(of, of) <= moved
      BY <2>3, <2>4 DEF Distance
    <3> QED
      BY <2>1, <2>3, <2>4, <2>5, <2>6, <3>3, <3>4 DEF SummaryOK, Reads
  <2>9. CASE Len(r) = 1
    <3> DEFINE kinds == Read("kinds", owner)
    <3>1. /\ r = <<r[1]>> /\ statement = "kinds"
          /\ r[1] \in Nat /\ Distance(of, r[1]) <= moved
          /\ moved = 0 => r[1] = Cardinality(OfAtStart(owner))
      BY <1>1, <1>3, <1>8, <2>1, <2>2, <2>9 DEF SummaryOK, Reads, r, statement
    <3> HIDE DEF kinds
    <3>2. result = <<r[1], kinds>>
      BY <3>1, Appends DEF result, kinds
    <3>3. /\ reader'.result = <<r[1], kinds>> /\ reader'.pc = "read"
          /\ Len(<<r[1], kinds>>) = 2 /\ <<r[1], kinds>>[1] = r[1] /\ <<r[1], kinds>>[2] = kinds
      BY <2>2, <2>7, <3>1, <3>2 DEF pc
    <3>4. Sum(kinds) = of /\ Distance(Sum(kinds), r[1]) <= moved
      BY <2>3, <3>1 DEF kinds
    <3> QED
      BY <2>1, <2>3, <2>4, <2>5, <2>6, <3>1, <3>3, <3>4 DEF SummaryOK, Reads, kinds
  <2>10. CASE Len(r) = 2
    <3> DEFINE last == Read("last", owner)
    <3>1. /\ r = <<r[1], r[2]>> /\ statement = "last"
          /\ r[1] \in Nat /\ Distance(of, r[1]) <= moved
          /\ moved = 0 => r[1] = Cardinality(OfAtStart(owner))
          /\ Sum(r[2]) \in Nat /\ Distance(Sum(r[2]), r[1]) <= moved
          /\ moved = 0 => \A kind \in DOMAIN r[2] :
               r[2][kind] = Cardinality({i \in OfAtStart(owner) : reader.start[i].kind = kind})
      BY <1>1, <1>3, <1>8, <2>1, <2>2, <2>10 DEF SummaryOK, Reads, r, statement
    <3> HIDE DEF last
    <3>2. result = <<r[1], r[2], last>>
      <4>1. PICK a, b : a = r[1] /\ b = r[2] /\ r = <<a, b>>
        BY <3>1
      <4>2. Append(<<a, b>>, last) = <<a, b, last>>
        BY Appends
      <4>3. result = Append(<<a, b>>, last)
        BY <3>1, <4>1 DEF result, last
      <4> QED
        BY <4>1, <4>2, <4>3
    <3>3. /\ reader'.result = <<r[1], r[2], last>> /\ reader'.pc = "done"
          /\ Len(<<r[1], r[2], last>>) = 3 /\ <<r[1], r[2], last>>[1] = r[1]
          /\ <<r[1], r[2], last>>[2] = r[2] /\ <<r[1], r[2], last>>[3] = last
      BY <2>2, <2>7, <3>1, <3>2 DEF pc
    <3>4. moved = 0 => \A i \in OfAtStart(owner) : last >= reader.start[i].at
      BY <2>3, <2>5 DEF last
    <3> QED
      BY <2>1, <2>4, <2>6, <3>1, <3>3, <3>4 DEF SummaryOK, Reads
  <2>11. Len(r) \in {0, 1, 2}
    BY <1>1, <1>3, <1>8, <2>1 DEF SummaryOK, Reads, r
  <2> QED
    BY <2>8, <2>9, <2>10, <2>11
<1>9. SummaryOK'
  BY <1>6, <1>8 DEF SummaryOK, Reads
<1>10. (ReplaceOK /\ ReplaceMongoOK /\ WalkOK)'
  BY <1>2, <1>6 DEF ReplaceOK, ReplaceMongoOK, WalkOK, Reads
<1> QED
  BY <1>7, <1>9, <1>10 DEF ReadsOK

-----------------------------------------------------------------------------
(* All steps together *)

LEMMA WriterReads ==
  ASSUME TInv, ReaderOK, ReadsOK, OthersAct, UNCHANGED reader PROVE ReadsOK'
<1>1. CASE UNCHANGED <<entity, table, written>>
  <2>1. /\ Deleted' = Deleted /\ Created' = Created /\ Changed' = Changed /\ Now' = Now
        /\ Displaced' = Displaced
        /\ Rows(reader.start)' = Rows(reader.start) /\ Rows(table)' = Rows(table)
        /\ reader' = reader
    BY <1>1 DEF Deleted, Created, Changed, Displaced, Retimed, Since, Now, Rows
  <2>2. ReplaceOK'
    <3>1. \A i : Rank(i)' = Rank(i)
      BY <2>1 DEF Rank
    <3>2. \A i : ReplacesRow(i)' <=> ReplacesRow(i)
      BY <1>1, <2>1, <3>1 DEF ReplacesRow, Ahead, Skip
    <3> QED
      BY <2>1, <3>2 DEF ReadsOK, ReplaceOK, Reads
  <2>3. ReplaceMongoOK'
    BY <1>1, <2>1 DEF ReadsOK, ReplaceMongoOK, ReplacesDocument, Reads
  <2>4. WalkOK'
    <3>1. \A i : Place(i)' = Place(i)
      BY <1>1, <2>1 DEF Place, Before
    <3>2. Answered' = Answered /\ Shown' = Shown
      BY DEF Answered, Shown
    <3>3. /\ Fits(Cardinality(Rows(table)), Now - reader.rowsAt)' <=>
               Fits(Cardinality(Rows(table)), Now - reader.rowsAt)
          /\ Fits(reader.total, reader.countAt - reader.rowsAt)' <=>
               Fits(reader.total, reader.countAt - reader.rowsAt)
      BY <2>1, <3>2 DEF Fits, Skip
    <3> QED
      BY <1>1, <2>1, <3>1, <3>2, <3>3 DEF ReadsOK, WalkOK, Reads
  <2>5. SummaryOK'
    BY <1>1, StutterSummary DEF ReadsOK
  <2> QED
    BY <2>2, <2>3, <2>4, <2>5 DEF ReadsOK
<1>2. ASSUME NEW op, NEW ids, Effect(op, ids) PROVE ReadsOK'
  BY <1>2, WriterReplace, WriterReplaceMongo, WriterWalk, WriterSummary DEF ReadsOK
<1> QED
  BY <1>1, <1>2 DEF OthersAct

LEMMA WriterInv == ASSUME TInv, WriterStep PROVE TInv'
<1>1. CASE CreateSubmission
  <2>1. "PENDING" \in Kinds(entity) /\ "PENDING" \notin Final
    BY <1>1 DEF CreateSubmission, Kinds, Status, Final
  <2>2. \A times : times = <<now, Null>> =>
          times[1] = now /\ times[2] = Null /\ times[1] \in Nat /\ times[2] \in Nat \cup {Null}
    BY DEF TInv, TypeOK
  <2> QED
    BY <1>1, <2>1, <2>2, InsertInv DEF Op, CreateSubmission
<1>2. CASE CreateLog
  <2>1. \A body \in Bodies[entity] : body.kind \in Kinds(entity)
    BY JudgeTablesAssumption DEF TInv, TypeOK
  <2>2. \A c \in LogCalls : c.text \in Nat
    BY DEF LogCalls
  <2>3. entity # "submissions"
    BY <1>2 DEF CreateLog
  <2> QED
    <3>1. \A times : times = <<now, Null>> =>
            times[1] = now /\ times[2] = Null /\ times[1] \in Nat /\ times[2] \in Nat \cup {Null}
      BY DEF TInv, TypeOK
    <3> QED
      BY <1>2, <2>1, <2>2, <2>3, <3>1, InsertInv DEF Op, CreateLog
<1>3. CASE Create
  <2>1. \A body \in Bodies[entity] : body.kind \in Kinds(entity)
    BY JudgeTablesAssumption DEF TInv, TypeOK
  <2> QED
    <3>1. \A times \in Sent \cup {<<now, Null>>} :
            times[1] \in Nat /\ times[2] \in Nat \cup {Null}
      BY SentAre DEF TInv, TypeOK
    <3> QED
      BY <1>3, <2>1, <3>1, InsertInv DEF Op, Create
<1>4. CASE UpdateById \/ DeleteById \/ Tick
  BY <1>4, UpdateByIdInv, DeleteByIdInv, TickInv
<1>5. CASE \E u \in Updaters : UpdateSubmissionStatus(u) \/ FindUpdated(u)
  BY <1>5, UpdateStatusInv, FindUpdatedInv
<1> QED
  BY <1>1, <1>2, <1>3, <1>4, <1>5 DEF WriterStep

LEMMA InitReads == Init => ReaderOK /\ ReadsOK
BY DEF Init, InitTables, ReaderOK, Used, ReadsOK, ReplaceOK, ReplaceMongoOK, WalkOK, SummaryOK,
   Reads

LEMMA Inductive == IInv /\ [Next]_vars => IInv'
<1> SUFFICES ASSUME TInv, ReaderOK, ReadsOK, [Next]_vars PROVE TInv' /\ ReaderOK' /\ ReadsOK'
  BY DEF IInv
<1>1. CASE UNCHANGED vars
  <2>1. UNCHANGED writerVars /\ UNCHANGED reader /\ OthersAct
    BY <1>1 DEF vars, writerVars, OthersAct
  <2> QED
    BY <2>1, StutterInv, WriterReader, WriterReads
<1>2. CASE ReaderStep
  <2>1. CASE ReplaceRow
    BY <2>1, ReplaceRowReads
  <2>2. CASE ExecuteBulk
    BY <2>2, ExecuteBulkInv, ExecuteBulkReads
  <2>3. CASE ~ReplaceRow /\ ~ExecuteBulk
    <3>1. UNCHANGED writerVars
      BY <1>2, <2>3 DEF ReaderStep, Begin, BeginReplaceMongo, FindDocuments, BeginSummary,
         ReadSummary, ReadDaily, BeginWalk, PageRows, PageCount, BeginReplace, ReplacePage,
         ReplaceNext
    <3>2. TInv'
      BY <3>1, StutterInv
    <3>3. ReaderOK' /\ ReadsOK'
      BY <1>2, <2>3, BeginReplaceMongoReads, FindDocumentsReads, BeginSummaryReads,
         ReadSummaryReads, ReadDailyReads, BeginWalkReads, PageRowsReads, PageCountReads,
         BeginReplaceReads, ReplacePageReads, ReplaceNextReads DEF ReaderStep
    <3> QED
      BY <3>2, <3>3
  <2> QED
    BY <2>1, <2>2, <2>3
<1>3. CASE WriterStep /\ UNCHANGED reader
  BY <1>3, WriterInv, WriterEffect, WriterReader, WriterReads
<1> QED
  BY <1>1, <1>2, <1>3 DEF Next

-----------------------------------------------------------------------------
(* The finders *)

\* What a limit leaves out of a sequence comes after it.
LEMMA FirstOf ==
  ASSUME NEW R, NEW q \in Seq(R), \A i \in R : \E n \in DOMAIN q : q[n] = i,
         NEW limit \in Nat, NEW s, s = Slice(q, 0, limit)
  PROVE  /\ s \in Seq(R) /\ DOMAIN s = 1 .. Len(s) /\ Len(s) \in Nat
         /\ Len(s) = IF Len(q) < limit THEN Len(q) ELSE limit
         /\ \A n \in DOMAIN s : n \in DOMAIN q /\ n <= limit /\ s[n] = q[n]
         /\ \A j \in R : \/ j \in {s[n] : n \in DOMAIN s}
                         \/ \E p \in DOMAIN q : q[p] = j /\ p > limit /\ Len(s) = limit
<1>1. DOMAIN q = 1 .. Len(q) /\ Len(q) \in Nat
  OBVIOUS
<1>2. PICK zero \in Nat : zero = 0
  OBVIOUS
<1>3. /\ s \in Seq(R)
      /\ Len(s) = IF Len(q) <= zero THEN 0
                  ELSE IF Len(q) < zero + limit THEN Len(q) - zero ELSE limit
      /\ \A n \in 1 .. Len(s) : zero + n \in DOMAIN q /\ s[n] = q[zero + n]
  <2>1. s = Slice(q, zero, limit)
    BY <1>2
  <2>2. /\ Slice(q, zero, limit) \in Seq(R)
        /\ Len(Slice(q, zero, limit)) = IF Len(q) <= zero THEN 0
             ELSE IF Len(q) < zero + limit THEN Len(q) - zero ELSE limit
        /\ \A n \in 1 .. Len(Slice(q, zero, limit)) :
             zero + n \in DOMAIN q /\ Slice(q, zero, limit)[n] = q[zero + n]
    BY SliceIs
  <2> QED
    BY <2>1, <2>2
<1>4. /\ DOMAIN s = 1 .. Len(s) /\ Len(s) \in Nat
      /\ Len(s) = IF Len(q) < limit THEN Len(q) ELSE limit
  BY <1>1, <1>2, <1>3
<1>5. ASSUME NEW n \in DOMAIN s PROVE n \in DOMAIN q /\ n <= limit /\ s[n] = q[n]
  <2>1. n \in 1 .. Len(s) /\ zero + n = n
    BY <1>2, <1>4
  <2>2. zero + n \in DOMAIN q /\ s[n] = q[zero + n]
    BY <1>3, <2>1
  <2>3. n <= limit
    BY <1>1, <1>4, <2>1
  <2> QED
    BY <2>1, <2>2, <2>3
<1>6. ASSUME NEW j \in R
      PROVE  \/ j \in {s[n] : n \in DOMAIN s}
             \/ \E p \in DOMAIN q : q[p] = j /\ p > limit /\ Len(s) = limit
  <2>1. PICK p \in DOMAIN q : q[p] = j
    OBVIOUS
  <2>2. CASE p > limit
    BY <1>1, <1>4, <2>1, <2>2
  <2>3. CASE ~ p > limit
    <3>1. p \in DOMAIN s
      BY <1>1, <1>4, <2>3
    <3> QED
      BY <1>5, <2>1, <3>1
  <2> QED
    BY <2>2, <2>3
<1> QED
  BY <1>3, <1>4, <1>5, <1>6

LEMMA BeforeByTime ==
  ASSUME NEW i, NEW j PROVE Before(i, j, <<"at">>) <=> table[i].at > table[j].at
<1> DEFINE order == <<"at">>
<1>1. DOMAIN order = {1} /\ order[1] = "at" /\ 1 .. 1 - 1 = {}
  OBVIOUS
<1> HIDE DEF order
<1>2. Before(i, j, order) <=> table[i].at > table[j].at
  BY <1>1 DEF Before
<1> QED
  BY <1>2 DEF order

\* Rows that are sorted by time, the newest first.
LEMMA SortedByTime ==
  ASSUME TypeOK, NEW R \in SUBSET Rows(table), NEW q \in Sorted(R, <<"at">>)
  PROVE  /\ q \in Seq(R) /\ DOMAIN q = 1 .. Len(q) /\ Len(q) = Cardinality(R) /\ Len(q) \in Nat
         /\ \A i \in R : \E n \in DOMAIN q : q[n] = i
         /\ \A m, n \in DOMAIN q : m < n => table[q[m]].at >= table[q[n]].at
<1>1. /\ q \in SetToSeqs(R) /\ IsFiniteSet(R)
      /\ \A m, n \in DOMAIN q : m < n => ~ Before(q[n], q[m], <<"at">>)
  BY RowsAreFinite DEF Sorted
<1>2. /\ q \in Seq(R) /\ DOMAIN q = 1 .. Len(q) /\ Len(q) = Cardinality(R) /\ Len(q) \in Nat
      /\ \A i \in R : \E n \in DOMAIN q : q[n] = i
  BY <1>1, Positions
<1>3. ASSUME NEW m \in DOMAIN q, NEW n \in DOMAIN q, m < n
      PROVE  table[q[m]].at >= table[q[n]].at
  <2>1. q[m] \in R /\ q[n] \in R
    BY <1>2, ElementOf
  <2>2. table[q[m]].at \in Nat /\ table[q[n]].at \in Nat
    BY <2>1 DEF TypeOK, Rows, AnyRow
  <2>3. ~ table[q[n]].at > table[q[m]].at
    BY <1>1, <1>3, BeforeByTime
  <2> QED
    BY <2>2, <2>3
<1> QED
  BY <1>2, <1>3

\* A page of newest rows leaves out no newer ones, and is full if it leaves out any.
LEMMA NewestAre ==
  ASSUME TypeOK, NEW R \in SUBSET Rows(table), NEW limit \in Nat, NEW s \in Newest(R, limit)
  PROVE  /\ s \in Seq(R) /\ DOMAIN s = 1 .. Len(s) /\ Len(s) \in Nat
         /\ Len(s) = IF Cardinality(R) < limit THEN Cardinality(R) ELSE limit
         /\ \A j \in R \ {s[n] : n \in DOMAIN s} :
              Len(s) = limit /\ \A n \in DOMAIN s : table[s[n]].at >= table[j].at
<1>1. PICK q \in Sorted(R, <<"at">>) : s = Slice(q, 0, limit)
  BY DEF Newest
<1>2. /\ q \in Seq(R) /\ Len(q) = Cardinality(R) /\ DOMAIN q = 1 .. Len(q) /\ Len(q) \in Nat
      /\ \A i \in R : \E n \in DOMAIN q : q[n] = i
      /\ \A m, n \in DOMAIN q : m < n => table[q[m]].at >= table[q[n]].at
  BY SortedByTime
<1>3. /\ s \in Seq(R) /\ DOMAIN s = 1 .. Len(s) /\ Len(s) \in Nat
      /\ Len(s) = IF Len(q) < limit THEN Len(q) ELSE limit
      /\ \A n \in DOMAIN s : n \in DOMAIN q /\ n <= limit /\ s[n] = q[n]
      /\ \A j \in R : \/ j \in {s[n] : n \in DOMAIN s}
                      \/ \E p \in DOMAIN q : q[p] = j /\ p > limit /\ Len(s) = limit
  <2>1. q \in Seq(R) /\ (\A i \in R : \E n \in DOMAIN q : q[n] = i) /\ limit \in Nat
    BY <1>2
  <2> QED
    BY <1>1, <2>1, FirstOf
<1>4. ASSUME NEW j \in R \ {s[n] : n \in DOMAIN s}
      PROVE  Len(s) = limit /\ \A n \in DOMAIN s : table[s[n]].at >= table[j].at
  <2>1. PICK p \in DOMAIN q : q[p] = j /\ p > limit /\ Len(s) = limit
    BY <1>3, <1>4
  <2>2. ASSUME NEW n \in DOMAIN s PROVE table[s[n]].at >= table[j].at
    <3>1. n \in DOMAIN q /\ n < p /\ s[n] = q[n]
      BY <1>2, <1>3, <2>1
    <3> QED
      BY <1>2, <2>1, <3>1
  <2> QED
    BY <2>1, <2>2
<1> QED
  BY <1>2, <1>3, <1>4

\* The oldest, likewise.
LEMMA OldestAre ==
  ASSUME TypeOK, NEW R \in SUBSET Rows(table), NEW limit \in Nat, NEW s \in Oldest(R, limit)
  PROVE  /\ s \in Seq(R) /\ DOMAIN s = 1 .. Len(s)
         /\ \A j \in R \ {s[n] : n \in DOMAIN s} :
              Len(s) = limit /\ \A n \in DOMAIN s : table[s[n]].at <= table[j].at
<1>1. PICK q \in Sorted(R, <<"at">>) : s = Slice(Reverse(q), 0, limit)
  BY DEF Oldest
<1>2. /\ q \in Seq(R) /\ DOMAIN q = 1 .. Len(q) /\ Len(q) \in Nat
      /\ \A i \in R : \E n \in DOMAIN q : q[n] = i
      /\ \A m, n \in DOMAIN q : m < n => table[q[m]].at >= table[q[n]].at
  BY SortedByTime
<1> DEFINE r == Reverse(q)
           At(n) == Len(q) - n + 1
<1>3. \A n \in 1 .. Len(q) : At(n) \in 1 .. Len(q) /\ At(At(n)) = n /\ r[n] = q[At(n)]
  BY <1>2 DEF Reverse
<1>4. r \in Seq(R) /\ DOMAIN r = 1 .. Len(q) /\ Len(r) = Len(q)
  <2>1. \A n \in 1 .. Len(q) : q[(Len(q) - n) + 1] \in R
    BY <1>2
  <2> QED
    BY <1>2, <2>1 DEF Reverse
<1> HIDE DEF r
<1>5. \A i \in R : \E n \in DOMAIN r : r[n] = i
  <2> SUFFICES ASSUME NEW i \in R PROVE \E n \in DOMAIN r : r[n] = i
    OBVIOUS
  <2>1. PICK m \in 1 .. Len(q) : q[m] = i
    BY <1>2
  <2>2. At(m) \in DOMAIN r /\ r[At(m)] = i
    BY <1>3, <1>4, <2>1
  <2> QED
    BY <2>2
<1>6. ASSUME NEW m \in DOMAIN r, NEW n \in DOMAIN r, m < n PROVE table[r[m]].at <= table[r[n]].at
  <2> DEFINE a == At(m)
             b == At(n)
  <2>1. a \in 1 .. Len(q) /\ b \in 1 .. Len(q) /\ b < a /\ r[m] = q[a] /\ r[n] = q[b]
    <3>1. m \in 1 .. Len(q) /\ n \in 1 .. Len(q)
      BY <1>4
    <3>2. a \in 1 .. Len(q) /\ b \in 1 .. Len(q) /\ r[m] = q[a] /\ r[n] = q[b]
      BY <1>3, <3>1
    <3>3. b < a
      BY <1>2, <1>6, <3>1
    <3> QED
      BY <3>2, <3>3
  <2> HIDE DEF a, b
  <2>2. table[q[b]].at >= table[q[a]].at
    BY <1>2, <2>1
  <2>3. table[q[a]].at \in Nat /\ table[q[b]].at \in Nat
    BY <1>2, <2>1, ElementOf DEF TypeOK, Rows, AnyRow
  <2> QED
    BY <2>1, <2>2, <2>3
<1>7. /\ s \in Seq(R) /\ DOMAIN s = 1 .. Len(s)
      /\ \A n \in DOMAIN s : n \in DOMAIN r /\ n <= limit /\ s[n] = r[n]
      /\ \A j \in R : \/ j \in {s[n] : n \in DOMAIN s}
                      \/ \E p \in DOMAIN r : r[p] = j /\ p > limit /\ Len(s) = limit
  <2>1. s = Slice(r, 0, limit)
    BY <1>1 DEF r
  <2> QED
    <3>1. r \in Seq(R) /\ (\A i \in R : \E n \in DOMAIN r : r[n] = i) /\ limit \in Nat
      BY <1>4, <1>5
    <3> QED
      BY <2>1, <3>1, FirstOf
<1>8. ASSUME NEW j \in R \ {s[n] : n \in DOMAIN s}
      PROVE  Len(s) = limit /\ \A n \in DOMAIN s : table[s[n]].at <= table[j].at
  <2>1. PICK p \in DOMAIN r : r[p] = j /\ p > limit /\ Len(s) = limit
    BY <1>7, <1>8
  <2>2. ASSUME NEW n \in DOMAIN s PROVE table[s[n]].at <= table[j].at
    <3>1. n \in DOMAIN r /\ n < p /\ s[n] = r[n]
      BY <1>2, <1>4, <1>7, <2>1
    <3> QED
      BY <1>6, <2>1, <3>1
  <2> QED
    BY <2>1, <2>2
<1> QED
  BY <1>7, <1>8

\* Whatever a finder selects is there; of what its limit leaves out nothing is
\* newer than what it shows, and no work has waited longer.
LEMMA FinderShows ==
  ASSUME TypeOK, NEW finder \in Finder, NEW owner, NEW kind,
         NEW s \in Finds(finder, owner, kind, Limit),
         NEW j \in Found(finder, owner, kind) \ {s[n] : n \in DOMAIN s}
  PROVE  /\ Len(s) = Limit
         /\ \A n \in DOMAIN s : IF finder = "waiting" THEN table[s[n]].at <= table[j].at
                                ELSE table[s[n]].at >= table[j].at
<1> DEFINE R == Found(finder, owner, kind)
<1>1. R \in SUBSET Rows(table) /\ Limit \in Nat /\ IsFiniteSet(R)
  <2>1. finder \in {"owner", "kind", "both", "all", "waiting", "class"}
    BY DEF Finder, SubmissionFinder, LogFinder, TypeOK, Entities
  <2>2. R \subseteq Rows(table)
    BY <2>1 DEF Found, Of, OfKind, OfBoth
  <2> QED
    BY <2>2, RowsAreFinite, JudgeReadsAssumption
<1>2. CASE finder = "class"
  <2>1. s \in SetToSeqs(R)
    BY <1>2 DEF Finds, OfClass
  <2> HIDE DEF R
  <2>2. \A i \in R : \E n \in DOMAIN s : s[n] = i
    BY <1>1, <2>1, Positions
  <2>3. j \in R /\ j \notin {s[n] : n \in DOMAIN s}
    BY DEF R
  <2> QED
    BY <2>2, <2>3
<1>3. CASE finder = "waiting"
  <2>1. s \in Oldest(R, Limit)
    BY <1>3 DEF Finds
  <2> HIDE DEF R
  <2>2. j \in R \ {s[n] : n \in DOMAIN s}
    BY DEF R
  <2> QED
    BY <1>1, <1>3, <2>1, <2>2, OldestAre
<1>4. CASE finder \notin {"class", "waiting"}
  <2>1. s \in Newest(R, Limit)
    BY <1>4 DEF Finds
  <2> HIDE DEF R
  <2>2. j \in R \ {s[n] : n \in DOMAIN s}
    BY DEF R
  <2> QED
    BY <1>1, <1>4, <2>1, <2>2, NewestAre
<1> QED
  BY <1>2, <1>3, <1>4

\* Each submission of a student waits, is accepted or has an error.
LEMMA EachIsTold ==
  ASSUME TypeOK, entity = "submissions", NEW owner PROVE Told(owner) = Of(owner)
<1>1. \A i \in Rows(table) :
        table[i].kind \in {"PENDING", "RUNNING", "ACCEPTED", "WRONG_ANSWER"}
  BY DEF TypeOK, Rows, AnyRow, Kinds, Status, Final
<1>2. \A kind \in {"PENDING", "RUNNING"} : Found("waiting", owner, kind) = OfKind(kind)
  BY DEF Found
<1>3. Told(owner) = {i \in Of(owner) : table[i].kind \in {"PENDING", "RUNNING"}}
                      \cup Accepted(owner) \cup Errors(owner)
  BY <1>2 DEF Told, Of, OfKind
<1>4. Errors(owner) = {i \in Of(owner) : table[i].kind = "WRONG_ANSWER"}
  BY DEF Errors, Final
<1> QED
  BY <1>1, <1>3, <1>4 DEF Accepted, Of

LEMMA TopIsAccepted ==
  ASSUME TypeOK, NEW owner, NEW s \in TopSubmissions(owner, Limit)
  PROVE  IF Len(s) = Limit THEN \A n \in DOMAIN s : table[s[n]].kind = "ACCEPTED"
         ELSE {s[n] : n \in DOMAIN s} = Found("both", owner, "ACCEPTED")
<1> DEFINE R == Accepted(owner)
           shown == {s[n] : n \in DOMAIN s}
<1>1. PICK q \in SetToSeqs(R) : s = Slice(q, 0, Limit)
  BY DEF TopSubmissions
<1>2. R \subseteq Rows(table) /\ IsFiniteSet(R) /\ Limit \in Nat
  BY RowsAreFinite, JudgeReadsAssumption DEF Accepted, Of
<1>3. \A i \in R : table[i].kind = "ACCEPTED"
  BY DEF Accepted
<1>4. R = Found("both", owner, "ACCEPTED")
  BY DEF Accepted, Found, OfBoth, OfKind, Of
<1> HIDE DEF R
<1>5. q \in Seq(R) /\ \A i \in R : \E n \in DOMAIN q : q[n] = i
  BY <1>1, <1>2, Positions
<1>6. /\ s \in Seq(R)
      /\ \A j \in R : j \in shown \/ Len(s) = Limit
  BY <1>1, <1>2, <1>5, FirstOf
<1>7. shown \subseteq R
  BY <1>6, ElementOf
<1>8. CASE Len(s) = Limit
  BY <1>3, <1>7, <1>8
<1>9. CASE Len(s) # Limit
  BY <1>4, <1>6, <1>7, <1>9
<1> QED
  BY <1>8, <1>9

\* The last submission is one of the newest, and there is one exactly if the
\* student has submitted.
LEMMA LastIsNewest ==
  ASSUME TypeOK, NEW owner, NEW i \in LastSubmission(owner)
  PROVE  IF HasSubmitted(owner)
         THEN i \in Of(owner) /\ \A j \in Of(owner) : table[i].at >= table[j].at
         ELSE i = Null
<1> DEFINE R == Of(owner)
<1>1. PICK s \in Newest(R, 1) : i = IF s = <<>> THEN Null ELSE s[1]
  BY DEF LastSubmission, Finds, Found
<1>2. R \in SUBSET Rows(table) /\ IsFiniteSet(R)
  BY RowsAreFinite DEF Of
<1>3. Cardinality(R) \in Nat /\ (HasSubmitted(owner) <=> Cardinality(R) > 0)
  BY <1>2, FS_CardinalityType DEF HasSubmitted, Count
<1> HIDE DEF R
<1>4. PICK one \in Nat : one = 1
  OBVIOUS
<1>5. s \in Newest(R, one)
  BY <1>4
<1>6. /\ s \in Seq(R) /\ DOMAIN s = 1 .. Len(s) /\ Len(s) \in Nat
      /\ Len(s) = IF Cardinality(R) < one THEN Cardinality(R) ELSE one
      /\ \A j \in R \ {s[n] : n \in DOMAIN s} : \A n \in DOMAIN s : table[s[n]].at >= table[j].at
  BY <1>2, <1>5, NewestAre
<1>7. CASE Cardinality(R) > 0
  <2>1. Len(s) = 1 /\ DOMAIN s = {1}
    BY <1>3, <1>4, <1>6, <1>7
  <2>2. s # <<>> /\ i = s[1] /\ i \in R
    BY <1>1, <1>6, <2>1
  <2>3. ASSUME NEW j \in R PROVE table[i].at >= table[j].at
    <3>1. table[i].at \in Nat
      BY <1>2, <2>2 DEF TypeOK, Rows, AnyRow
    <3>2. CASE j = i
      BY <3>1, <3>2
    <3>3. CASE j # i
      <4>1. j \in R \ {s[n] : n \in DOMAIN s} /\ 1 \in DOMAIN s
        BY <2>1, <2>2, <3>3
      <4> QED
        BY <1>6, <2>2, <4>1
    <3> QED
      BY <3>2, <3>3
  <2> QED
    BY <1>3, <1>7, <2>2, <2>3 DEF R
<1>8. CASE ~ Cardinality(R) > 0
  <2>1. Len(s) = 0
    BY <1>3, <1>4, <1>6, <1>8
  <2>2. s = <<>>
    BY <1>6, <2>1
  <2> QED
    BY <1>1, <1>3, <1>8, <2>2
<1> QED
  BY <1>7, <1>8

\* A range of days up to now shows the newest of all rows since its first day.
LEMMA RangeShows ==
  ASSUME TypeOK, entity = "submissions", NEW day \in 0 .. now,
         NEW s \in SubmissionsByTimeRange(day, now, Limit),
         NEW recent, recent = {i \in Rows(table) : day <= table[i].at /\ table[i].at <= now}
  PROVE  /\ {s[n] : n \in DOMAIN s} \subseteq recent
         /\ Len(s) = Limit \/ Len(s) = Count(recent)
<1>1. ASSUME NEW i \in Rows(table)
      PROVE  table[i].at \in day .. now <=> day <= table[i].at /\ table[i].at <= now
  <2>1. table[i].at \in Nat /\ now \in Nat
    BY DEF TypeOK, Rows, AnyRow
  <2> QED
    BY <2>1
<1>2. InRange(Rows(table), day, now) = recent
  BY <1>1 DEF InRange
<1>3. s \in Newest(recent, Limit) /\ recent \in SUBSET Rows(table) /\ Limit \in Nat
  BY <1>2, JudgeReadsAssumption DEF SubmissionsByTimeRange
<1>4. /\ s \in Seq(recent)
      /\ Len(s) = IF Cardinality(recent) < Limit THEN Cardinality(recent) ELSE Limit
  BY <1>3, NewestAre
<1>5. {s[n] : n \in DOMAIN s} \subseteq recent
  BY <1>4, ElementOf
<1> QED
  BY <1>4, <1>5 DEF Count

\* Every log is of one of the nodes.
LEMMA LogsOfNodes ==
  ASSUME TypeOK, NEW day, NEW kind \in EventType
  PROVE  LogsByTimeRange(day, now, Null, kind) =
           UNION {InRange(Found("both", owner, kind), day, now) : owner \in Owners}
<1>1. kind # Null
  BY JudgeTablesAssumption
<1>2. LogsByTimeRange(day, now, Null, kind) =
        {i \in Rows(table) : table[i].kind = kind /\ table[i].at \in day .. now}
  BY <1>1 DEF LogsByTimeRange, InRange, OfKind
<1>3. \A owner : InRange(Found("both", owner, kind), day, now) =
        {i \in Rows(table) : table[i].of = owner /\ table[i].kind = kind
                             /\ table[i].at \in day .. now}
  BY DEF Found, OfBoth, Of, OfKind, InRange
<1>4. \A i \in Rows(table) : table[i].of \in Owners
  BY DEF TypeOK, Rows, AnyRow
<1> QED
  BY <1>2, <1>3, <1>4

-----------------------------------------------------------------------------
(* The theorems *)

LEMMA Invariance == Spec => []IInv
<1>1. Init => IInv
  BY InitInv, InitReads DEF IInv
<1>2. IInv /\ [Next]_vars => IInv'
  BY Inductive
<1> QED
  BY <1>1, <1>2, PTL DEF Spec

\* A submission that no client has edited has the time of its verdict once it has
\* one, however many judges update it and whatever is replaced in it meanwhile.
THEOREM VerdictsHaveTheirTime == Spec => []VerdictHasItsTime
<1>1. IInv => VerdictHasItsTime
  BY DEF IInv, TInv, TimesOK, TimeOK, VerdictHasItsTime, Rows
<1> QED
  BY <1>1, Invariance, PTL

\* A judge is answered with what it has written if no statement came between
\* its UPDATE and its SELECT, whatever the other judges and the clients do.
THEOREM AnswersShowOwnWrites == Spec => []AnswerShowsOwnWrite
<1>1. IInv => AnswerShowsOwnWrite
  BY DEF IInv, TInv, UpdatesOK, UpdateOK, AnswerShowsOwnWrite
<1> QED
  BY <1>1, Invariance, PTL

\* The counts of one answer differ by no more rows than statements have written
\* in between, however many there are, whoever writes.
THEOREM CountsDriftByWrites == Spec => []CountsDriftOnlyByWrites
<1>1. ASSUME IInv, Done("getNodeActivitySummary")
      PROVE  LET moved == Now - reader.from
                 own == {i \in Rows(reader.start) : reader.start[i].of = reader.owner}
                 total == reader.result[1]
                 kinds == reader.result[2]
             IN  /\ Distance(Sum(kinds), total) <= moved
                 /\ moved = 0 => /\ total = Cardinality(own)
                                 /\ \A kind \in DOMAIN kinds :
                                      kinds[kind] = Cardinality({i \in own :
                                                      reader.start[i].kind = kind})
                                 /\ \A i \in own : reader.result[3] >= reader.start[i].at
  <2>1. SummaryOK /\ Reads("getNodeActivitySummary") /\ reader.pc = "done"
    BY <1>1 DEF IInv, ReadsOK, Done, Reads
  <2>2. Len(reader.result) > 0 /\ Len(reader.result) > 1 /\ Len(reader.result) > 2
    <3>1. Len(reader.result) = 3
      BY <2>1 DEF SummaryOK
    <3> QED
      BY <3>1
  <2> QED
    BY <2>1, <2>2 DEF SummaryOK, OfAtStart, Moved
<1>2. ASSUME IInv, reader.pc # "idle", reader.what = "walk", reader.next = "rows", reader.page > 1
      PROVE  LET moved == reader.countAt - reader.rowsAt
                 page == reader.rows
                 seen == (reader.page - 2) * Limit + Len(page)
             IN  /\ page # <<>> => reader.total >= seen - moved
                 /\ Len(page) < Limit => reader.total <= seen + moved
  <2>1. WalkOK /\ Reads("walk")
    BY <1>2 DEF IInv, ReadsOK, Reads
  <2>2. Fits(reader.total, reader.countAt - reader.rowsAt) /\ reader.page \in Nat
    BY <1>2, <2>1 DEF WalkOK
  <2>3. Answered - 1 = reader.page - 2
    BY <1>2, <2>2 DEF Answered
  <2>4. Skip(Answered, Limit) = (reader.page - 2) * Limit
    BY <2>3 DEF Skip
  <2> QED
    BY <2>2, <2>4 DEF Fits
<1>3. IInv => CountsDriftOnlyByWrites
  BY <1>1, <1>2, Zenon DEF CountsDriftOnlyByWrites
<1> QED
  BY <1>3, Invariance, PTL

\* Page after page shows every row that stays, and none twice; no finder leaves
\* out what should come first, and they tell the same story.
THEOREM ListsShowRows == Spec => []ListsShowTheirRows
<1>1. ASSUME IInv PROVE PagesShowRows
  <2> SUFFICES ASSUME Done("walk")
               PROVE  /\ Deleted \cup Displaced = {} => Rows(reader.start) \subseteq Shown
                      /\ Created \cup Displaced = {} =>
                           \A m, n \in DOMAIN reader.shown :
                             m # n => reader.shown[m] # reader.shown[n]
    BY DEF PagesShowRows, Shown
  <2>1. WalkOK /\ Reads("walk") /\ reader.pc # "read"
    BY <1>1 DEF IInv, ReadsOK, Done, Reads
  <2> QED
    BY <2>1 DEF WalkOK
<1>2. ASSUME IInv PROVE FindersShowRows
  <2> SUFFICES ASSUME NEW finder \in Finder, NEW owner \in Owners, NEW kind \in Kinds(entity),
                      NEW s \in Finds(finder, owner, kind, Limit),
                      NEW j \in Found(finder, owner, kind) \ {s[n] : n \in DOMAIN s}
               PROVE  /\ Len(s) = Limit
                      /\ \A n \in DOMAIN s :
                           IF finder = "waiting" THEN table[s[n]].at <= table[j].at
                           ELSE table[s[n]].at >= table[j].at
    BY DEF FindersShowRows
  <2> QED
    BY <1>2, FinderShows DEF IInv, TInv
<1>3. ASSUME IInv PROVE FindersAgree
  <2> SUFFICES ASSUME entity = "submissions", NEW owner \in Owners
               PROVE  /\ Told(owner) = Found("owner", owner, "PENDING")
                      /\ \A s \in TopSubmissions(owner, Limit) :
                           IF Len(s) = Limit THEN \A n \in DOMAIN s : table[s[n]].kind = "ACCEPTED"
                           ELSE {s[n] : n \in DOMAIN s} = Found("both", owner, "ACCEPTED")
                      /\ \A i \in LastSubmission(owner) :
                           IF HasSubmitted(owner)
                           THEN i \in Told(owner)
                                /\ \A j \in Told(owner) : table[j].at <= table[i].at
                           ELSE i = Null
    BY Zenon DEF FindersAgree
  <2>1. TypeOK
    BY <1>3 DEF IInv, TInv
  <2>2. Told(owner) = Of(owner) /\ Found("owner", owner, "PENDING") = Of(owner)
    BY <2>1, EachIsTold DEF Found
  <2>3. ASSUME NEW i \in LastSubmission(owner)
        PROVE  IF HasSubmitted(owner)
               THEN i \in Told(owner) /\ \A j \in Told(owner) : table[j].at <= table[i].at
               ELSE i = Null
    <3>1. IF HasSubmitted(owner)
          THEN i \in Told(owner) /\ \A j \in Told(owner) : table[i].at >= table[j].at
          ELSE i = Null
      BY <2>1, <2>2, LastIsNewest
    <3>2. \A j \in Told(owner) : table[j].at \in Nat
      BY <2>1, <2>2 DEF TypeOK, Of, Rows, AnyRow
    <3> QED
      BY <3>1, <3>2
  <2> QED
    BY <2>1, <2>2, <2>3, TopIsAccepted
<1>4. ASSUME IInv PROVE RangesShowRows
  BY <1>4, RangeShows, LogsOfNodes DEF IInv, TInv, RangesShowRows
<1> QED
  BY <1>1, <1>2, <1>3, <1>4, Invariance, PTL DEF ListsShowTheirRows

\* The replacement reaches every row that stays and that nobody else has written,
\* if none was deleted, however large a page and a table are; and of documents
\* every one.
THEOREM ReplacementReachesRows == Spec => []ReplacementReaches
<1>1. ASSUME IInv, Done("replace"), Deleted = {}, NEW i \in Rows(reader.start) \ Changed,
             reader.start[i].text > 0
      PROVE  table[i].text < reader.start[i].text
  <2>1. ReplaceOK /\ Reads("replace") /\ StartOK
    BY <1>1 DEF IInv, ReadsOK, ReaderOK, Done, Reads
  <2>2. ReplacesRow(i) /\ ~ Ahead(i)
    BY <1>1, <2>1 DEF ReplaceOK, Ahead, Done
  <2>3. reader.start[i].text # 0
    BY <1>1
  <2> QED
    BY <2>2, <2>3 DEF ReplacesRow
<1>2. ASSUME IInv, Done("replaceMongo"), NEW i \in Rows(reader.start) \ Changed, table[i] # NoRow
      PROVE  table[i].text = 0
  <2>1. ReplaceMongoOK /\ Reads("replaceMongo") /\ reader.pc # "read"
    BY <1>2 DEF IInv, ReadsOK, Done, Reads
  <2> QED
    BY <1>2, <2>1 DEF ReplaceMongoOK, ReplacesDocument
<1>3. IInv => ReplacementReaches
  BY <1>1, <1>2 DEF ReplacementReaches
<1> QED
  BY <1>3, Invariance, PTL
=============================================================================
