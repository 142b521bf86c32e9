----------------------------- MODULE JudgeReads -----------------------------
(***************************************************************************)
(* Requests that read the tables of JudgeTables in several statements,     *)
(* each in a snapshot of its own, while others write: the activity of a    *)
(* node, the statistics of submissions, the pages of a list, one after     *)
(* another, and the replacement of a domain in every text, which reads     *)
(* pages and writes what it has read, over PostgreSQL and over MongoDB.    *)
(* The statistics by day, and the lists of the finders, are read in one    *)
(* statement.                                                              *)
(***************************************************************************)
EXTENDS JudgeTables, SequencesExt

CONSTANTS
  Limit,      \* rows on a page
  PageSize,   \* rows that the replacement reads at once, or documents
  Days        \* how many days the statistics by day shall cover

ASSUME JudgeReadsAssumption == Limit \in Nat \ {0} /\ PageSize \in Nat \ {0} /\ Days \in Nat

VARIABLE reader   \* the request that reads

vars == <<writerVars, reader>>

Count(rows) == Cardinality(rows)
Sum(counts) == FoldFunctionOnSet(+, 0, counts, DOMAIN counts)
Now == Len(written)
Moved(n) == Now - n   \* how many statements have written since the n-th

\* start and from, with which every request begins, serve the properties.
Begin(request) ==
  /\ reader.pc = "idle"
  /\ reader' = request
  /\ UNCHANGED writerVars

Init == InitTables /\ reader = [pc |-> "idle"]

-----------------------------------------------------------------------------
(* Counts *)

\* The rows of all owners.
OfAnyone(owner) == Rows(table)

\* The WHERE of every statement of a statistic.
Of(owner) == {i \in Rows(table) : table[i].of = owner}

ByKind(rows) ==
  [kind \in {table[i].kind : i \in rows} |-> Count({i \in rows : table[i].kind = kind})]

Read(statement, owner) ==
  CASE statement = "total"    -> Count(Of(owner))
    [] statement = "accepted" -> Count({i \in Of(owner) : table[i].kind = "ACCEPTED"})
    [] statement = "kinds"    -> ByKind(Of(owner))
    [] statement = "last"     -> IF Of(owner) = {} THEN Null
                                 ELSE Max({table[i].at : i \in Of(owner)})

\* Their statements, in order.  AVG("score") fails: there is no such column,
\* it is called _score.
Program(what) ==
  CASE what = "getNodeActivitySummary"    -> <<"total", "kinds", "last">>
    [] what = "getStudentSubmissionStats" -> <<"total", "accepted", "kinds", "average", "last">>
    [] what = "getProblemSubmissionStats" -> <<"total", "accepted", "kinds", "languages", "average">>

Summaries == CASE entity = "logs" -> {"getNodeActivitySummary"}
               [] entity = "submissions" -> {"getStudentSubmissionStats", "getProblemSubmissionStats"}
               [] entity = "documents" -> {}

BeginSummary ==
  \E what \in Summaries, owner \in Owners :
    Begin([what |-> what, pc |-> "read", start |-> table, from |-> Now,
           owner |-> owner, result |-> <<>>])

ReadSummary ==
  /\ reader.pc = "read" /\ reader.what \in Summaries
  /\ LET program == Program(reader.what)
         statement == program[Len(reader.result) + 1]
         result == Append(reader.result, IF statement = "languages" THEN Null
                                         ELSE Read(statement, reader.owner))
     IN  reader' = IF statement = "average" THEN [reader EXCEPT !.pc = "thrown"]
                   ELSE [reader EXCEPT !.result = result,
                           !.pc = IF Len(result) = Len(program) THEN "done" ELSE "read"]
  /\ UNCHANGED writerVars

\* getDailyLogStats and getDailySubmissionStats: of the criteria >= and <= only
\* the keys that are strings are translated, and these are symbols.  Sequelize
\* is asked for rows whose time is {}, which it may take for any row or none.
InLastDays(rows) == {rows, {}}

ByDay(rows) == [day \in {table[i].at : i \in rows} |-> Count({i \in rows : table[i].at = day})]

ReadDaily ==
  /\ entity # "documents"
  /\ \E rows \in InLastDays(Rows(table)) :
       Begin([what |-> "daily", pc |-> "done", start |-> table, from |-> Now,
              at |-> now, result |-> ByDay(rows)])

-----------------------------------------------------------------------------
(* Pages *)

\* The client's order alone.
OrderAsAsked(sort) == sort

\* RequestQueryPipe: an order that leaves rows level is completed by _id.
Order(sort) == IF "_id" \in {sort[n] : n \in DOMAIN sort} THEN sort ELSE Append(sort, "_id")

\* Descending.
Before(i, j, order) ==
  LET level(n) == \A m \in 1 .. n - 1 : order[m] = "at" /\ table[i].at = table[j].at
      first(n) == CASE order[n] = "_id" -> i > j [] order[n] = "at" -> table[i].at > table[j].at
  IN  \E n \in DOMAIN order : level(n) /\ first(n)

\* Rows that the order leaves level may come in any order, in every statement
\* in another.
Sorted(rows, order) ==
  {s \in SetToSeqs(rows) : \A m, n \in DOMAIN s : m < n => ~ Before(s[n], s[m], order)}

\* Pages that are numbered from 0.
SkipFromZero(page, limit) == page * limit

Skip(page, limit) == (page - 1) * limit

Slice(s, skip, limit) == SubSeq(s, skip + 1, IF Len(s) < skip + limit THEN Len(s) ELSE skip + limit)

\* What the finders select: the rows of a student, problem, class or node, those
\* of a status or event, or of both, the work that waits, and whatever there is.
SubmissionFinder == {"owner", "kind", "both", "all", "waiting", "class"}
LogFinder == {"owner", "kind", "both", "all"}
Finder == CASE entity = "submissions" -> SubmissionFinder
            [] entity = "logs" -> LogFinder
            [] entity = "documents" -> {}

OfKind(kind) == {i \in Rows(table) : table[i].kind = kind}
OfBoth(owner, kind) == Of(owner) \cap OfKind(kind)

Found(finder, owner, kind) ==
  CASE finder \in {"owner", "class"} -> Of(owner)
    [] finder = "kind" -> OfKind(kind)
    [] finder = "both" -> OfBoth(owner, kind)
    [] finder = "waiting" -> IF kind \in {"PENDING", "RUNNING"} THEN OfKind(kind) ELSE {}
    [] finder = "all" -> Rows(table)

Newest(rows, limit) == {Slice(s, 0, limit) : s \in Sorted(rows, <<"at">>)}

\* For the judge, which takes the work that has waited longest.
Oldest(rows, limit) == {Slice(Reverse(s), 0, limit) : s \in Sorted(rows, <<"at">>)}

\* Those of a class forget their limit, and have no order.
OfClass(rows) == SetToSeqs(rows)

Finds(finder, owner, kind, limit) ==
  LET rows == Found(finder, owner, kind)
  IN  CASE finder = "class"   -> OfClass(rows)
        [] finder = "waiting" -> Oldest(rows, limit)
        [] OTHER              -> Newest(rows, limit)

\* Of the days from the first to the last.
InRange(rows, first, last) == {i \in rows : table[i].at \in first .. last}

SubmissionsByTimeRange(first, last, limit) == Newest(InRange(Rows(table), first, last), limit)

\* Of all nodes and events, where these are not given.
LogsByTimeRange(first, last, owner, kind) ==
  InRange(Rows(table), first, last)
    \cap (IF owner = Null THEN Rows(table) ELSE Of(owner))
    \cap (IF kind = Null THEN Rows(table) ELSE OfKind(kind))

\* getMany without a limit, whatever the caller asks for.
Accepted(owner) == {i \in Of(owner) : table[i].kind = "ACCEPTED"}
\* The best of them by score, which is not told here: any.
TopSubmissions(owner, limit) == {Slice(s, 0, limit) : s \in SetToSeqs(Accepted(owner))}
Errors(owner) == {i \in Of(owner) : table[i].kind \in Final \ {"ACCEPTED"}}

\* null when there is none.
LastSubmission(owner) ==
  {IF s = <<>> THEN Null ELSE s[1] : s \in Finds("owner", owner, "PENDING", 1)}
HasSubmitted(owner) == Count(Of(owner)) > 0

\* A client that asks for page after page until one is not full.
BeginWalk ==
  \E sort \in {<<>>, <<"at">>} :
    /\ entity # "documents"
    /\ Begin([what |-> "walk", pc |-> "read", start |-> table, from |-> Now,
              order |-> Order(sort), page |-> 1, next |-> "rows", rows |-> <<>>, shown |-> <<>>,
              rowsAt |-> Now, total |-> 0, countAt |-> Now])

\* getPage: first the rows, then the count.
PageRows ==
  /\ reader.pc = "read" /\ reader.what = "walk" /\ reader.next = "rows"
  /\ \E s \in Sorted(Rows(table), reader.order) :
       LET rows == Slice(s, Skip(reader.page, Limit), Limit)
       IN  reader' = [reader EXCEPT !.rows = rows, !.shown = @ \o rows, !.rowsAt = Now,
                                    !.next = "count"]
  /\ UNCHANGED writerVars

PageCount ==
  /\ reader.pc = "read" /\ reader.what = "walk" /\ reader.next = "count"
  /\ reader' = [reader EXCEPT !.total = Count(Rows(table)), !.countAt = Now,
                              !.page = @ + 1, !.next = "rows",
                              !.pc = IF Len(reader.rows) = Limit THEN "read" ELSE "done"]
  /\ UNCHANGED writerVars

-----------------------------------------------------------------------------
(* replaceDomainUrlSql, on one table *)

BeginReplace ==
  /\ entity # "documents"
  /\ Begin([what |-> "replace", pc |-> "read", start |-> table, from |-> Now,
            page |-> 1, next |-> "page", data |-> <<>>, index |-> 0])

\* By _id, of which no two rows have the same.
Ascending(rows) == {s \in SetToSeqs(rows) : \A m, n \in DOMAIN s : m < n => s[m] < s[n]}

\* Mentions that are left after String.replace, which replaces the first.
Replace(text) == text - 1

ReplacePage ==
  /\ reader.pc = "read" /\ reader.what = "replace" /\ reader.next = "page"
  /\ \E s \in Ascending(Rows(table)) :
       LET data == Slice(s, Skip(reader.page, PageSize), PageSize)
       IN  reader' = [reader EXCEPT !.data = [n \in DOMAIN data |->
                                                [_id |-> data[n], text |-> table[data[n]].text]],
                                    !.index = 1, !.next = "row"]
  /\ UNCHANGED writerVars

\* The row is written from the page, which may be old; a row that is gone
\* is not missed.
ReplaceRow ==
  /\ reader.pc = "read" /\ reader.what = "replace" /\ reader.next = "row"
  /\ reader.index <= Len(reader.data)
  /\ LET row == reader.data[reader.index]
     IN  table' = IF row.text > 0 /\ table[row._id] # NoRow
                  THEN [table EXCEPT ![row._id].text = Replace(row.text)] ELSE table
  /\ reader' = [reader EXCEPT !.index = @ + 1]
  /\ UNCHANGED <<entity, now, written, upd>>

\* Stops at a page that is not full.
ReplaceNext ==
  /\ reader.pc = "read" /\ reader.what = "replace" /\ reader.next = "row"
  /\ reader.index > Len(reader.data)
  /\ reader' = IF Len(reader.data) = PageSize
               THEN [reader EXCEPT !.page = @ + 1, !.next = "page"]
               ELSE [reader EXCEPT !.pc = "done"]
  /\ UNCHANGED writerVars

-----------------------------------------------------------------------------
(* replaceDomainUrlMongo, on one collection *)

BeginReplaceMongo ==
  /\ entity = "documents"
  /\ Begin([what |-> "replaceMongo", pc |-> "read", start |-> table, from |-> Now,
            next |-> "find", seen |-> {}, bulk |-> <<>>, index |-> 1])

\* The next documents of the cursor, which has no order, and meets each that
\* stays once; the update of each is fixed by what was read of it.  Documents
\* without a mention need none.
FindDocuments ==
  /\ reader.pc = "read" /\ reader.what = "replaceMongo" /\ reader.next = "find"
  /\ LET rest == Rows(table) \ reader.seen
     IN  \/ rest = {} /\ reader' = [reader EXCEPT !.next = "execute"]
         \/ \E page \in SUBSET rest \ {{}} :
              /\ Cardinality(page) <= PageSize
              /\ \E found \in SetToSeqs({i \in page : table[i].text > 0}) :
                   reader' = [reader EXCEPT !.bulk = @ \o found, !.seen = @ \cup page]
  /\ UNCHANGED writerVars

\* bulk.execute: the updates one after another, all mentions in each; a document
\* that is gone is not missed.
ExecuteBulk ==
  /\ reader.pc = "read" /\ reader.what = "replaceMongo" /\ reader.next = "execute"
  /\ IF reader.index > Len(reader.bulk)
     THEN reader' = [reader EXCEPT !.pc = "done"] /\ UNCHANGED table
     ELSE LET i == reader.bulk[reader.index]
          IN  /\ table' = IF table[i] = NoRow THEN table ELSE [table EXCEPT ![i].text = 0]
              /\ reader' = [reader EXCEPT !.index = @ + 1]
  /\ UNCHANGED <<entity, now, written, upd>>

ReaderStep ==
  \/ BeginReplaceMongo \/ FindDocuments \/ ExecuteBulk
  \/ BeginSummary \/ ReadSummary \/ ReadDaily
  \/ BeginWalk \/ PageRows \/ PageCount
  \/ BeginReplace \/ ReplacePage \/ ReplaceRow \/ ReplaceNext

Next == ReaderStep \/ (WriterStep /\ UNCHANGED reader)

Spec == Init /\ [][Next]_vars

-----------------------------------------------------------------------------

Done(what) == reader.pc = "done" /\ reader.what = what
Created == Since(reader.from, "create") \cup Since(reader.from, "byHand")
Deleted == Since(reader.from, "delete")
Retimed == Since(reader.from, "retime")
Changed == Since(reader.from, "judge") \cup Since(reader.from, "edit") \cup Retimed

\* Rows that went to another place in the order of a walk.
Displaced == IF "at" \in ToSet(reader.order) THEN Retimed ELSE {}
Distance(a, b) == IF a > b THEN a - b ELSE b - a

\* The counts that one answer puts side by side, read in separate snapshots,
\* differ by no more rows than statements wrote in between: the events of a
\* node by kind and their total, and a page that is the last one and the total
\* of its list.  If nothing was written they are those of one snapshot.
CountsDriftOnlyByWrites ==
  /\ Done("getNodeActivitySummary") =>
       LET moved == Now - reader.from
           own == {i \in Rows(reader.start) : reader.start[i].of = reader.owner}
           total == reader.result[1]
           kinds == reader.result[2]
       IN  /\ Distance(Sum(kinds), total) <= moved
           /\ moved = 0 => /\ total = Cardinality(own)
                           /\ \A kind \in DOMAIN kinds :
                                kinds[kind] = Cardinality({i \in own : reader.start[i].kind = kind})
                           /\ \A i \in own : reader.result[3] >= reader.start[i].at
  /\ (reader.pc # "idle" /\ reader.what = "walk" /\ reader.next = "rows" /\ reader.page > 1) =>
       LET moved == reader.countAt - reader.rowsAt
           page == reader.rows
           seen == (reader.page - 2) * Limit + Len(page)
       IN  /\ page # <<>> => reader.total >= seen - moved
           /\ Len(page) < Limit => reader.total <= seen + moved

\* Who turns page after page sees every row that stays, unless a row is deleted
\* meanwhile, and no row twice, unless one is created: even if the client
\* orders by a column in which rows are level, unless it is edited meanwhile.
PagesShowRows ==
  Done("walk") =>
    LET shown == reader.shown
    IN  /\ Deleted \cup Displaced = {} => Rows(reader.start) \subseteq {shown[n] : n \in DOMAIN shown}
        /\ Created \cup Displaced = {} => \A m, n \in DOMAIN shown : m # n => shown[m] # shown[n]

\* A finder with a limit leaves out no row that is newer than one it shows, and
\* the judge no work that has waited longer.
FindersShowRows ==
  reader.pc = "idle" =>
    \A finder \in Finder, owner \in Owners, kind \in Kinds(entity) :
      \A s \in Finds(finder, owner, kind, Limit) :
        LET shown == {s[n] : n \in DOMAIN s}
            out == Found(finder, owner, kind) \ shown
        IN  /\ out # {} => Len(s) = Limit
            /\ \A i \in shown, j \in out :
                 IF finder = "waiting" THEN table[i].at <= table[j].at
                 ELSE table[i].at >= table[j].at

\* The submissions of owner, as one finder after another tells them.
Told(owner) ==
  LET waiting == {i \in Rows(table) : \E kind \in {"PENDING", "RUNNING"} :
                    i \in Found("waiting", owner, kind) /\ table[i].of = owner}
  IN  waiting \cup Accepted(owner) \cup Errors(owner)

\* The finders that tell the same story agree: a student has a last submission
\* exactly if he has submitted, each of his submissions waits, is accepted or
\* has an error, the last one is no older than any of them, and the top of a
\* problem shows accepted ones only, all unless it is full.
FindersAgree ==
  (reader.pc = "idle" /\ entity = "submissions") =>
    \A owner \in Owners :
      LET all == Told(owner)
      IN  /\ all = Found("owner", owner, "PENDING")
          /\ \A s \in TopSubmissions(owner, Limit) :
               IF Len(s) = Limit THEN \A n \in DOMAIN s : table[s[n]].kind = "ACCEPTED"
               ELSE {s[n] : n \in DOMAIN s} = Found("both", owner, "ACCEPTED")
          /\ \A i \in LastSubmission(owner) :
               IF HasSubmitted(owner)
               THEN i \in all /\ \A j \in all : table[j].at <= table[i].at
               ELSE i = Null

\* A range of days shows all rows of these days, the submissions up to its limit,
\* and the logs of a range are those of its nodes.
RangesShowRows ==
  reader.pc = "idle" => \A day \in 0 .. now :
    /\ entity = "submissions" => \A s \in SubmissionsByTimeRange(day, now, Limit) :
         LET recent == {i \in Rows(table) : day <= table[i].at /\ table[i].at <= now}
         IN  /\ {s[n] : n \in DOMAIN s} \subseteq recent
             /\ Len(s) = Limit \/ Len(s) = Count(recent)
    /\ entity = "logs" => \A kind \in EventType :
         LogsByTimeRange(day, now, Null, kind) =
           UNION {InRange(Found("both", owner, kind), day, now) : owner \in Owners}

\* What lists, finders and ranges show is what there is to show, in their order.
ListsShowTheirRows == PagesShowRows /\ FindersShowRows /\ FindersAgree /\ RangesShowRows

\* When the replacement has ended, each row that was there from the start, and
\* that nobody else has written, has lost its mention of the domain (the first
\* one, where it had several), if no row was deleted meanwhile: a deletion
\* moves rows to a page that has been read.  A document has lost all of them,
\* whatever has been deleted.
ReplacementReaches ==
  /\ (Done("replace") /\ Deleted = {}) =>
       \A i \in Rows(reader.start) \ Changed :
         reader.start[i].text > 0 => table[i].text < reader.start[i].text
  /\ Done("replaceMongo") =>
       \A i \in Rows(reader.start) \ Changed : table[i] # NoRow => table[i].text = 0

\* The statistics by day count the rows of the last days, and not the older
\* ones: as the route says, its parameter is the number of days to be covered.
DailyStatsCoverTheDays ==
  Done("daily") =>
    LET recent == {i \in Rows(reader.start) : reader.start[i].at >= reader.at - Days}
    IN  recent \notin {{}, Rows(reader.start)} => Sum(reader.result) = Cardinality(recent)
=============================================================================
