------------------------------ MODULE Queries ------------------------------
(***************************************************************************)
(* What Guards leaves open: the databases translate condition and filters  *)
(* (Conditions) and select, the repositories count, and the rows that were *)
(* read become a workbook (Exports).                                       *)
(*                                                                         *)
(* A table has the fields _id, count (a number), name (a text), flag and   *)
(* code; its rows have related documents, which an export may show.        *)
(***************************************************************************)
EXTENDS Exports, Guards

CONSTANT Related    \* the entry of a row that a relation of an entity adds

Sql(condition, filters) ==
  {row \in Table : SqlEval(SqlCondition(condition, filters), row) \in {"T", LeftOut}}
Mongo(condition, filters) == {row \in Table : MongoEval(MongoCondition(condition, filters), row)}
Select(db, condition, filters) ==
  IF db = "sql" THEN Sql(condition, filters) ELSE Mongo(condition, filters)

\* The rows that are counted for a page of MongoDB: the condition of the page,
\* scoped and translated again.
MongoCount(condition, code) == Cardinality(Mongo(Scoped(condition, code), <<>>))

\* The count is not given the filters.
TotalOfAll(db, condition, filters, code) == Cardinality(Select(db, condition, <<>>))

\* The total of getPage.
Total(db, condition, filters, code) ==
  IF db = "sql" THEN Cardinality(Sql(condition, filters))
  ELSE MongoCount(MongoCondition(condition, filters), code)

\* A row as it is stored, with what is related to it.
Document(entity, row) ==
  <<Entry("_id", "value", row._id), Entry("count", "value", row.count),
    Entry("name", "value", row.name), Entry("agent", "json", Null)>> \o Related[entity][row._id]

\* The rows come in any order, which makes no difference to their lines.
InSequence(rows) == FoldSet(LAMBDA row, s : Append(s, row), <<>>, rows)

\* getExport: the rows are loaded with what the columns ask for.
WorkbookOf(q, rows) ==
  LET tree == Tree(q.definitions)
      read == InSequence(rows)
      docs == [i \in DOMAIN read |-> Loaded(tree, <<>>, Document(q.entity, read[i]))]
  IN  Book(docs, q.definitions)

\* What a question asks of PostgreSQL has a text that its statement misquotes.
AsksMisquoted(q) ==
  /\ q.db = "sql"
  /\ q.ask \in {"getPage", "getExport"} /\ q.ids = Null
  /\ Misquotes(SqlCondition(q.condition, q.filters))

\* A column that the entity does not define has no definition to look at.
AsksUndefined(q) ==
  Throws(q.entity) \/ ~ Tree(q.definitions) \subseteq Defines(q.entity, <<>>)

-----------------------------------------------------------------------------
(* What the interface means: the reference for the properties. *)

Means(v, op, values) ==
  LET x == First(values)
      range == v >= values[1] /\ v <= values[2]
  IN  CASE op \in {"EQUAL", "$eq"}        -> v = x
        [] op \in {"NOT_EQUAL", "$ne"}    -> v # x
        [] op \in {"LESS_EQUAL", "$lte"}  -> x # Null /\ v <= x
        [] op \in {"LESS_THAN", "$lt"}    -> x # Null /\ v < x
        [] op \in {"GREAT_EQUAL", "$gte"} -> x # Null /\ v >= x
        [] op \in {"GREAT_THAN", "$gt"}   -> x # Null /\ v > x
        [] op = "BETWEEN"                 -> range
        [] op = "NOT_BETWEEN"             -> ~ range
        [] op \in {"INCLUDE", "$in"}      -> v \in Elements(values)
        [] op \in {"NOT_INCLUDE", "$nin"} -> v \notin Elements(values)
        [] op = "$exist"                  -> x
        [] op = "NOT_NULL"                -> TRUE
        [] op = "NULL"                    -> FALSE
        [] op = "CONTAIN"                 -> Occurs(Pattern("any", x), v)
        [] op = "NOT_CONTAIN"             -> ~ Occurs(Pattern("any", x), v)
        [] op = "START_WITH"              -> Occurs(Pattern("start", x), v)
        [] op = "END_WITH"                -> Occurs(Pattern("end", x), v)
        [] op = "$regex"                  -> Occurs(x, v)

Operands(c) == IF c.op \in {"$in", "$nin"} THEN c.v ELSE <<c.v>>

RECURSIVE ConditionMeans(_, _)
ConditionMeans(condition, row) ==
  \A i \in DOMAIN condition :
    LET e == condition[i] IN
    CASE e.key = "$and" -> \A j \in DOMAIN e.of : ConditionMeans(e.of[j], row)
      [] e.key = "$or" -> \E j \in DOMAIN e.of : ConditionMeans(e.of[j], row)
      [] e.is = "criteria" ->
           \A j \in DOMAIN e.of : Means(row[e.key], e.of[j].op, Operands(e.of[j]))
      [] e.is = "value" -> row[e.key] = e.of

RECURSIVE FilterMeans(_, _)
FilterMeans(f, row) ==
  CASE f.operator = "AND" -> \A j \in DOMAIN f.filters : FilterMeans(f.filters[j], row)
    [] f.operator = "OR" -> \E j \in DOMAIN f.filters : FilterMeans(f.filters[j], row)
    [] OTHER -> Means(row[f.field], f.operator, f.values)

QuestionMeans(q, row) ==
  /\ ConditionMeans(q.condition, row)
  /\ \A i \in DOMAIN q.filters : FilterMeans(q.filters[i], row)

\* The fields that a question tests, each with the operator.
RECURSIVE ConditionTests(_)
ConditionTests(condition) ==
  UNION {LET e == condition[i] IN
         CASE e.is = "list" -> UNION {ConditionTests(e.of[j]) : j \in DOMAIN e.of}
           [] e.is = "criteria" -> {<<e.key, e.of[j].op>> : j \in DOMAIN e.of}
           [] e.is = "value" -> {<<e.key, "$eq">>} : i \in DOMAIN condition}

RECURSIVE FilterTests(_)
FilterTests(filters) ==
  UNION {IF filters[i].operator \in {"AND", "OR"} THEN FilterTests(filters[i].filters)
         ELSE {<<filters[i].field, filters[i].operator>>} : i \in DOMAIN filters}

Tests(q) == ConditionTests(q.condition) \cup FilterTests(q.filters)

\* Operators on which the two databases differ, whatever the row.
Unlike == {"LIKE", "NOT_LIKE", "$like", "default"}
\* Operators that differ on a row without a value: negations of a test, and
\* comparisons, for their operand may be Null.
NullDivides == {"NOT_CONTAIN", "NOT_INCLUDE", "NOT_BETWEEN", "INCLUDE", "LESS_EQUAL",
                "GREAT_EQUAL", "$nin", "$in", "$lte", "$gte"}

\* Sequelize leaves a test that excludes no value out of the alternatives, where
\* every row should meet it.
RECURSIVE LosesAlternative(_, _)
LosesAlternative(where, alternative) ==
  \E i \in DOMAIN where :
    LET e == where[i] IN
    \/ /\ e.is = "list"
       /\ \E j \in DOMAIN e.of : LosesAlternative(e.of[j], alternative \/ e.key = "Op.or")
    \/ /\ e.is = "criteria" /\ alternative
       /\ \E j \in DOMAIN e.of : e.of[j].op = "Op.notIn" /\ e.of[j].v = <<>>

Pages == {r \in Requests : stage[r] = "answered" /\ Question(r).ask = "getPage"}

\* A page lists a row that has a value in each field that the question tests
\* if, and only if, that is what the operators mean, whichever the database; and
\* its total is the number of rows that its pages list, although over MongoDB
\* the condition is translated a second time for it.  Over PostgreSQL this is
\* not said of a text with an apostrophe, which NOT_EQUAL and $ne misquote, nor
\* of an alternative to be in none of no values, which is lost.
SelectsWhatIsMeant ==
  \A r \in Pages :
    LET q == Question(r)
        complete == {row \in Table : \A t \in Tests(q) : row[t[1]] # Null}
        reach == IF cls[r] = Null THEN complete
                 ELSE {row \in complete : row.code = cls[r]}
        lost == q.db = "sql" /\ LosesAlternative(SqlCondition(q.condition, q.filters), FALSE)
    IN  /\ answer[r].total = Cardinality(answer[r].rows)
        /\ ~ AsksMisquoted(q) /\ ~ lost =>
             ((\A t \in Tests(q) : t[2] \notin Unlike /\ t[1] # "code") =>
                answer[r].rows \cap reach = {row \in reach : QuestionMeans(q, row)})

\* What PostgreSQL selects MongoDB would select, and it would select more only
\* where a negation or a comparison meets a field without a value, or where an
\* alternative is lost.  A statement that is misquoted may select anything.
OnlyNullsDivide ==
  \A r \in Pages :
    LET q == Question(r)
        scoped == Scoped(q.condition, cls[r])
        sql == Sql(scoped, q.filters)
        mongo == Mongo(scoped, q.filters)
        where == SqlCondition(scoped, q.filters)
    IN  ~ Misquotes(where) /\ (\A t \in Tests(q) : t[2] \notin Unlike) =>
          /\ sql \subseteq mongo
          /\ ~ LosesAlternative(where, FALSE) =>
               \A row \in mongo \ sql :
                 \E t \in Tests(q) : t[2] \in NullDivides /\ row[t[1]] = Null

\* What the n-th line of a row shall show in a column, and how many lines the
\* row shall have: the items of its list, if a column looks into it.
Relation(doc) == {e \in Elements(doc) : e.is \in {"object", "list"}}
Of(doc, field) ==
  LET found == {e \in Elements(doc) : e.key = field /\ e.is = "value"}
  IN  IF found = {} THEN Null ELSE (CHOOSE e \in found : TRUE).of
Cell(doc, n, column) ==
  IF Len(column) = 1 THEN Of(doc, column[1])
  ELSE LET e == CHOOSE x \in Relation(doc) : x.key = column[1]
           item == IF e.is = "list" THEN e.of ELSE <<e.of>>
       IN  IF n \in DOMAIN item THEN Of(item[n], column[2]) ELSE Null
Height(doc, definitions) ==
  LET items == {Len(e.of) : e \in {x \in Relation(doc) : /\ x.is = "list" /\ Len(x.of) > 1
                                      /\ \E d \in definitions : Len(d) = 2 /\ d[1] = x.key}}
  IN  IF items = {} THEN 1 ELSE CHOOSE n \in items : TRUE

\* An export shows each value that was asked for: the first sheet has a line for
\* each item of each row, with the row's own values and the item's; the second
\* sheet, which there is if a row has several lines, shows each value once.  The
\* first sheet may show the first item's value where a later item has none.
ExportShowsEveryValue ==
  \A r \in Requests :
    LET q == Question(r)
        rows == InSequence(answer[r].rows)
        lines == FlattenSeq([i \in DOMAIN rows |->
                   LET doc == Document(q.entity, rows[i])
                   IN  [n \in 1 .. Height(doc, q.definitions) |-> [doc |-> doc, n |-> n]]])
        full == answer[r].book.full
        partial == answer[r].book.partial
        shows(line, column, v) == column \in DOMAIN line /\ line[column] = v
    IN  (stage[r] = "answered" /\ q.ask = "getExport") =>
          /\ Len(full) = Len(lines)
          /\ Len(partial) = IF Len(lines) > Len(rows) THEN Len(lines) ELSE 0
          /\ \A i \in DOMAIN lines, column \in q.definitions :
               LET v == Cell(lines[i].doc, lines[i].n, column)
                   first == Cell(lines[i].doc, 1, column)
                   once == Len(column) = 1 => lines[i].n = 1
               IN  /\ v # Null => shows(full[i], column, v)
                   /\ v = Null => column \notin DOMAIN full[i] \/ shows(full[i], column, first)
                   /\ partial # <<>> =>
                        (IF v # Null /\ once THEN shows(partial[i], column, v)
                         ELSE column \notin DOMAIN partial[i])
=============================================================================
