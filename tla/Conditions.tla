----------------------------- MODULE Conditions -----------------------------
(***************************************************************************)
(* What a condition and a list of filters select.  sql.ulti.ts turns them  *)
(* into a WHERE clause, which PostgreSQL evaluates with three truth        *)
(* values; mongo.util.ts turns them into a filter, which MongoDB evaluates *)
(* with two.                                                               *)
(*                                                                         *)
(* What the translations return has the form of a condition (Entries),     *)
(* with the operators of the database.  A text is a sequence of letters;   *)
(* letters with accents, upper case and the signs that a regular           *)
(* expression or LIKE gives a meaning to are left out: a pattern is a text *)
(* and the place where it shall occur.  The apostrophe is among the        *)
(* letters.  A field without a value is Null in a table, and absent from a *)
(* document.                                                               *)
(***************************************************************************)
EXTENDS Entries

Booleans == {"flag"}  \* the fields whose values are booleans
Texts == {"name"}     \* the fields whose values are texts

First(values) == IF values = <<>> THEN Null ELSE values[1]

Criterion(op, v) == [op |-> op, v |-> v]
Test(field, op, v) == <<Entry(field, "criteria", <<Criterion(op, v)>>)>>
Pattern(at, text) == [at |-> at, text |-> text]

\* Object.assign: of the criteria with one operator the last one remains.
LastOfEachOp(cs) ==
  LET last(i) == \A j \in i + 1 .. Len(cs) : cs[j].op # cs[i].op
      from[i \in 1 .. Len(cs) + 1] ==
        IF i > Len(cs) THEN <<>>
        ELSE (IF last(i) THEN <<cs[i]>> ELSE <<>>) \o from[i + 1]
  IN  from[1]

\* The condition is lost when there are filters.
JoinDropping(condition, filters, and) ==
  IF filters = <<>> THEN condition ELSE <<Entry(and, "list", filters)>>

\* getCondition: the condition and the filters, all of which shall hold.
Join(condition, filters, and) ==
  IF filters = <<>> THEN condition
  ELSE <<Entry(and, "list", <<condition>> \o filters)>>

Defined(components) == SelectSeq(components, LAMBDA c : c # <<>>)

-----------------------------------------------------------------------------
(* The translation for PostgreSQL *)

\* <>, which no row without a value meets.
SqlUnlikeOp(field, v) == Criterion("Op.notIn", <<v>>)

\* Different from v, where Null is a value like others; a boolean has a form
\* of its own.  Other values are written into the statement as they are.
SqlUnlike(field, v) ==
  IF field \in Booleans /\ v # Null
  THEN Criterion("Op.not", v) ELSE Criterion("Op.is", [distinct |-> v])

SqlCriterion(field, c) ==
  CASE c.op = "$in"    -> Criterion("Op.in", c.v)
    [] c.op = "$nin"   -> Criterion("Op.notIn", c.v)
    [] c.op = "$eq"    -> Criterion("Op.eq", c.v)
    [] c.op = "$ne"    -> SqlUnlike(field, c.v)
    [] c.op = "$gt"    -> Criterion("Op.gt", c.v)
    [] c.op = "$gte"   -> Criterion("Op.gte", c.v)
    [] c.op = "$lt"    -> Criterion("Op.lt", c.v)
    [] c.op = "$lte"   -> Criterion("Op.lte", c.v)
    [] c.op = "$exist" -> Criterion(IF c.v THEN "Op.not" ELSE "Op.is", Null)
    [] c.op = "$like"  -> Criterion("Op.iLike", c.v)
    [] c.op = "$regex" -> Criterion("Op.iRegexp", c.v)
    [] OTHER           -> c

SqlCriteria(field, cs) ==
  LastOfEachOp([i \in DOMAIN cs |-> SqlCriterion(field, cs[i])])

RECURSIVE SqlConditionOf(_)
SqlConditionOf(condition) ==
  [i \in DOMAIN condition |->
     LET e == condition[i] IN
     CASE e.is = "list"     -> Entry(IF e.key = "$and" THEN "Op.and" ELSE "Op.or", "list",
                                     [j \in DOMAIN e.of |-> SqlConditionOf(e.of[j])])
       [] e.is = "criteria" -> [e EXCEPT !.of = SqlCriteria(e.key, @)]
       [] e.is = "value"    -> e]

\* One comparison; an operator that is not known compares for equality.
SqlComparison(f) ==
  LET v == First(f.values)
      test(op, x) == Test(f.field, op, x)
  IN  CASE f.operator = "CONTAIN"     -> test("Op.iRegexp", Pattern("any", v))
        [] f.operator = "NOT_CONTAIN" -> test("Op.notIRegexp", Pattern("any", v))
        [] f.operator = "START_WITH"  -> test("Op.iRegexp", Pattern("start", v))
        [] f.operator = "END_WITH"    -> test("Op.iRegexp", Pattern("end", v))
        [] f.operator = "EQUAL"       -> test("Op.eq", v)
        [] f.operator = "NOT_EQUAL"   -> <<Entry(f.field, "criteria", <<SqlUnlike(f.field, v)>>)>>
        [] f.operator = "LESS_EQUAL"  -> test("Op.lte", v)
        [] f.operator = "LESS_THAN"   -> test("Op.lt", v)
        [] f.operator = "GREAT_EQUAL" -> test("Op.gte", v)
        [] f.operator = "GREAT_THAN"  -> test("Op.gt", v)
        [] f.operator = "BETWEEN"     -> test("Op.between", f.values)
        [] f.operator = "NOT_BETWEEN" -> test("Op.notBetween", f.values)
        [] f.operator = "INCLUDE"     -> test("Op.in", f.values)
        [] f.operator = "NOT_INCLUDE" -> test("Op.notIn", f.values)
        [] f.operator = "NOT_NULL"    -> test("Op.not", Null)
        [] f.operator = "NULL"        -> test("Op.is", Null)
        [] f.operator = "LIKE"        -> test("Op.like", Pattern("any", v))
        [] f.operator = "NOT_LIKE"    -> test("Op.notLike", Pattern("any", v))
        [] OTHER                      -> <<Entry(f.field, "value", v)>>

\* getRawValue puts a text between apostrophes: one that has an apostrophe does
\* not end where it should, and the statement fails or asks for something else.
RECURSIVE Misquotes(_)
Misquotes(where) ==
  LET distinct(c) == c.op = "Op.is" /\ c.v # Null /\ c.v.distinct # Null
  IN  \E i \in DOMAIN where :
        LET e == where[i] IN
        \/ e.is = "list" /\ \E j \in DOMAIN e.of : Misquotes(e.of[j])
        \/ /\ e.is = "criteria" /\ e.key \in Texts
           /\ \E j \in DOMAIN e.of : distinct(e.of[j]) /\ "'" \in Elements(e.of[j].v.distinct)

RECURSIVE SqlFilters(_)
SqlFilters(filters) ==
  LET group(op, nested) == IF nested = <<>> THEN <<>> ELSE <<Entry(op, "list", nested)>>
      component(f) ==
        CASE f.operator = "AND" -> group("Op.and", SqlFilters(f.filters))
          [] f.operator = "OR"  -> group("Op.or", SqlFilters(f.filters))
          [] OTHER              -> SqlComparison(f)
  IN  Defined([i \in DOMAIN filters |-> component(filters[i])])

SqlCondition(condition, filters) ==
  Join(SqlConditionOf(condition), SqlFilters(filters), "Op.and")

-----------------------------------------------------------------------------
(* The translation for MongoDB *)

RECURSIVE MongoCriteria(_)
MongoCriteria(cs) ==
  LET criterion(c) ==
        CASE c.op = "$exist"             -> Criterion("$exists", c.v)
          [] c.op \in {"$regex", "$like"} -> Criterion("$regex", c.v)
          [] c.op = "$not"               -> Criterion("$not", MongoCriteria(c.v))
          [] OTHER                       -> c
  IN  LastOfEachOp([i \in DOMAIN cs |-> criterion(cs[i])])

RECURSIVE MongoConditionOf(_)
MongoConditionOf(condition) ==
  [i \in DOMAIN condition |->
     LET e == condition[i] IN
     CASE e.is = "list"     -> [e EXCEPT !.of = [j \in DOMAIN @ |-> MongoConditionOf(@[j])]]
       [] e.is = "criteria" -> [e EXCEPT !.of = MongoCriteria(@)]
       [] e.is = "value"    -> e]

\* One comparison; an operator that is not known is left out.
MongoComparison(f) ==
  LET v == First(f.values)
      test(op, x) == Test(f.field, op, x)
      regex(at) == Criterion("$regex", Pattern(at, v))
      range == <<Criterion("$gte", f.values[1]), Criterion("$lte", f.values[2])>>
      present == <<Criterion("$exists", TRUE), Criterion("$ne", Null)>>
  IN  CASE f.operator \in {"CONTAIN", "LIKE"} -> test("$regex", Pattern("any", v))
        [] f.operator \in {"NOT_CONTAIN", "NOT_LIKE"} -> test("$not", <<regex("any")>>)
        [] f.operator = "START_WITH"  -> test("$regex", Pattern("start", v))
        [] f.operator = "END_WITH"    -> test("$regex", Pattern("end", v))
        [] f.operator = "EQUAL"       -> <<Entry(f.field, "value", v)>>
        [] f.operator = "NOT_EQUAL"   -> test("$ne", v)
        [] f.operator = "LESS_EQUAL"  -> test("$lte", v)
        [] f.operator = "LESS_THAN"   -> test("$lt", v)
        [] f.operator = "GREAT_EQUAL" -> test("$gte", v)
        [] f.operator = "GREAT_THAN"  -> test("$gt", v)
        [] f.operator = "BETWEEN"     -> <<Entry(f.field, "criteria", range)>>
        [] f.operator = "NOT_BETWEEN" -> test("$not", range)
        [] f.operator = "INCLUDE"     -> test("$in", f.values)
        [] f.operator = "NOT_INCLUDE" -> test("$nin", f.values)
        [] f.operator = "NOT_NULL"    -> <<Entry(f.field, "criteria", present)>>
        [] f.operator = "NULL"        -> <<Entry("$or", "list",
                                           <<Test(f.field, "$exists", FALSE),
                                             <<Entry(f.field, "value", Null)>> >>)>>
        [] OTHER                      -> <<>>

RECURSIVE MongoFilters(_)
MongoFilters(filters) ==
  LET group(op, nested) == IF nested = <<>> THEN <<>> ELSE <<Entry(op, "list", nested)>>
      component(f) ==
        CASE f.operator = "AND" -> group("$and", MongoFilters(f.filters))
          [] f.operator = "OR"  -> group("$or", MongoFilters(f.filters))
          [] OTHER              -> MongoComparison(f)
  IN  Defined([i \in DOMAIN filters |-> component(filters[i])])

MongoCondition(condition, filters) ==
  Join(MongoConditionOf(condition), MongoFilters(filters), "$and")

-----------------------------------------------------------------------------
(* The databases *)

Occurs(p, text) ==
  LET n == Len(p.text)
      at(i) == SubSeq(text, i + 1, i + n) = p.text
      positions == 0 .. Len(text) - n
  IN  CASE p.at = "any"   -> \E i \in positions : at(i)
        [] p.at = "start" -> n <= Len(text) /\ at(0)
        [] p.at = "end"   -> n <= Len(text) /\ at(Len(text) - n)

\* PostgreSQL: "T", "F", or "N" when a Null leaves it open.  Sequelize leaves a
\* test out of the statement that excludes no value, and of the alternatives.
LeftOut == "-"
Not3(b) == CASE b = "T" -> "F" [] b = "F" -> "T" [] b = "N" -> "N"
All3(bs) == IF "F" \in bs THEN "F" ELSE IF "N" \in bs THEN "N"
            ELSE IF "T" \in bs THEN "T" ELSE LeftOut
Some3(bs) == IF "T" \in bs THEN "T" ELSE IF "N" \in bs THEN "N" ELSE "F"
Bool3(b) == IF b THEN "T" ELSE "F"

SqlTest(v, c) ==
  LET known(operands, b) == IF Null \in operands THEN "N" ELSE Bool3(b)
      in == IF v \in Elements(c.v) \ {Null} THEN "T" ELSE known(Elements(c.v) \cup {v}, FALSE)
      between == IF v = Null THEN "N" ELSE Bool3(v >= c.v[1] /\ v <= c.v[2])
      regexp == IF v = Null THEN "N" ELSE Bool3(Occurs(c.v, v))
      nullOrNot == IF c.v = Null THEN Bool3(v = Null) ELSE known({v, c.v}, v = c.v)
  IN  CASE c.op = "Op.in"         -> IF c.v = <<>> THEN "N" ELSE in
        [] c.op = "Op.notIn"      -> IF c.v = <<>> THEN LeftOut ELSE Not3(in)
        [] c.op = "Op.eq"         -> nullOrNot
        [] c.op = "Op.gt"         -> IF Null \in {v, c.v} THEN "N" ELSE Bool3(v > c.v)
        [] c.op = "Op.gte"        -> IF Null \in {v, c.v} THEN "N" ELSE Bool3(v >= c.v)
        [] c.op = "Op.lt"         -> IF Null \in {v, c.v} THEN "N" ELSE Bool3(v < c.v)
        [] c.op = "Op.lte"        -> IF Null \in {v, c.v} THEN "N" ELSE Bool3(v <= c.v)
        [] c.op = "Op.is"         -> Bool3(IF c.v = Null THEN v = Null ELSE v # c.v.distinct)
        [] c.op = "Op.not"        -> Bool3(v # c.v)
        [] c.op = "Op.between"    -> between
        [] c.op = "Op.notBetween" -> Not3(between)
        [] c.op = "Op.iRegexp"    -> regexp
        [] c.op = "Op.notIRegexp" -> Not3(regexp)
        [] c.op \in {"Op.like", "Op.iLike"} -> known({v}, v = c.v.text)
        [] c.op = "Op.notLike"    -> known({v}, v # c.v.text)

RECURSIVE SqlEval(_, _)
SqlEval(where, row) ==
  LET entry(e) ==
        CASE e.is = "list" ->
               LET parts == {SqlEval(e.of[j], row) : j \in DOMAIN e.of}
               IN  IF e.key = "Op.and" THEN All3(parts) ELSE Some3(parts)
          [] e.is = "criteria" -> All3({SqlTest(row[e.key], e.of[j]) : j \in DOMAIN e.of})
          [] e.is = "value" -> SqlTest(row[e.key], Criterion("Op.eq", e.of))
  IN  All3({entry(where[i]) : i \in DOMAIN where})

RECURSIVE MongoTest(_, _)
MongoTest(v, c) ==
  LET nulls == {v, c.v} = {Null}
      both == Null \notin {v, c.v}
  IN  CASE c.op = "$in"     -> v \in Elements(c.v)
        [] c.op = "$nin"    -> v \notin Elements(c.v)
        [] c.op = "$eq"     -> v = c.v
        [] c.op = "$ne"     -> v # c.v
        [] c.op = "$gt"     -> both /\ v > c.v
        [] c.op = "$gte"    -> nulls \/ (both /\ v >= c.v)
        [] c.op = "$lt"     -> both /\ v < c.v
        [] c.op = "$lte"    -> nulls \/ (both /\ v <= c.v)
        [] c.op = "$exists" -> (v # Null) = c.v
        [] c.op = "$regex"  -> v # Null /\ Occurs(c.v, v)
        [] c.op = "$not"    -> ~ \A j \in DOMAIN c.v : MongoTest(v, c.v[j])

RECURSIVE MongoEval(_, _)
MongoEval(filter, row) ==
  \A i \in DOMAIN filter :
    LET e == filter[i] IN
    CASE e.is = "list" -> IF e.key = "$and"
                          THEN \A j \in DOMAIN e.of : MongoEval(e.of[j], row)
                          ELSE \E j \in DOMAIN e.of : MongoEval(e.of[j], row)
      [] e.is = "criteria" -> \A j \in DOMAIN e.of : MongoTest(row[e.key], e.of[j])
      [] e.is = "value" -> row[e.key] = e.of
=============================================================================
