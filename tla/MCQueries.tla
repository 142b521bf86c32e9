----------------------------- MODULE MCQueries -----------------------------
EXTENDS Queries

CONSTANTS r1, r2, P, Q, ann

Users1 == {ann}
AllBy == [r \in Requests |-> ann]

\* Every combination of a few values, and of no value; _id numbers them.
Rows == [count : {Null, 1, 2, 3}, name : {Null, <<"y", "x">>, <<"x", "x", "z">>},
         flag : {Null, TRUE, FALSE}, code : {Null, P, Q}]
Some == {row \in Rows : \/ row.flag = Null
                        \/ row.count # Null /\ row.name # Null /\ row.code = P}
Id(row) == <<row.count, row.name, row.flag, row.code>>
Rows1 == {[_id |-> Id(row), count |-> row.count, name |-> row.name, flag |-> row.flag,
           code |-> row.code] : row \in Some}

Filter(f, op, values) == [field |-> f, operator |-> op, values |-> values, filters |-> <<>>]
Group(op, filters) == [field |-> "none", operator |-> op, values |-> <<>>, filters |-> filters]
Criteria(f, c) == Entry(f, "criteria", c)

Single ==
  << Filter("count", "EQUAL", <<2>>), Filter("count", "EQUAL", <<Null>>),
     Filter("count", "NOT_EQUAL", <<2>>), Filter("count", "NOT_EQUAL", <<Null>>),
     Filter("flag", "NOT_EQUAL", <<TRUE>>), Filter("flag", "EQUAL", <<FALSE>>),
     Filter("count", "LESS_EQUAL", <<2>>), Filter("count", "LESS_THAN", <<2>>),
     Filter("count", "GREAT_EQUAL", <<2>>), Filter("count", "GREAT_EQUAL", <<Null>>),
     Filter("count", "GREAT_THAN", <<2>>), Filter("count", "BETWEEN", <<2, 3>>),
     Filter("count", "NOT_BETWEEN", <<2, 3>>), Filter("count", "INCLUDE", <<1, 3>>),
     Filter("count", "INCLUDE", <<1, Null>>), Filter("count", "NOT_INCLUDE", <<1, 3>>),
     Filter("count", "NOT_NULL", <<>>), Filter("name", "NULL", <<>>),
     Filter("name", "CONTAIN", << <<"x">> >>), Filter("name", "NOT_CONTAIN", << <<"z">> >>),
     Filter("name", "START_WITH", << <<"x">> >>), Filter("name", "END_WITH", << <<"x">> >>),
     Filter("name", "LIKE", << <<"x">> >>), Filter("name", "NOT_LIKE", << <<"x">> >>),
     Filter("count", "default", <<2>>), Filter("code", "EQUAL", <<Q>>),
     Filter("count", "INCLUDE", <<>>), Filter("count", "NOT_INCLUDE", <<>>),
     Filter("name", "NOT_EQUAL", << <<"y", "x">> >>),
     Filter("name", "NOT_EQUAL", << <<"y", "'", "x">> >>) >>

Groups(f) ==
  << <<f>>,
     <<Group("OR", <<f, Filter("name", "NOT_CONTAIN", << <<"x", "x">> >>)>>)>>,
     <<Group("AND", <<f, Group("OR", <<Filter("code", "EQUAL", <<P>>),
                                       Filter("code", "EQUAL", <<Q>>)>>)>>), Group("OR", <<>>)>> >>

Conds ==
  << <<Entry("count", "value", 2), Entry("flag", "value", Null)>>,
     <<Entry("code", "value", Q)>>,
     <<Criteria("code", <<Criterion("$ne", P)>>)>>,
     <<Criteria("count", <<Criterion("$gt", 1), Criterion("$lt", 3)>>)>>,
     <<Criteria("count", <<Criterion("$gte", 2), Criterion("$lte", 2)>>)>>,
     <<Criteria("count", <<Criterion("$in", <<1, 2>>)>>), Entry("code", "value", P)>>,
     <<Criteria("count", <<Criterion("$nin", <<1, 2>>)>>)>>,
     <<Criteria("count", <<Criterion("$eq", Null)>>)>>,
     <<Criteria("count", <<Criterion("$in", <<>>)>>)>>,
     <<Criteria("count", <<Criterion("$nin", <<>>)>>)>>,
     <<Criteria("name", <<Criterion("$ne", <<"x", "'">>)>>)>>,
     <<Criteria("count", <<Criterion("$ne", 1), Criterion("$exist", TRUE)>>)>>,
     <<Criteria("flag", <<Criterion("$ne", TRUE)>>)>>,
     <<Criteria("name", <<Criterion("$exist", FALSE)>>)>>,
     <<Criteria("name", <<Criterion("$like", Pattern("any", <<"x">>))>>)>>,
     <<Criteria("name", <<Criterion("$regex", Pattern("end", <<"x">>))>>)>>,
     <<Entry("$or", "list", << <<Entry("code", "value", Q)>>,
                               <<Criteria("count", <<Criterion("$gt", 2)>>)>> >>)>>,
     <<Entry("$and", "list", << <<Entry("$or", "list", << <<Entry("count", "value", 1)>>,
                                                         <<Entry("name", "value", Null)>> >>)>>,
                                <<Criteria("flag", <<Criterion("$ne", Null)>>)>> >>)>> >>

\* Users and their sessions, sessions and their user, and an entity that names
\* the other one.
Field(field, target) == [field |-> field, target |-> target]
Fields1 ==
  [user |-> <<Field("count", Null), Field("name", Null), Field("agent", Null), Field("list", "session")>>,
   session |-> <<Field("ip", Null), Field("jti", Null), Field("owner", Null)>>,
   course |-> <<Field("name", Null), Field("students", "name")>>,
   login |-> <<Field("name", Null), Field("owner", "person")>>,
   person |-> <<Field("ip", Null)>>]
Session(ip, jti) == <<Entry("ip", "value", ip), Entry("jti", "value", jti), Entry("user", "value", ip)>>
Sessions(id) ==
  CASE id[1] = Null -> <<>>
    [] id[1] = 1 -> <<Session("a", Null)>>
    [] id[1] = 2 -> <<Session("a", "x"), Session("b", Null)>>
    [] id[1] = 3 -> <<Session("a", Null), Session("b", "x"), Session("c", "y")>>
Related1 ==
  LET ids == {row._id : row \in Rows1}
  IN  [user |-> [id \in ids |-> <<Entry("list", "list", Sessions(id))>>],
       login |-> [id \in ids |-> <<Entry("owner", "object", IF id[1] = 1 THEN <<>> ELSE Session("a", Null))>>],
       course |-> [id \in ids |-> <<>>]]

Ask(what, condition, filters, id, ids) ==
  [roles |-> {}, controllerRoles |-> {"USER", "ADMIN"}, partition |-> Null,
   controllerPartition |-> TRUE, require |-> FALSE, db |-> "sql", ask |-> what, condition |-> condition,
   filters |-> filters, id |-> id, ids |-> ids, entity |-> "user", definitions |-> {},
   declared |-> TRUE,
   document |-> CHOOSE row \in Rows1 : row.code = Q]
AnId == <<2, <<"y", "x">>, Null, Q>>
ById == <<Ask("getById", <<>>, <<>>, AnId, Null)>>
ByFilter == [i \in 1 .. 3 * Len(Single) |->
               Ask("getPage", <<>>, Groups(Single[(i + 2) \div 3])[(i % 3) + 1], Null, Null)]
ByCondition(f) == [i \in DOMAIN Conds |-> Ask("getPage", Conds[i], f, Null, Null)]
Columns ==
  << {<<"name">>}, {<<"count">>, <<"agent">>}, {<<"name">>, <<"list", "jti">>},
     {<<"list", "ip">>, <<"list", "jti">>}, {<<"list">>, <<"name">>, <<"list", "ip">>}, {<<"ip">>} >>
ExportOf(condition, ids, entity, definitions) ==
  [Ask("getExport", condition, <<>>, Null, ids) EXCEPT !.entity = entity, !.definitions = definitions]
Exported ==
  << ExportOf(<<Entry("code", "value", Q)>>, Null, "user", Columns[1]),
     ExportOf(<<>>, {AnId}, "user", Columns[1]), ExportOf(<<>>, {}, "user", Columns[1]),
     ExportOf(<<>>, Null, "course", Columns[1]),
     ExportOf(<<Criteria("name", <<Criterion("$ne", <<"'">>)>>)>>, Null, "user", Columns[2]) >>
ExportedDocuments ==
  [i \in DOMAIN Columns |-> [ExportOf(<<>>, Null, "user", Columns[i]) EXCEPT !.db = "mongo"]] \o
  << [ExportOf(<<>>, Null, "login", {<<"name">>, <<"owner", "ip">>}) EXCEPT !.db = "mongo"] >>
Routes == << Ask("create", <<>>, <<>>, Null, Null), [ById[1] EXCEPT !.require = TRUE],
             [ById[1] EXCEPT !.partition = FALSE, !.controllerRoles = {}],
             [ById[1] EXCEPT !.controllerPartition = Null, !.roles = {"USER"}] >>
\* The model of PostgreSQL declares the partition's field, the schema does not.
OfMongo(asked) ==
  [i \in DOMAIN asked |-> [asked[i] EXCEPT !.db = "mongo", !.declared = FALSE]]

Asked1 ==
  LET all == ByFilter \o ByCondition(<<>>) \o ByCondition(<<Single[9]>>) \o ById \o Exported
               \o Routes
  IN  [r \in Requests |-> IF r = r1 THEN all \o OfMongo(all) \o ExportedDocuments ELSE ById]
Roles1 == [u \in DpUsers |-> "USER"]
Members1 == {<<P, ann>>}
=============================================================================
