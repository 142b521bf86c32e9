------------------------------- MODULE Guards -------------------------------
(***************************************************************************)
(* Requests that read a table through the generic controllers: the guards  *)
(* look at the user's role and choose the data partition that the request  *)
(* names (a header), and the repository adds it to the client's condition. *)
(* Between guard and repository the partition is kept in the continuation  *)
(* local storage of the request, while other requests are served and       *)
(* administrators change users' roles and who belongs to which partition.  *)
(*                                                                         *)
(* What a database selects, counts and exports are constants here, and     *)
(* definitions of Queries.  A row has the field code, the one that the     *)
(* repository option dataPartition.mapping names.                          *)
(***************************************************************************)
EXTENDS Entries, FiniteSets

CONSTANTS
  Requests, Codes, Table, DpUsers,
  UserOf,     \* who sends a request
  Members,    \* who belongs to which partition at first
  FirstRole,  \* the roles at first
  Asked,      \* what each request may ask, in a sequence: by which route, of
              \* which database, and the query
  MaxChange,  \* how often roles and memberships change
  Selected(_, _, _),    \* the rows that a database selects: condition and filters
  Counted(_, _, _, _),  \* the total of a page, of a partition
  Workbook(_, _),       \* the export of rows that a question asks for
  Undefined(_),         \* whether it asks to export what is not defined
  Misquoted(_)          \* whether its statement is not the one that is meant

SystemRole == {"USER", "ADMIN"}

VARIABLES
  stage,    \* "idle", "role", "guard", "repository", "answered", "refused"
  req,      \* the request: the code in its header, and the question
  cls,      \* the data partition in the local storage of a request, or Null
  members,  \* table DataPartitionUser: pairs of a code and a user
  role,     \* the role of a user, or "none" when the user is deleted
  answer,   \* rows and total answered, and the workbook of an export
  changes   \* bound of changes of roles and memberships

guardVars == <<stage, req, cls, members, role, answer, changes>>

\* What the request asks for.
Question(r) == Asked[r][req[r].question]

Nobody == [header |-> Null]
NoAnswer == [rows |-> {}, total |-> 0, book |-> Null]
Message(r) == [header : Codes \cup {Null}, question : DOMAIN Asked[r]]

ASSUME GuardsAssumption ==
  /\ Null \notin Codes
  /\ IsFiniteSet(Table)
  /\ UserOf \in [Requests -> DpUsers]
  /\ Members \subseteq Codes \X DpUsers
  /\ FirstRole \in [DpUsers -> SystemRole]
  /\ MaxChange \in Nat
  /\ \A r \in Requests : \A n \in DOMAIN Asked[r] :
       /\ Asked[r][n].ask \in {"getPage", "getById", "getExport", "create"}
       /\ Asked[r][n].condition \in Seq(Elements(Asked[r][n].condition))

GuardTypeOK ==
  /\ stage \in [Requests -> {"idle", "role", "guard", "repository", "answered", "refused"}]
  /\ DOMAIN req = Requests /\ DOMAIN answer = Requests
  /\ \A r \in Requests : IF stage[r] = "idle" THEN req[r] = Nobody ELSE req[r] \in Message(r)
  /\ cls \in [Requests -> Codes \cup {Null}]
  /\ members \subseteq Codes \X DpUsers
  /\ role \in [DpUsers -> SystemRole \cup {"none"}]
  /\ \A r \in Requests : answer[r].total \in Nat
  /\ \A r \in Requests : stage[r] = "answered" /\ Question(r).ask # "create" =>
                           answer[r].rows \subseteq Table
  /\ changes \in 0 .. MaxChange

GuardInit ==
  /\ stage = [r \in Requests |-> "idle"]
  /\ req = [r \in Requests |-> Nobody]
  /\ cls = [r \in Requests |-> Null]
  /\ members = Members
  /\ role = FirstRole
  /\ answer = [r \in Requests |-> NoAnswer]
  /\ changes = 0

Send(r) ==
  /\ stage[r] = "idle"
  /\ \E m \in Message(r) : req' = [req EXCEPT ![r] = m]
  /\ stage' = [stage EXCEPT ![r] = "role"]
  /\ UNCHANGED <<cls, members, role, answer, changes>>

\* BaseRouteSetup: the roles of the route, else of the controller, else ADMIN.
Roles(q) == IF q.roles # {} THEN q.roles
            ELSE IF q.controllerRoles # {} THEN q.controllerRoles ELSE {"ADMIN"}

\* SystemRoleGuard.canActivate: the user is read again.
CheckRole(r) ==
  /\ stage[r] = "role"
  /\ stage' = [stage EXCEPT ![r] =
                 IF role[UserOf[r]] \in Roles(Question(r)) THEN "guard" ELSE "refused"]
  /\ UNCHANGED <<req, cls, members, role, answer, changes>>

-----------------------------------------------------------------------------
\* A local storage that all requests share.
ClsSetShared(r, code) == [q \in Requests |-> code]

\* clsService.set: the storage of this request.
ClsSet(r, code) == [cls EXCEPT ![r] = code]

\* Metadata of the handler, else of the controller, else false.
Metadata(handler, controller) == TRUE \in (IF handler # Null THEN {handler} ELSE {controller})

Enabled(q) == Metadata(q.partition, q.controllerPartition)

\* Whether a partition is required is only said where it is enabled.
Required(q) ==
  LET where(enable) == IF enable = TRUE THEN q.require ELSE Null
  IN  Metadata(where(q.partition), where(q.controllerPartition))

\* DataPartitionGuard.canActivate, with getOneDpUser.
CanActivate(r) ==
  LET code == req[r].header
      q == Question(r)
      named == Enabled(q) /\ code # Null
      go(to) == stage' = [stage EXCEPT ![r] = to]
  IN  /\ stage[r] = "guard"
      /\ \/ ~ named /\ go(IF Enabled(q) /\ Required(q) THEN "refused" ELSE "repository")
            /\ UNCHANGED cls
         \/ named /\ <<code, UserOf[r]>> \in members /\ go("repository")
            /\ cls' = ClsSet(r, code)
         \/ named /\ <<code, UserOf[r]>> \notin members /\ go("refused")
            /\ UNCHANGED cls
      /\ UNCHANGED <<req, members, role, answer, changes>>

-----------------------------------------------------------------------------
\* getDataPartitionRecord
PartitionRecord(code) == Entry("code", "value", code)

Named(condition) == {i \in DOMAIN condition : condition[i].key = "code"}

\* The client's condition on the code is kept.
ScopedClientFirst(condition, code) ==
  IF code = Null \/ Named(condition) # {} THEN condition
  ELSE Append(condition, PartitionRecord(code))

\* Object.assign: what is assigned replaces what the client asks or writes, and
\* is added where there is nothing to replace.
Scoped(condition, code) ==
  IF code = Null THEN condition
  ELSE IF Named(condition) = {} THEN Append(condition, PartitionRecord(code))
  ELSE [i \in DOMAIN condition |->
          IF i \in Named(condition) THEN PartitionRecord(code) ELSE condition[i]]

\* A database returns rows of the table, and each of them has every value that
\* the condition names beside its other entries, whatever they and the filters
\* are (Queries says how it gets there), if the statement is the one meant.
ASSUME DatabaseAssumption ==
  \A r \in Requests : \A n \in DOMAIN Asked[r] : \A code \in Codes \cup {Null} :
    LET q == Asked[r][n]
        condition == Scoped(q.condition, code)
        rows == Selected(q.db, condition, q.filters)
    IN  ~ Misquoted(q) =>
        /\ rows \subseteq Table
        /\ \A row \in rows : \A e \in Elements(condition) :
             e.is = "value" => row[e.key] = e.of
        /\ Counted(q.db, condition, q.filters, code) \in Nat

Page(rows, total) == [rows |-> rows, total |-> total, book |-> Null]
Only(rows) == Page(rows, Cardinality(rows))

\* getMany and getOne ask like getPage, without the total.
GetPage(db, condition, filters, code) ==
  Page(Selected(db, condition, filters), Counted(db, condition, filters, code))

\* getExportQuery: a list of identifiers takes the place of the condition.
GetExport(db, condition, filters, ids) ==
  IF ids # Null THEN {row \in Table : row._id \in ids} ELSE Selected(db, condition, filters)

Sheets(q, rows) == [rows |-> rows, total |-> Cardinality(rows), book |-> Workbook(q, rows)]
Export(q, condition) == Sheets(q, GetExport(q.db, condition, q.filters, q.ids))

ExportFails(q) == q.ask = "getExport" /\ Undefined(q)

\* create: the partition's code replaces the one that is sent.  A schema that
\* does not declare the field drops it.
Created(q, code) ==
  LET assigned == IF code = Null THEN {} ELSE {"code"}
      dropped == IF q.declared THEN {} ELSE {"code"}
  IN  [f \in (DOMAIN q.document \cup assigned) \ dropped |->
         IF f \in assigned THEN code ELSE q.document[f]]

GetById(id, code) == {row \in Table : row._id = id /\ (code = Null \/ row.code = code)}

Answer(r) ==
  LET q == Question(r)
      scoped == Scoped(q.condition, cls[r])
  IN  /\ stage[r] = "repository" /\ ~ ExportFails(q) /\ ~ Misquoted(q)
      /\ answer' = [answer EXCEPT ![r] =
           CASE q.ask = "getPage"   -> GetPage(q.db, scoped, q.filters, cls[r])
             [] q.ask = "getById"   -> Only(GetById(q.id, cls[r]))
             [] q.ask = "getExport" -> Export(q, scoped)
             [] q.ask = "create"    -> Only({Created(q, cls[r])})]
      /\ stage' = [stage EXCEPT ![r] = "answered"]
      /\ UNCHANGED <<req, cls, members, role, changes>>

\* The statement is not the one that was meant: it finds something else (bounded
\* here: nothing, or every row), or fails.
AnswerMisquoted(r) ==
  LET q == Question(r)
  IN  /\ stage[r] = "repository" /\ ~ ExportFails(q) /\ Misquoted(q)
      /\ \/ \E rows \in {{}, Table} :
              /\ answer' = [answer EXCEPT ![r] =
                              IF q.ask = "getExport" THEN Sheets(q, rows) ELSE Only(rows)]
              /\ stage' = [stage EXCEPT ![r] = "answered"]
         \/ stage' = [stage EXCEPT ![r] = "refused"] /\ UNCHANGED answer
      /\ UNCHANGED <<req, cls, members, role, changes>>

FailExport(r) ==
  /\ stage[r] = "repository" /\ ExportFails(Question(r))
  /\ stage' = [stage EXCEPT ![r] = "refused"]
  /\ UNCHANGED <<req, cls, members, role, answer, changes>>

Change == changes < MaxChange /\ changes' = changes + 1 /\ UNCHANGED <<stage, req, cls, answer>>

\* The administrators' controller of DataPartitionUser: create and deleteById.
ChangeMember ==
  /\ Change
  /\ \E m \in Codes \X DpUsers :
       members' = IF m \in members THEN members \ {m} ELSE members \cup {m}
  /\ UNCHANGED role

\* That of users: updateById and deleteById.
ChangeUser ==
  /\ Change
  /\ \E u \in DpUsers, as \in SystemRole \cup {"none"} :
       role[u] \notin {as, "none"} /\ role' = [role EXCEPT ![u] = as]
  /\ UNCHANGED members

GuardNext ==
  \/ \E r \in Requests : \/ Send(r) \/ CheckRole(r) \/ CanActivate(r)
                         \/ Answer(r) \/ AnswerMisquoted(r) \/ FailExport(r)
  \/ ChangeMember \/ ChangeUser

GuardSpec == GuardInit /\ [][GuardNext]_guardVars

\* What the repositories restrict to a partition: all reads but an export of
\* given identifiers and a statement that PostgreSQL does not get as it is
\* meant; and the creation of a row whose schema has the field.
Restricted(q) ==
  /\ ~ (q.ask = "getExport" /\ q.ids # Null)
  /\ q.ask = "create" => q.declared
  /\ ~ Misquoted(q)

\* A request that names a partition, on a route with partitions, is answered
\* with rows of that partition, and creates one in it, whatever it asks for (a
\* condition on the code itself, alternatives in $or or OR filters, another code
\* in the row) and whatever other requests do meanwhile, if what it asks for is
\* Restricted.
WithinPartition ==
  \A r \in Requests :
    (stage[r] = "answered" /\ req[r].header # Null /\ Enabled(Question(r))
       /\ Restricted(Question(r)))
    => \A row \in answer[r].rows : row.code = req[r].header
=============================================================================
