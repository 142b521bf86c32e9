------------------------------ MODULE SqlService ------------------------------
(***************************************************************************)
(* The commands of the generic service (config/service/base.service.ts)    *)
(* over the SQL repository (modules/repository/sequelize), which holds the *)
(* tables of the judge: every call runs in a transaction of its own, which *)
(* it commits, or aborts when anything throws.  updateById, updateOne,     *)
(* deleteById and deleteOne first read the row and then write it by its    *)
(* _id; the others are a single statement.  None of these tables is        *)
(* divided into data partitions.                                           *)
(*                                                                         *)
(* The database (external) is READ COMMITTED: a statement sees what is     *)
(* committed when it runs, and waits for rows that other transactions have *)
(* written.  Generated identifiers are never used twice.                   *)
(***************************************************************************)
EXTENDS Integers, FiniteSets

CONSTANTS
  Id,        \* identifiers of rows
  None,      \* no row, and no value
  Column,    \* the columns that DTOs set
  Value,     \* the values of the columns
  Request,   \* calls of the service
  Call,      \* what calls ask for
  MaxPool,   \* bound on the number of connections of the pool
  MaxFault   \* bound on the number of database failures

ASSUME NoneAssumption == None \notin Id \cup Value
ASSUME ValueAssumption == Value # {}
ASSUME PoolAssumption == MaxPool \in Nat \ {0}
ASSUME MaxFaultAssumption == MaxFault \in Nat

(* deleteById is deleteOne with an _id in its condition; updateManyByIds,  *)
(* deleteManyByIds and insertMany are updateMany, deleteMany and create.   *)
Command == {"create", "updateById", "updateOne", "updateMany", "deleteOne", "deleteMany"}

ASSUME CallAssumption ==
  Call \subseteq [do : Command, ids : SUBSET Id, set : SUBSET Column, values : [Column -> Value],
                  notFoundCode : BOOLEAN]

VARIABLES
  rows,    \* rows[id]: the row as committed
  call,    \* call[r]: what r asks for (never changes)
  pc,      \* pc[r]: where r is
  writes,  \* writes[r]: the rows that the transaction of r has written
  found,   \* found[r]: the row that r has read and is about to write
  doc,     \* doc[r]: what it has read, and then what it returns
  answer,  \* answer[r]: how r ends; of "error" and "unknown" clients see the same
  pool,    \* number of connections of the pool (never changes)
  faults,  \* number of database failures so far
  (* History variable: no action reads it. *)
  dirty    \* dirty[r]: another call changed the table since r has begun

setup == <<call, pool>>
vars  == <<rows, call, pool, pc, writes, found, doc, answer, faults, dirty>>

Row == [life : {"unborn", "live", "deleted"}, cols : [Column -> Value]]

NoRow == [life |-> "unborn", cols |-> [k \in Column |-> CHOOSE v \in Value : TRUE]]

NoWrites == [id \in {} |-> NoRow]

ReadsFirst(r) == call[r].do \in {"updateById", "updateOne", "deleteOne"}

TypeOK ==
  /\ rows \in [Id -> Row]
  /\ call \in [Request -> Call]
  /\ pool \in 1 .. MaxPool
  /\ pc \in [Request -> {"new", "find", "write", "commit", "abort", "done"}]
  /\ \A r \in Request : DOMAIN writes[r] \subseteq Id /\ writes[r] \in [DOMAIN writes[r] -> Row]
  /\ found \in [Request -> Id \cup {None}]
  /\ doc \in [Request -> Row]
  /\ answer \in [Request -> {"none", "ok", "null", "notFound", "error", "unknown"}]
  /\ faults \in 0 .. MaxFault
  /\ dirty \in [Request -> BOOLEAN]
  /\ \A r \in Request : pc[r] = "write" /\ ReadsFirst(r) => found[r] \in Id

Init ==
  /\ rows \in [Id -> {NoRow, [NoRow EXCEPT !.life = "live"]}]
  /\ call \in [Request -> Call]
  /\ pool \in 1 .. MaxPool
  /\ pc = [r \in Request |-> "new"]
  /\ writes = [r \in Request |-> NoWrites]
  /\ found = [r \in Request |-> None]
  /\ doc = [r \in Request |-> NoRow]
  /\ answer = [r \in Request |-> "none"]
  /\ faults = 0
  /\ dirty = [r \in Request |-> FALSE]
-----------------------------------------------------------------------------
Running(r) == pc[r] \notin {"new", "done"}

Goto(r, where) == pc' = [pc EXCEPT ![r] = where]

Fault == faults < MaxFault /\ faults' = faults + 1

Respond(r, what) == answer' = [answer EXCEPT ![r] = what]

Throw(r, why) == Goto(r, "abort") /\ Respond(r, why)

(* The rows that the condition of r selects. *)
Selected(r) == {id \in call[r].ids : rows[id].life = "live"}

SetColumns(row, c, set) ==
  [row EXCEPT !.cols = [k \in Column |-> IF k \in set THEN c.values[k] ELSE row.cols[k]]]

(* Every column of the row that was read is written back. *)
SavedWhole(r, row) == [SetColumns(doc[r], call[r], call[r].set) EXCEPT !.life = row.life]

(* doc.update: only the columns that differ from what was read. *)
Saved(r, row) ==
  SetColumns(row, call[r], {k \in call[r].set : doc[r].cols[k] # call[r].values[k]})

(* One column that is the same stands for all. *)
UnchangedSome(r) == \E k \in call[r].set : doc[r].cols[k] = call[r].values[k]

Unchanged(r) == \A k \in call[r].set : doc[r].cols[k] = call[r].values[k]

Created(c) == [life |-> "live", cols |-> c.values]

Deleted(row) == [row EXCEPT !.life = "deleted"]

(* The statements: each is a function from the rows that it writes to what *)
(* it makes of them.                                                       *)
InsertRows(r) == [id \in call[r].ids |-> Created(call[r])]

UpdateFound(r) ==
  [id \in {found[r]} \cap {id \in Id : rows[id].life = "live" /\ ~Unchanged(r)} |->
     Saved(r, rows[id])]

UpdateSelected(r) ==
  [id \in Selected(r) |-> SetColumns(rows[id], call[r], call[r].set)]

DestroyFound(r) ==
  [id \in {found[r]} \cap {id \in Id : rows[id].life = "live"} |-> Deleted(rows[id])]

DestroySelected(r) == [id \in Selected(r) |-> Deleted(rows[id])]

Statement(r) ==
  CASE call[r].do = "create" -> InsertRows(r)
    [] call[r].do \in {"updateById", "updateOne"} -> UpdateFound(r)
    [] call[r].do = "updateMany" -> UpdateSelected(r)
    [] call[r].do = "deleteOne" -> DestroyFound(r)
    [] call[r].do = "deleteMany" -> DestroySelected(r)

Blocked(r) == \E q \in Request \ {r} : DOMAIN Statement(r) \cap DOMAIN writes[q] # {}

(* Everybody else sees what r has written. *)
Publish(r, w) ==
  /\ rows' = [id \in Id |-> IF id \in DOMAIN w THEN w[id] ELSE rows[id]]
  /\ dirty' = [q \in Request |-> dirty[q] \/ (q # r /\ Running(q) /\ DOMAIN w # {})]
-----------------------------------------------------------------------------
(* startTransaction waits for a connection of the pool. *)
Begin(r) ==
  /\ pc[r] = "new"
  /\ Cardinality({q \in Request : Running(q)}) < pool
  /\ \/ /\ Goto(r, IF ReadsFirst(r) THEN "find" ELSE "write")
        /\ UNCHANGED <<answer, faults>>
     \/ /\ Fault
        /\ Goto(r, "done")
        /\ Respond(r, "error")
  /\ UNCHANGED <<rows, setup, writes, found, doc, dirty>>

(* A row that is not found is answered with an error and not rolled back.  *)
FindLeaking(r) ==
  /\ pc[r] = "find"
  /\ \E id \in Selected(r) :
       /\ found' = [found EXCEPT ![r] = id]
       /\ doc' = [doc EXCEPT ![r] = rows[id]]
       /\ Goto(r, "write")
  /\ UNCHANGED <<rows, setup, writes, answer, faults, dirty>>

(* The call goes on without a row. *)
FindNothing(r) ==
  /\ pc[r] = "find"
  /\ \E id \in Selected(r) \cup {None} :
       /\ id = None => Selected(r) = {}
       /\ found' = [found EXCEPT ![r] = id]
       /\ doc' = [doc EXCEPT ![r] = IF id = None THEN @ ELSE rows[id]]
       /\ Goto(r, "write")
  /\ UNCHANGED <<rows, setup, writes, answer, faults, dirty>>

(* findOne of the calls that read first: with no row, a service with a     *)
(* notFoundCode throws, and another one commits and answers null.          *)
Find(r) ==
  /\ pc[r] = "find"
  /\ \/ \E id \in Selected(r) :
          /\ found' = [found EXCEPT ![r] = id]
          /\ doc' = [doc EXCEPT ![r] = rows[id]]
          /\ Goto(r, "write")
          /\ UNCHANGED <<answer, faults>>
     \/ /\ Selected(r) = {}
        /\ IF call[r].notFoundCode
             THEN Throw(r, "notFound")
             ELSE Goto(r, "commit") /\ Respond(r, "null")
        /\ UNCHANGED <<found, doc, faults>>
     \/ /\ Fault
        /\ Throw(r, "error")
        /\ UNCHANGED <<found, doc>>
  /\ UNCHANGED <<rows, setup, writes, dirty>>

(* The statement that writes.  doc.update and doc.destroy do not look at   *)
(* the number of rows it affects, and doc.update returns the row it has    *)
(* read with the DTO laid over it.  A constraint may refuse the statement. *)
Write(r) ==
  /\ pc[r] = "write"
  /\ \/ /\ ~Blocked(r)
        /\ call[r].do = "create" => \A id \in call[r].ids : rows[id].life = "unborn"
        /\ doc' = [doc EXCEPT ![r] = IF call[r].do \in {"updateById", "updateOne"}
                                       THEN SetColumns(@, call[r], call[r].set)
                                       ELSE @]
        /\ writes' = [writes EXCEPT ![r] = Statement(r)]
        /\ Goto(r, "commit")
        /\ UNCHANGED <<answer, faults>>
     \/ /\ \/ call[r].do \notin {"deleteOne", "deleteMany"} /\ UNCHANGED faults
           \/ Fault
        /\ Throw(r, "error")
        /\ UNCHANGED <<writes, doc>>
  /\ UNCHANGED <<rows, setup, found, dirty>>

End(r) ==
  /\ Goto(r, "done")
  /\ writes' = [writes EXCEPT ![r] = NoWrites]

(* A COMMIT that fails may have taken effect; the abort that follows       *)
(* throws, for the transaction is finished.                                *)
Commit(r) ==
  /\ pc[r] = "commit"
  /\ \/ /\ Publish(r, writes[r])
        /\ Respond(r, IF answer[r] = "null" THEN "null" ELSE "ok")
        /\ UNCHANGED faults
     \/ /\ Fault
        /\ Publish(r, writes[r]) \/ UNCHANGED <<rows, dirty>>
        /\ Respond(r, "unknown")
  /\ End(r)
  /\ UNCHANGED <<setup, found, doc>>

(* The database rolls back even if the ROLLBACK does not get through; its  *)
(* error then hides the one that caused it.                                *)
Abort(r) ==
  /\ pc[r] = "abort"
  /\ UNCHANGED <<answer, faults>> \/ (Fault /\ Respond(r, "error"))
  /\ End(r)
  /\ UNCHANGED <<rows, setup, found, doc, dirty>>

Step(r) == Begin(r) \/ Find(r) \/ Write(r) \/ Commit(r) \/ Abort(r)

Next == \E r \in Request : Step(r)

(* The pool hands out connections, and the database grants locks, in the   *)
(* order of the requests for them; every await is resumed.                 *)
Fairness == \A r \in Request : WF_vars(Find(r) \/ Commit(r) \/ Abort(r))
                             /\ SF_vars(Begin(r)) /\ SF_vars(Write(r))

Spec == Init /\ [][Next]_vars /\ Fairness
-----------------------------------------------------------------------------
Ends(r) == pc[r] # "done" /\ pc'[r] = "done"

(* What the call c makes of the table when nothing else happens. *)
Serial(r) ==
  LET c == call[r]
      With(ids, row(_)) == [id \in Id |-> IF id \in ids THEN row(id) ELSE rows[id]]
      Set(id) == SetColumns(rows[id], c, c.set)
      Dead(id) == Deleted(rows[id])
      New(id) == Created(c)
  IN  CASE c.do = "create" -> {With(c.ids, New)}
        [] c.do \in {"updateById", "updateOne"} -> {With({id}, Set) : id \in Selected(r)}
        [] c.do = "updateMany" -> {With(Selected(r), Set)}
        [] c.do = "deleteOne" -> {With({id}, Dead) : id \in Selected(r)}
        [] c.do = "deleteMany" -> {With(Selected(r), Dead)}

(* A call during which nobody else has changed the table does what it says *)
(* and answers the row as it now is; and it answers that there is no row   *)
(* only when there is none.                                                *)
AloneIsSerial ==
  [][\A r \in Request : Ends(r) /\ ~dirty[r] =>
       /\ answer'[r] = "ok" =>
            /\ rows' \in Serial(r)
            /\ call[r].do \in {"updateById", "updateOne"} => doc'[r] = rows'[found[r]]
       /\ answer'[r] = "null" => Selected(r) = {} /\ UNCHANGED rows]_vars

(* No call waits for ever: neither for a connection while others hold all  *)
(* of them, nor for rows that others have written.                         *)
EveryCallIsAnswered == \A r \in Request : <>(pc[r] = "done")

(* Concurrent calls may undo each other's work, but only in the columns    *)
(* that both set: every call keeps the promise of TablePromise.            *)
Outcome ==
  [r \in Request |->
     IF pc[r] # "done" THEN "pending"
     ELSE CASE answer[r] \in {"ok", "null"} -> "ok"
            [] answer[r] \in {"notFound", "error"} -> "refused"
            [] OTHER -> "unknown"]

Promise == INSTANCE TablePromise WITH table <- rows, outcome <- Outcome, NewRow <- Created, Inc <- None

KeepsPromise == Promise!Spec
=============================================================================
