----------------------------- MODULE MongoService -----------------------------
(***************************************************************************)
(* The commands of the generic service (config/service/base.service.ts)    *)
(* over the Mongo repository (modules/repository/mongo), which holds       *)
(* users, settings, files and the like: every call starts a transaction,   *)
(* runs one command in it, and commits, or aborts when anything throws.    *)
(* Data partitions are left out.                                           *)
(*                                                                         *)
(* The database (external) runs the command against a snapshot, and        *)
(* refuses it if it writes a document that another open transaction has    *)
(* written.  A transaction that its client neither commits nor aborts      *)
(* stays open, with what it has written, until the server aborts it.       *)
(***************************************************************************)
EXTENDS Integers, FiniteSets

CONSTANTS
  Id,        \* identifiers of documents
  Column,    \* the fields of the documents
  Inc,       \* in the place of a value: $inc by one
  Request,   \* calls of the service
  Call,      \* what calls ask for
  MaxFault   \* bound on the number of database failures

ASSUME IdAssumption == IsFiniteSet(Id)

ASSUME MaxFaultAssumption == MaxFault \in Nat

(* deleteById is deleteOne with an _id in its condition, and updateById is *)
(* updateOne with one; updateManyByIds, deleteManyByIds and insertMany are *)
(* updateMany, deleteMany and create.                                      *)
Command == {"create", "updateOne", "updateMany", "deleteOne", "deleteMany"}

(* Documents are created from values: $inc is an operator of updates.      *)
ASSUME CallAssumption ==
  /\ Call \subseteq [do : Command, ids : SUBSET Id, set : SUBSET Column,
                     values : [Column -> Nat \cup {Inc}], notFoundCode : BOOLEAN]
  /\ \A c \in Call : c.do = "create" => c.values \in [Column -> Nat]

VARIABLES
  rows,    \* rows[id]: the document as committed
  call,    \* call[r]: what r asks for (never changes)
  pc,      \* pc[r]: where r is
  writes,  \* writes[r]: what the transaction of r has written, while it is open
  doc,     \* doc[r]: the document that r has read or written
  answer,  \* answer[r]: how r ends; of "error" and "unknown" clients see the same
  faults,  \* number of database failures so far
  (* History variable: no action reads it. *)
  dirty    \* dirty[r]: another call changed the collection since r ran its command

vars == <<rows, call, pc, writes, doc, answer, faults, dirty>>

Row == [life : {"unborn", "live", "deleted"}, cols : [Column -> Nat]]

NoRow == [life |-> "unborn", cols |-> [k \in Column |-> 0]]

NoWrites == [id \in {} |-> NoRow]

(* What a document holds are values, never an operator of an update; and   *)
(* a call that has ended has its answer.                                   *)
TypeOK ==
  /\ rows \in [Id -> Row]
  /\ call \in [Request -> Call]
  /\ pc \in [Request -> {"new", "commit", "abort", "done"}]
  /\ \A r \in Request : DOMAIN writes[r] \subseteq Id /\ writes[r] \in [DOMAIN writes[r] -> Row]
  /\ doc \in [Request -> Row]
  /\ answer \in [Request -> {"none", "ok", "null", "notFound", "error", "unknown"}]
  /\ faults \in 0 .. MaxFault
  /\ dirty \in [Request -> BOOLEAN]
  /\ \A r \in Request : pc[r] = "done" => answer[r] # "none"

Init ==
  /\ rows \in [Id -> {NoRow, [NoRow EXCEPT !.life = "live"]}]
  /\ call \in [Request -> Call]
  /\ pc = [r \in Request |-> "new"]
  /\ writes = [r \in Request |-> NoWrites]
  /\ doc = [r \in Request |-> NoRow]
  /\ answer = [r \in Request |-> "none"]
  /\ faults = 0
  /\ dirty = [r \in Request |-> FALSE]
-----------------------------------------------------------------------------
Goto(r, where) == pc' = [pc EXCEPT ![r] = where]

Fault == faults < MaxFault /\ faults' = faults + 1

Respond(r, what) == answer' = [answer EXCEPT ![r] = what]

Throw(r, why) == Goto(r, "abort") /\ Respond(r, why)

(* The documents that the condition of r selects. *)
Selected(r) == {id \in call[r].ids : rows[id].life = "live"}

(* A translation that leaves $inc among the values to set. *)
SetVerbatim(row, c, set) ==
  [row EXCEPT !.cols = [k \in Column |-> IF k \in set THEN c.values[k] ELSE row.cols[k]]]

SetColumns(row, c, set) ==
  [row EXCEPT !.cols = [k \in Column |-> IF k \notin set THEN row.cols[k]
                                         ELSE IF c.values[k] = Inc THEN row.cols[k] + 1
                                         ELSE c.values[k]]]

Created(c) == [life |-> "live", cols |-> c.values]

Deleted(row) == [row EXCEPT !.life = "deleted"]

(* The sets of documents that the command of r may write. *)
Targets(r) ==
  CASE call[r].do = "create" -> {call[r].ids}
    [] call[r].do \in {"updateOne", "deleteOne"} -> {{id} : id \in Selected(r)}
    [] call[r].do \in {"updateMany", "deleteMany"} -> {Selected(r)}

Written(r, row) ==
  CASE call[r].do = "create" -> Created(call[r])
    [] call[r].do \in {"updateOne", "updateMany"} -> SetColumns(row, call[r], call[r].set)
    [] call[r].do \in {"deleteOne", "deleteMany"} -> Deleted(row)

(* The conflict of r with an open transaction. *)
Conflict(r, ids) == \E q \in Request \ {r} : ids \cap DOMAIN writes[q] # {}

(* Everybody else sees what r has written. *)
Publish(r) ==
  /\ rows' = [id \in Id |-> IF id \in DOMAIN writes[r] THEN writes[r][id] ELSE rows[id]]
  /\ dirty' = [q \in Request |->
                 dirty[q] \/ (q # r /\ pc[q] # "new" /\ DOMAIN writes[r] # {})]

Release(r) == writes' = [writes EXCEPT ![r] = NoWrites]
-----------------------------------------------------------------------------
(* A command that is not given the session of its transaction. *)
RunOutside(r) ==
  /\ pc[r] = "new"
  /\ \E ids \in Targets(r) :
       /\ ~Conflict(r, ids)
       /\ rows' = [id \in Id |-> IF id \in ids THEN Written(r, rows[id]) ELSE rows[id]]
  /\ Goto(r, "commit")
  /\ UNCHANGED <<call, writes, doc, answer, faults, dirty>>

(* What the command does to the documents ids, and what it answers. *)
Do(r, ids) ==
  /\ call[r].do = "create" => \A id \in ids : rows[id].life = "unborn"
  /\ writes' = [writes EXCEPT ![r] = [id \in ids |-> Written(r, rows[id])]]
  /\ doc' = [doc EXCEPT ![r] = IF Cardinality(ids) = 1
                                 THEN Written(r, rows[CHOOSE id \in ids : TRUE])
                                 ELSE @]
  /\ Goto(r, "commit")

(* A read and then a write of what was read, in place of one command. *)
RunUnchecked(r) ==
  /\ pc[r] = "new"
  /\ \E ids \in Targets(r) : Do(r, ids)
  /\ UNCHANGED <<rows, call, answer, faults, dirty>>

(* A command that waits for other transactions. *)
RunWaiting(r) ==
  /\ pc[r] = "new"
  /\ \E ids \in Targets(r) : ~Conflict(r, ids) /\ Do(r, ids)
  /\ UNCHANGED <<rows, call, answer, faults, dirty>>

(* The command: create, insertMany, findOneAndUpdate (which answers the    *)
(* document as it has made it), updateMany, findOneAndDelete, deleteMany.  *)
(* With no document, findOneAnd... answers null: a service with a          *)
(* notFoundCode throws, and another one commits.  The command fails when   *)
(* it conflicts, when the schema or an index refuses what it writes, and   *)
(* when the database does; in the last case it may have been run.          *)
Run(r) ==
  /\ pc[r] = "new"
  /\ \/ \E ids \in Targets(r) :
          /\ ~Conflict(r, ids)
          /\ Do(r, ids)
          /\ UNCHANGED <<answer, faults>>
     \/ /\ Targets(r) = {}
        /\ IF call[r].notFoundCode
             THEN Throw(r, "notFound")
             ELSE Goto(r, "commit") /\ Respond(r, "null")
        /\ UNCHANGED <<writes, doc, faults>>
     \/ /\ \/ \E ids \in Targets(r) : Conflict(r, ids)
           \/ call[r].do \notin {"deleteOne", "deleteMany"}
        /\ Throw(r, "error")
        /\ UNCHANGED <<writes, doc, faults>>
     \/ /\ Fault
        /\ \/ UNCHANGED writes
           \/ \E ids \in Targets(r) :
                /\ ~Conflict(r, ids)
                /\ call[r].do = "create" => \A id \in ids : rows[id].life = "unborn"
                /\ writes' = [writes EXCEPT ![r] = [id \in ids |-> Written(r, rows[id])]]
        /\ Throw(r, "error")
        /\ UNCHANGED doc
  /\ UNCHANGED <<rows, call, dirty>>

(* A commit that fails may have taken effect.  The abort that follows      *)
(* throws before it reaches the server: if the transaction is still open,  *)
(* it remains so.                                                          *)
Commit(r) ==
  /\ pc[r] = "commit"
  /\ \/ /\ Publish(r) /\ Release(r)
        /\ Respond(r, IF answer[r] = "null" THEN "null" ELSE "ok")
        /\ UNCHANGED faults
     \/ /\ Fault
        /\ \/ Publish(r) /\ Release(r)
           \/ UNCHANGED <<rows, writes, dirty>>
        /\ Respond(r, "unknown")
  /\ Goto(r, "done")
  /\ UNCHANGED <<call, doc>>

(* abortTransaction of the driver ignores its failure. *)
Abort(r) ==
  /\ pc[r] = "abort"
  /\ \/ Release(r) /\ UNCHANGED faults
     \/ Fault /\ UNCHANGED writes
  /\ Goto(r, "done")
  /\ UNCHANGED <<rows, call, doc, answer, dirty>>

(* The server aborts a transaction whose client is gone. *)
Reap(r) ==
  /\ pc[r] = "done" /\ writes[r] # NoWrites
  /\ Release(r)
  /\ UNCHANGED <<rows, call, pc, doc, answer, faults, dirty>>

Step(r) == Run(r) \/ Commit(r) \/ Abort(r) \/ Reap(r)

Next == \E r \in Request : Step(r)

(* Every await is resumed.  That the server aborts transactions is not     *)
(* relied on.                                                              *)
Fairness == \A r \in Request : WF_vars(Run(r) \/ Commit(r) \/ Abort(r))

Spec == Init /\ [][Next]_vars /\ Fairness
-----------------------------------------------------------------------------
Succeeds(r) == pc[r] = "commit" /\ pc'[r] = "done" /\ answer'[r] \in {"ok", "null"}

(* However calls of one document at a time overlap, each of them does at   *)
(* its commit what it would have done alone at that moment, and answers    *)
(* the document as it has made it: no $inc is lost.  Calls of many         *)
(* documents do so unless the collection has changed since their command.  *)
CallsAreSerial ==
  [][\A r \in Request : Succeeds(r) /\ answer'[r] = "ok" =>
       \/ /\ call[r].do \in {"create", "updateOne", "deleteOne"} \/ ~dirty[r]
          /\ \E ids \in (IF call[r].do = "create" THEN {call[r].ids} ELSE Targets(r)) :
               /\ rows' = [id \in Id |-> IF id \in ids THEN Written(r, rows[id]) ELSE rows[id]]
               /\ Cardinality(ids) = 1 => \A id \in ids : doc'[r] = rows'[id]
       \/ call[r].do \in {"updateMany", "deleteMany"} /\ dirty[r]]_vars

(* No call waits for another one, even for one whose transaction nobody    *)
(* ends: it is refused instead.                                            *)
EveryCallIsAnswered == \A r \in Request : <>(pc[r] = "done")

(* A call that another one does not let pass has changed nothing, and a    *)
(* call takes effect as a whole: every call keeps the promise of           *)
(* TablePromise.                                                           *)
Outcome ==
  [r \in Request |->
     IF pc[r] # "done" THEN "pending"
     ELSE CASE answer[r] \in {"ok", "null"} -> "ok"
            [] answer[r] \in {"notFound", "error"} -> "refused"
            [] OTHER -> "unknown"]

Promise == INSTANCE TablePromise WITH table <- rows, outcome <- Outcome, NewRow <- Created

KeepsPromise == Promise!Spec
=============================================================================
