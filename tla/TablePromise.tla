----------------------------- MODULE TablePromise -----------------------------
(***************************************************************************)
(* What one call of the generic service promises about its table: it takes *)
(* effect at one instant and as a whole or not at all, writes no row that  *)
(* the call does not name, and no column that its DTO does not name.       *)
(***************************************************************************)
EXTENDS Integers

CONSTANTS
  Id,       \* identifiers of rows
  Request,  \* calls of the service
  Column,   \* the columns of the table
  Inc,      \* in the place of a value: one more than the column has
  NewRow(_) \* NewRow(c): the row that the call c creates

VARIABLES
  call,     \* call[r]: what r asks for (never changes)
  table,    \* table[id]: the row as other transactions see it
  outcome   \* outcome[r]: "pending", "ok", "refused" or "unknown"

vars == <<call, table, outcome>>

SetColumns(row, c, set) ==
  [row EXCEPT !.cols = [k \in Column |-> IF k \notin set THEN row.cols[k]
                                         ELSE IF c.values[k] = Inc THEN row.cols[k] + 1
                                         ELSE c.values[k]]]

(* The rows that c may make of a row that it writes. *)
Written(c, row) ==
  CASE c.do \in {"updateById", "updateOne"} ->
         {SetColumns(row, c, set) : set \in SUBSET c.set}
    [] c.do = "updateMany" -> {SetColumns(row, c, c.set)}
    [] c.do \in {"deleteOne", "deleteMany"} -> {[row EXCEPT !.life = "deleted"]}
    [] c.do = "create" -> {NewRow(c)}

Writable(c, row) == row.life = IF c.do = "create" THEN "unborn" ELSE "live"

(* A change of the table that r may cause. *)
Effect(r) ==
  LET c == call[r]
      rows == {id \in Id : table'[id] # table[id]}
  IN  /\ rows \subseteq c.ids
      /\ c.do \in {"updateById", "updateOne", "deleteOne"} =>
           \A id, other \in rows : id = other
      /\ c.do = "create" => rows = c.ids
      /\ \A id \in rows : Writable(c, table[id]) /\ table'[id] \in Written(c, table[id])
      /\ table' = [id \in Id |-> table'[id]]

Answer(r, o) ==
  /\ outcome[r] = "pending"
  /\ outcome' = [outcome EXCEPT ![r] = o]

Accept(r) == Answer(r, "ok") /\ Effect(r)
Refuse(r) == Answer(r, "refused") /\ table' = table
(* The connection breaks during the COMMIT: the client cannot tell. *)
Lose(r)   == Answer(r, "unknown") /\ (Effect(r) \/ table' = table)

Init == outcome = [r \in Request |-> "pending"]

Next == UNCHANGED call /\ \E r \in Request : Accept(r) \/ Refuse(r) \/ Lose(r)

Spec == Init /\ [][Next]_vars
=============================================================================
