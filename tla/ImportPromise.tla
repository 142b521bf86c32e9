----------------------------- MODULE ImportPromise -----------------------------
(***************************************************************************)
(* What the bulk import of the generic service promises.  With a           *)
(* transaction for each row, the default, a row is imported as a whole or  *)
(* not at all, in some order, and its report says which of the two.        *)
(* Without (useTransactionInsert = false) a row that the report refuses    *)
(* may be in nevertheless, and rows that update the same row at the same   *)
(* time may get mixed.  A validation (dry run) reports and changes nothing.*)
(***************************************************************************)
EXTENDS Integers

CONSTANTS
  Row,     \* the rows of the file
  Key      \* the values of the unique key of the table

VARIABLES
  job,     \* the request: its rows, its mode, and the table it finds
  table,   \* table[k]: the row of the file that wrote k last, or Before or Absent,
           \* or Mixed: columns of several rows of the file
  outcome  \* outcome[i]: what the report says of row i

vars == <<job, table, outcome>>

Absent == 0
Before == -1
Mixed == -3

(* What row i makes of a table t, in each of the three modes; an UPDATE of *)
(* a row that does not exist is no error.                                  *)
Applied(t, i) ==
  IF job.mode = "update" /\ t[job.key[i]] = Absent THEN t ELSE [t EXCEPT ![job.key[i]] = i]

Accepted(t, i) == job.mode = "create" => t[job.key[i]] = Absent

Init ==
  /\ table \in [Key -> {Absent, Before}]
  /\ outcome = [i \in Row |-> "pending"]

(* Two rows of the file that update one row of the table at the same time, *)
(* each by a statement of its own, may leave columns of both.              *)
MayMix(t, i) ==
  /\ job.mode = "update" /\ ~job.useTransactionInsert /\ job.concurentInsert > 1
  /\ t[job.key[i]] # Absent
  /\ \E j \in Row : j # i /\ job.key[j] = job.key[i]

(* Row i goes into table t, and table u is what comes of it. *)
GoesIn(t, i, u) ==
  /\ ~job.dryRun
  /\ Accepted(t, i)
  /\ \/ u = Applied(t, i)
     \/ MayMix(t, i) /\ u = [t EXCEPT ![job.key[i]] = Mixed]

(* The row goes in, or it would go in if this were not a validation. *)
ImportRow(i) ==
  /\ outcome[i] = "pending"
  /\ outcome' = [outcome EXCEPT ![i] = "imported"]
  /\ IF job.dryRun THEN UNCHANGED table ELSE GoesIn(table, i, table')
  /\ UNCHANGED job

(* The row is refused, and leaves no trace, unless rows are imported       *)
(* without transactions: then the report may refuse a row that is in.      *)
RefuseRow(i) ==
  /\ outcome[i] = "pending"
  /\ outcome' = [outcome EXCEPT ![i] = "refused"]
  /\ \/ UNCHANGED table
     \/ ~job.useTransactionInsert /\ GoesIn(table, i, table')
  /\ UNCHANGED job

(* The request breaks off at this row: the client is told nothing about    *)
(* it, and it may have been imported.  It has a transaction of its own.    *)
LoseRow(i) ==
  /\ outcome[i] = "pending"
  /\ outcome' = [outcome EXCEPT ![i] = "unknown"]
  /\ job.dryRun \/ job.useTransactionInsert
  /\ UNCHANGED table \/ GoesIn(table, i, table')
  /\ UNCHANGED job

Next == \E i \in Row : ImportRow(i) \/ RefuseRow(i) \/ LoseRow(i)

Spec == Init /\ [][Next]_vars
=============================================================================
