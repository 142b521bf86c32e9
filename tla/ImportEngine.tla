----------------------------- MODULE ImportEngine -----------------------------
(***************************************************************************)
(* BaseImportService.insertImport (config/service/base-import.service.ts): *)
(* the rows of a file are validated, and imported each in a transaction of *)
(* its own, by a limited number of workers that share ONE `transaction`    *)
(* variable.  A dry run puts all rows into one transaction that is rolled  *)
(* back at the end; a refused row is undone by a savepoint, or by rolling  *)
(* the transaction back and starting another one.                          *)
(*                                                                         *)
(* One action per database call that a row or the request waits for.  When *)
(* a row rejects, Promise.all rejects and the request fails, but the rows  *)
(* in the queue are not cancelled: they go on after the answer.            *)
(***************************************************************************)
EXTENDS Integers, FiniteSets

CONSTANTS
  N,           \* number of rows of the file
  Key,         \* values of the unique key
  Concurrency, \* the values of concurentInsert that services may configure
  MaxFault     \* bound on the number of database failures

ASSUME NAssumption == N \in Nat \ {0}
ASSUME ConcurrencyAssumption == Concurrency \subseteq Nat \ {0}
ASSUME MaxFaultAssumption == MaxFault \in Nat

VARIABLES
  job,     \* the request and the configuration of its service (never changes)
  db,      \* db[k]: the row of the file that wrote k last, or Before, or Absent,
           \* or Mixed: columns of several rows of the file
  tx,      \* tx[t]: the t-th transaction
  opened,  \* number of transactions started so far
  current, \* the variable `transaction`; 0 is undefined
  pc,      \* pc[i]: where row i is
  err,     \* err[i]: rowErrors is not empty
  doc,     \* doc[i]: what findOne found at the key of i, until i has written
  saved,   \* saved[i]: the writes of the transaction at the savepoint of i
  main,    \* where the request is
  faults,  \* number of database failures so far
  (* History variables: no action reads them. *)
  found,   \* the table before the request
  own      \* own[i]: the transaction that row i started

vars == <<job, db, tx, opened, current, pc, err, doc, saved, main, faults, found, own>>

Row == 1 .. N
Absent == 0
Before == -1
NoWrite == -2
Mixed == -3
Owner == {Absent, Before, Mixed} \cup Row

Tx == 1 .. (N + 1)

Clean == [k \in Key |-> NoWrite]

Job ==
  [key : [Row -> Key], typed : [Row -> BOOLEAN], mode : {"create", "update", "upsert"},
   dryRun : BOOLEAN, useSavepoint : BOOLEAN, useTransactionInsert : BOOLEAN,
   concurentInsert : Concurrency]

TypeOK ==
  /\ job \in Job
  /\ {db, found} \subseteq [Key -> Owner]
  /\ tx \in [Tx -> [state : {"new", "open", "committed", "aborted"},
                    writes : [Key -> Owner \cup {NoWrite}]]]
  /\ opened \in {0} \cup Tx
  /\ current \in 0 .. opened
  /\ pc \in [Row -> {"new", "queued", "begin", "insert", "write", "commit", "undo",
                     "restart", "done", "rejected"}]
  /\ err \in [Row -> BOOLEAN]
  /\ doc \in [Row -> Owner]
  /\ saved \in [Row -> [Key -> Owner \cup {NoWrite}]]
  /\ main \in {"start", "rows", "end", "break", "answered", "failed"}
  /\ faults \in 0 .. MaxFault
  /\ own \in [Row -> {0} \cup Tx]

(* Settings that neither a dry run nor a real import reads are not varied. *)
Init ==
  /\ job \in Job
  /\ job.dryRun => job.useTransactionInsert /\ job.concurentInsert = 1
  /\ job.useSavepoint => job.dryRun
  /\ found \in [Key -> {Absent, Before}]
  /\ db = found
  /\ tx = [t \in Tx |-> [state |-> "new", writes |-> Clean]]
  /\ opened = 0
  /\ current = 0
  /\ pc = [i \in Row |-> "new"]
  /\ err = [i \in Row |-> FALSE]
  /\ doc = [i \in Row |-> Absent]
  /\ saved = [i \in Row |-> Clean]
  /\ main = "start"
  /\ faults = 0
  /\ own = [i \in Row |-> 0]
-----------------------------------------------------------------------------
Active(i) == pc[i] \in {"begin", "insert", "write", "commit", "undo", "restart"}

(* The limit is not lowered for rows that have transactions of their own. *)
LimitAsConfigured == IF job.dryRun THEN 1 ELSE job.concurentInsert

Limit == IF job.dryRun \/ job.useTransactionInsert THEN 1 ELSE job.concurentInsert

OwnTransaction == ~job.dryRun /\ job.useTransactionInsert

Savepoint == job.dryRun /\ job.useSavepoint

Goto(i, where) == pc' = [pc EXCEPT ![i] = where]

(* The request waits for all rows, and breaks off at the first that rejects. *)
Reject(i) ==
  /\ Goto(i, "rejected")
  /\ main' = IF main = "rows" THEN "break" ELSE main

Fault == faults < MaxFault /\ faults' = faults + 1

Open(t) == t # 0 /\ tx[t].state = "open"

Start ==
  /\ opened' = opened + 1
  /\ tx' = [tx EXCEPT ![opened + 1].state = "open"]
  /\ current' = opened + 1

Abort(t) == tx' = [tx EXCEPT ![t] = [state |-> "aborted", writes |-> Clean]]

(* The table as the statements of transaction t see it; 0 is autocommit. *)
Seen(t) ==
  [k \in Key |-> IF t = 0 \/ tx[t].writes[k] = NoWrite THEN db[k] ELSE tx[t].writes[k]]

(* insertRowData: what row i makes of a table, and when its INSERT fails.  *)
(* An UPDATE of a row that does not exist is no error and writes nothing.  *)
Duplicate(table, i) == job.mode = "create" /\ table[job.key[i]] # Absent

Applied(table, i) ==
  IF job.mode = "update" /\ table[job.key[i]] = Absent
    THEN table
    ELSE [table EXCEPT ![job.key[i]] = i]
-----------------------------------------------------------------------------
(* A dry run starts its transaction before the rows are queued. *)
RequestStart ==
  /\ main = "start"
  /\ \/ /\ IF job.dryRun THEN Start ELSE UNCHANGED <<tx, opened, current>>
        /\ main' = "rows"
        /\ pc' = [i \in Row |-> "queued"]
        /\ UNCHANGED faults
     \/ /\ job.dryRun /\ Fault
        /\ main' = "failed"
        /\ UNCHANGED <<tx, opened, current, pc>>
  /\ UNCHANGED <<job, db, err, doc, saved, found, own>>

(* pLimit takes the next row of the queue, and the row is validated. *)
RowStart(i) ==
  /\ pc[i] = "queued" /\ \A j \in Row : j < i => pc[j] # "queued"
  /\ Cardinality({j \in Row : Active(j)}) < Limit
  /\ err' = [err EXCEPT ![i] = ~job.typed[i]]
  /\ Goto(i, IF job.typed[i] THEN "begin" ELSE "done")
  /\ UNCHANGED <<job, db, tx, opened, current, doc, saved, main, faults, found, own>>

(* Dry runs get transactions for their rows like imports. *)
RowBeginAlways(i) ==
  /\ pc[i] = "begin"
  /\ Start
  /\ own' = [own EXCEPT ![i] = opened + 1]
  /\ saved' = [saved EXCEPT ![i] = Clean]
  /\ Goto(i, "insert")
  /\ UNCHANGED <<job, db, err, doc, main, faults, found>>

(* The savepoint, or the transaction, of the row: a failure rejects it. *)
RowBegin(i) ==
  /\ pc[i] = "begin"
  /\ \/ /\ Savepoint /\ Open(current)
        /\ saved' = [saved EXCEPT ![i] = tx[current].writes]
        /\ Goto(i, "insert")
        /\ UNCHANGED <<tx, opened, current, main, faults, own>>
     \/ /\ OwnTransaction
        /\ Start
        /\ own' = [own EXCEPT ![i] = opened + 1]
        /\ Goto(i, "insert")
        /\ UNCHANGED <<saved, main, faults>>
     \/ /\ ~Savepoint /\ ~OwnTransaction
        /\ Goto(i, "insert")
        /\ UNCHANGED <<tx, opened, current, saved, main, faults, own>>
     \/ /\ \/ Savepoint /\ ~Open(current) /\ UNCHANGED faults
           \/ (Savepoint \/ OwnTransaction) /\ Fault
        /\ Reject(i)
        /\ UNCHANGED <<tx, opened, current, saved, own>>
  /\ UNCHANGED <<job, db, err, doc, found>>

(* What the statement of row i may leave at its key.  An UPDATE sets the   *)
(* columns in which the row differs from what findOne found: when another  *)
(* row has written since, columns of both may be left.                     *)
Results(i) ==
  IF job.mode = "update" /\ (doc[i] = Mixed \/ doc[i] # Seen(current)[job.key[i]])
    THEN {i, Mixed}
    ELSE {i}

(* The statement takes effect, in the transaction that `transaction` is    *)
(* now; without one it commits by itself.                                  *)
Write(i) ==
  /\ ~Duplicate(Seen(current), i)
  /\ \E result \in Results(i) :
       IF current = 0
         THEN db' = [db EXCEPT ![job.key[i]] = result] /\ UNCHANGED tx
         ELSE tx' = [tx EXCEPT ![current].writes[job.key[i]] = result] /\ UNCHANGED db

Imported(i) == Goto(i, IF OwnTransaction THEN "commit" ELSE "done")

(* The catch of the row: it gets an error, and what it wrote is undone.    *)
Refused(i) ==
  /\ err' = [err EXCEPT ![i] = TRUE]
  /\ Goto(i, IF job.dryRun \/ OwnTransaction THEN "undo" ELSE "done")

Usable == current = 0 \/ Open(current)

(* Mode "update" looks for the row first; when there is none, it is done.  *)
RowFind(i) ==
  /\ pc[i] = "insert" /\ job.mode = "update"
  /\ \/ /\ Usable
        /\ LET stored == Seen(current)[job.key[i]]
           IN  /\ doc' = [doc EXCEPT ![i] = stored]
               /\ IF stored = Absent THEN Imported(i) ELSE Goto(i, "write")
        /\ UNCHANGED <<err, faults>>
     \/ /\ IF Usable THEN Fault ELSE UNCHANGED faults
        /\ Refused(i)
        /\ UNCHANGED doc
  /\ UNCHANGED <<job, db, tx, opened, current, saved, main, found, own>>

(* The statement that writes.  When it fails for another reason than the   *)
(* key, and commits by itself, it may have taken effect.                   *)
RowInsert(i) ==
  /\ pc[i] = IF job.mode = "update" THEN "write" ELSE "insert"
  /\ doc' = [doc EXCEPT ![i] = Absent]
  /\ \/ Usable /\ Write(i) /\ Imported(i) /\ UNCHANGED <<err, faults>>
     \/ /\ \/ (~Usable \/ Duplicate(Seen(current), i)) /\ UNCHANGED <<db, tx, faults>>
           \/ Fault /\ UNCHANGED <<db, tx>>
           \/ Fault /\ current = 0 /\ Write(i)
        /\ Refused(i)
  /\ UNCHANGED <<job, opened, current, saved, main, found, own>>

(* A commit that fails may have taken effect; the transaction counts as    *)
(* finished either way, so the abort that follows throws and the row       *)
(* rejects.                                                                *)
RowCommit(i) ==
  /\ pc[i] = "commit"
  /\ \/ /\ Goto(i, "done")
        /\ db' = Seen(current)
        /\ tx' = [tx EXCEPT ![current].state = "committed"]
        /\ UNCHANGED <<main, faults>>
     \/ /\ Fault
        /\ Reject(i)
        /\ \/ db' = Seen(current) /\ tx' = [tx EXCEPT ![current].state = "committed"]
           \/ Abort(current) /\ UNCHANGED db
  /\ UNCHANGED <<job, opened, current, err, doc, saved, found, own>>

(* A dry run starts afresh although it has a savepoint. *)
RowUndoAll(i) ==
  /\ pc[i] = "undo"
  /\ Open(current)
  /\ Abort(current)
  /\ Goto(i, IF job.dryRun THEN "restart" ELSE "done")
  /\ UNCHANGED <<job, db, opened, current, err, doc, saved, main, faults, found, own>>

(* The row is undone; an abort of a finished transaction throws. *)
RowUndo(i) ==
  /\ pc[i] = "undo"
  /\ \/ /\ Open(current)
        /\ IF Savepoint
             THEN tx' = [tx EXCEPT ![current].writes = saved[i]]
             ELSE Abort(current)
        /\ Goto(i, IF job.dryRun /\ ~Savepoint THEN "restart" ELSE "done")
        /\ UNCHANGED <<main, faults>>
     \/ /\ ~Open(current)
        /\ Reject(i)
        /\ UNCHANGED <<tx, faults>>
     \/ /\ Open(current) /\ Fault
        /\ IF Savepoint THEN UNCHANGED tx ELSE Abort(current)
        /\ Reject(i)
  /\ UNCHANGED <<job, db, opened, current, err, doc, saved, found, own>>

(* A dry run without savepoints goes on in a new transaction. *)
RowRestart(i) ==
  /\ pc[i] = "restart"
  /\ \/ Start /\ Goto(i, "done") /\ UNCHANGED <<main, faults>>
     \/ Fault /\ Reject(i) /\ UNCHANGED <<tx, opened, current>>
  /\ UNCHANGED <<job, db, err, doc, saved, found, own>>
-----------------------------------------------------------------------------
(* The request waits for rows without errors. *)
RequestBeginImpatient ==
  /\ main = "rows"
  /\ \A i \in Row : pc[i] = "done" /\ ~err[i]
  /\ main' = "end"
  /\ UNCHANGED <<job, db, tx, opened, current, pc, err, doc, saved, faults, found, own>>

(* All rows are through: a real import starts one more transaction for the *)
(* (empty) afterInsertImport hook.                                         *)
RequestBegin ==
  /\ main = "rows"
  /\ \A i \in Row : pc[i] = "done"
  /\ \/ /\ IF job.dryRun THEN UNCHANGED <<tx, opened, current>> ELSE Start
        /\ main' = "end"
        /\ UNCHANGED faults
     \/ /\ ~job.dryRun /\ Fault
        /\ main' = "failed"
        /\ UNCHANGED <<tx, opened, current>>
  /\ UNCHANGED <<job, db, pc, err, doc, saved, found, own>>

(* The validation is committed like an import. *)
RequestEndCommit ==
  /\ main = "end"
  /\ main' = "answered"
  /\ db' = Seen(current)
  /\ tx' = [tx EXCEPT ![current].state = "committed"]
  /\ UNCHANGED <<job, opened, current, pc, err, doc, saved, faults, found, own>>

(* ... commits it, or rolls the dry run back. *)
RequestEnd ==
  /\ main = "end"
  /\ \/ main' = "answered" /\ UNCHANGED faults
     \/ main' = "failed" /\ Fault
  /\ IF job.dryRun
       THEN Abort(current)
       ELSE tx' = [tx EXCEPT ![current].state = "committed"]
  /\ UNCHANGED <<job, db, opened, current, pc, err, doc, saved, found, own>>

(* The catch forgets the transaction of a dry run. *)
RequestBreakForget ==
  /\ main = "break"
  /\ main' = "failed"
  /\ UNCHANGED <<job, db, tx, opened, current, pc, err, doc, saved, faults, found, own>>

(* The outer catch: a dry run rolls back what `transaction` is now. *)
RequestBreak ==
  /\ main = "break"
  /\ main' = "failed"
  /\ IF job.dryRun /\ Open(current) THEN Abort(current) ELSE UNCHANGED tx
  /\ UNCHANGED <<job, db, opened, current, pc, err, doc, saved, faults, found, own>>

RowStep(i) ==
  \/ RowStart(i) \/ RowBegin(i) \/ RowFind(i) \/ RowInsert(i)
  \/ RowCommit(i) \/ RowUndo(i) \/ RowRestart(i)

RequestStep == RequestStart \/ RequestBegin \/ RequestEnd \/ RequestBreak

Next == RequestStep \/ \E i \in Row : RowStep(i)

(* The database answers every call and the event loop resumes every await. *)
Fairness == WF_vars(RequestStep) /\ \A i \in Row : WF_vars(RowStep(i))

Spec == Init /\ [][Next]_vars /\ Fairness
-----------------------------------------------------------------------------
(* Importing the rows one after the other, refused ones left out: Sequel[i]*)
(* is the table after row i, and RefusedInSequence(i) says whether i was.  *)
Sequel[i \in 0 .. N] ==
  IF i = 0 THEN found
  ELSE IF ~job.typed[i] \/ Duplicate(Sequel[i - 1], i)
         THEN Sequel[i - 1]
         ELSE Applied(Sequel[i - 1], i)

RefusedInSequence(i) == ~job.typed[i] \/ Duplicate(Sequel[i - 1], i)

(* Rows that are handled one at a time, and not by a database that fails,  *)
(* are reported as a sequential import would have them: a validation says  *)
(* of each row what the import will, duplicates within the file included.  *)
(* Without savepoints it says so up to the first row that it had to undo.  *)
ReportIsSequential ==
  faults = 0 /\ Limit = 1 =>
    \A i \in Row :
      /\ pc[i] = "done"
      /\ job.dryRun /\ ~Savepoint => \A j \in 1 .. (i - 1) : err[j] => ~job.typed[j]
      => err[i] = RefusedInSequence(i)

(* The shared variable is never switched under a row that uses it. *)
RowsUseTheirOwnTransaction ==
  \A i \in Row :
    OwnTransaction /\ pc[i] \in {"insert", "write", "commit", "undo"} =>
      current = own[i] /\ \A j \in Row : i # j => own[j] # own[i]

(* When the request is over and its last row too, no transaction stays     *)
(* open, whichever call has failed: the connection is back in the pool.    *)
NoTransactionLeaks ==
  main \in {"answered", "failed"} /\ (\A i \in Row : ~Active(i) /\ pc[i] # "queued") =>
    \A t \in Tx : ~Open(t)

(* The client gets an answer, and no row is left in the queue. *)
ImportEnds ==
  <>[](main \in {"answered", "failed"} /\ \A i \in Row : pc[i] \in {"new", "done", "rejected"})

(* The import keeps the promise of ImportPromise: a validation changes     *)
(* nothing; with a transaction for each row, what the report says of a row *)
(* is what happened to it; without, a refused row may be in, and rows that *)
(* update one row of the table at the same time may get mixed.             *)
Outcome ==
  [i \in Row |->
     CASE pc[i] = "done" -> (IF err[i] THEN "refused" ELSE "imported")
       [] pc[i] = "rejected" -> "unknown"
       [] OTHER -> "pending"]

Promise == INSTANCE ImportPromise WITH table <- db, outcome <- Outcome

KeepsPromise == Promise!Spec
=============================================================================
