----------------------------- MODULE ImportProofs -----------------------------
(***************************************************************************)
(* Proofs about ImportEngine, for any number of rows and keys, any limit   *)
(* of concurrency, and any number of database failures: rows that share    *)
(* the variable `transaction` never use one of another row, no transaction *)
(* is left open, the import keeps the promise of ImportPromise, and, when  *)
(* no call fails, its report is that of a sequential import.               *)
(***************************************************************************)
EXTENDS ImportEngine, FiniteSetTheorems, WellFoundedInduction, TLAPS

(* Rows leave the queue in the order of the file, all rows are queued at   *)
(* once, and a limit of one lets one row run at a time.                    *)
InOrder ==
  /\ \A i, j \in Row : pc[i] = "new" => pc[j] = "new"
  /\ main = "start" => \A i \in Row : pc[i] = "new"
  /\ \A i, j \in Row : i < j /\ pc[i] = "queued" => pc[j] = "queued"
  /\ Limit = 1 => \A i, j \in Row : Active(i) /\ Active(j) => i = j
  /\ main \in {"end", "answered"} => \A i \in Row : pc[i] = "done"

(* Where a row can be under which settings, and what its report says.      *)
Where ==
  \A i \in Row :
    /\ pc[i] = "commit" => OwnTransaction
    /\ pc[i] = "undo" => job.dryRun \/ OwnTransaction
    /\ pc[i] = "restart" => job.dryRun /\ ~Savepoint /\ main = "rows"
    /\ pc[i] \in {"begin", "insert", "write", "commit"} => ~err[i]
    /\ pc[i] \in {"undo", "restart"} => err[i]

(* A row starts at most one transaction, so N + 1 are enough; rows have    *)
(* none before all are through unless they need one.                       *)
Counted ==
  /\ ~job.dryRun /\ main \in {"start", "rows"} => opened <= N
  /\ OwnTransaction => \A i \in Row : pc[i] \in {"new", "queued", "begin"} => opened < i
  /\ job.dryRun =>
       \A i \in Row : /\ pc[i] \notin {"done", "rejected"} => opened <= i
                      /\ pc[i] # "new" => current # 0
  /\ main = "start" => opened = 0
  /\ ~job.dryRun /\ ~OwnTransaction =>
       opened = 0 \/ \A i \in Row : pc[i] = "done"

(* Only the transaction of `transaction` may be open, and only as long as  *)
(* somebody is there to end it; what is not started yet is clean.          *)
OneIsOpen ==
  /\ \A t \in Tx : Open(t) => t = current
  /\ \A t \in Tx : t > opened => tx[t] = [state |-> "new", writes |-> Clean]
  /\ \A i \in Row : pc[i] = "restart" => ~Open(current)
  /\ Open(current) =>
       \/ main = "end"
       \/ job.dryRun /\ main \in (IF Savepoint THEN {"rows", "break"} ELSE {"rows"})
       \/ OwnTransaction /\ \E i \in Row : pc[i] \in {"insert", "write", "commit", "undo"}

(* No two rows have started the same transaction.                          *)
OwnDiffer ==
  /\ \A i \in Row : own[i] <= opened
  /\ \A i, j \in Row : i # j /\ own[i] = own[j] => own[i] = 0
  /\ \A i \in Row :
       OwnTransaction /\ pc[i] \in {"insert", "write", "commit", "undo"} =>
         current = own[i] /\ own[i] # 0

(* Nobody else writes the table while a row has its transaction, which     *)
(* holds, when it commits, what the row makes of the table.                *)
Isolated ==
  \A i \in Row :
    /\ OwnTransaction /\ pc[i] \in {"insert", "write"} => tx[current].writes = Clean
    /\ pc[i] = "commit" =>
         /\ Open(current)
         /\ ~Duplicate(db, i)
         /\ Seen(current) = Applied(db, i)

(* Another row of the file has the same key.                               *)
Shared(i) == \E j \in Row : j # i /\ job.key[j] = job.key[i]

(* What findOne found for a row that is to write is still there, unless    *)
(* rows are under way together and another one has the same key; only then *)
(* a row of the table can be mixed.                                        *)
Found ==
  /\ \A k \in Key :
       /\ db[k] = Mixed => Limit # 1 /\ \E j \in Row : pc[j] = "done" /\ job.key[j] = k
       /\ \A t \in Tx : tx[t].writes[k] # Mixed
       /\ \A i \in Row : saved[i][k] # Mixed
  /\ \A i \in Row :
       pc[i] = "write" =>
         /\ job.mode = "update" /\ doc[i] # Absent
         /\ doc[i] = Mixed => Limit # 1 /\ Shared(i)
         /\ Limit = 1 /\ Usable => doc[i] = Seen(current)[job.key[i]]
         /\ Limit # 1 => db[job.key[i]] # Absent /\ (doc[i] = db[job.key[i]] \/ Shared(i))

IInv == TypeOK /\ InOrder /\ Where /\ Counted /\ OneIsOpen /\ OwnDiffer /\ Isolated /\ Found
-----------------------------------------------------------------------------
LEMMA Rows ==
  /\ N \in Nat /\ N >= 1
  /\ \A i \in Row : i \in Nat /\ 1 <= i /\ i <= N
BY NAssumption DEF Row

(* A limit of one lets no row start while another one runs. *)
LEMMA NoneActive ==
  ASSUME NEW i \in Row, RowStart(i), Limit = 1
  PROVE  \A j \in Row : ~Active(j)
<1> DEFINE A == {j \in Row : Active(j)}
<1>1. IsFiniteSet(Row)
  BY Rows, FS_Interval DEF Row
<1>2. IsFiniteSet(A) /\ Cardinality(A) \in Nat
  BY <1>1, FS_Subset, FS_CardinalityType
<1>3. Cardinality(A) < 1
  BY DEF RowStart
<1>4. A = {}
  BY <1>2, <1>3, FS_EmptySet
<1> QED
  BY <1>4

(* The rows before one that runs alone are through, those after it wait.   *)
LEMMA Alone ==
  ASSUME TypeOK, InOrder, NEW i \in Row, Active(i), Limit = 1, NEW j \in Row, j # i
  PROVE  /\ ~Active(j)
         /\ j < i => pc[j] \in {"done", "rejected"}
         /\ i < j => pc[j] \in {"queued", "done", "rejected"}
         /\ pc[j] # "new"
<1>1. ~Active(j) /\ (j < i => pc[j] # "queued") /\ pc[j] # "new"
  BY Rows DEF InOrder, Active
<1>2. pc[j] \in {"new", "queued", "begin", "insert", "write", "commit", "undo", "restart", "done",
                 "rejected"}
  BY DEF TypeOK
<1> QED
  BY <1>1, <1>2 DEF Active

(* The transactions of rows of their own, and dry runs, lower the limit. *)
LEMMA Settings ==
  ASSUME TypeOK
  PROVE  /\ job.dryRun \/ OwnTransaction => Limit = 1
         /\ job.dryRun \in BOOLEAN /\ job.useSavepoint \in BOOLEAN
         /\ job.useTransactionInsert \in BOOLEAN
         /\ \A i \in Row : job.key[i] \in Key
         /\ opened \in Nat /\ opened <= N + 1
         /\ current \in Nat /\ current <= opened
<1>1. job \in Job
  BY DEF TypeOK
<1>2. /\ job.dryRun \in BOOLEAN /\ job.useSavepoint \in BOOLEAN
      /\ job.useTransactionInsert \in BOOLEAN /\ \A i \in Row : job.key[i] \in Key
  BY <1>1 DEF Job
<1>3. job.dryRun \/ OwnTransaction => Limit = 1
  BY <1>2, Zenon DEF OwnTransaction, Limit
<1>4. opened \in Nat /\ opened <= N + 1 /\ current \in Nat /\ current <= opened
  BY Rows DEF TypeOK, Tx
<1> QED
  BY <1>2, <1>3, <1>4

LEMMA SeenType ==
  ASSUME TypeOK
  PROVE  Seen(current) \in [Key -> Owner]
<1> SUFFICES ASSUME NEW k \in Key
             PROVE  (IF current = 0 \/ tx[current].writes[k] = NoWrite
                       THEN db[k] ELSE tx[current].writes[k]) \in Owner
  BY DEF Seen
<1>1. db[k] \in Owner
  BY DEF TypeOK
<1>2. current # 0 => current \in Tx
  BY Settings, Rows DEF Tx
<1>3. current # 0 => tx[current].writes[k] \in Owner \cup {NoWrite}
  BY <1>2 DEF TypeOK
<1> QED
  BY <1>1, <1>3

LEMMA AppliedType ==
  ASSUME TypeOK, NEW T \in [Key -> Owner], NEW i \in Row
  PROVE  Applied(T, i) \in [Key -> Owner] /\ Applied(T, i)[job.key[i]] \in Owner
<1>1. job.key[i] \in Key /\ i \in Owner
  BY Settings DEF Owner
<1>2. [T EXCEPT ![job.key[i]] = i] \in [Key -> Owner]
  BY <1>1
<1>3. Applied(T, i) \in [Key -> Owner]
  BY <1>2, Zenon DEF Applied
<1> QED
  BY <1>1, <1>3

(* What a transaction that is started does to the variables. *)
LEMMA StartType ==
  ASSUME TypeOK, Start, opened <= N
  PROVE  /\ tx' \in [Tx -> [state : {"new", "open", "committed", "aborted"},
                            writes : [Key -> Owner \cup {NoWrite}]]]
         /\ opened' = opened + 1 /\ current' = opened + 1 /\ opened + 1 \in Tx
         /\ opened' \in {0} \cup Tx /\ current' \in 0 .. opened'
         /\ \A t \in Tx : t # opened + 1 => tx'[t] = tx[t]
         /\ tx'[opened + 1].state = "open"
         /\ tx'[opened + 1].writes = tx[opened + 1].writes
<1>1. opened + 1 \in Tx
  BY Settings, Rows DEF Tx
<1>2. \A t \in Tx : t # opened + 1 => tx'[t] = tx[t]
  BY <1>1 DEF TypeOK, Start
<1>3. tx'[opened + 1].state = "open" /\ tx'[opened + 1].writes = tx[opened + 1].writes
  BY <1>1 DEF TypeOK, Start
<1>4. tx' \in [Tx -> [state : {"new", "open", "committed", "aborted"},
                      writes : [Key -> Owner \cup {NoWrite}]]]
  BY <1>1 DEF TypeOK, Start
<1> QED
  BY <1>1, <1>2, <1>3, <1>4, Settings DEF Start, Tx

(* The one that is started is open, and nothing else is, if nothing was.   *)
LEMMA StartOpens ==
  ASSUME TypeOK, Start, opened <= N, OneIsOpen, \A t \in Tx : ~Open(t)
  PROVE  /\ \A t \in Tx : Open(t)' => t = current'
         /\ \A t \in Tx : t > opened' => tx'[t] = [state |-> "new", writes |-> Clean]
         /\ tx'[current'].writes = Clean
<1>1. /\ opened' = opened + 1 /\ current' = opened + 1 /\ opened + 1 \in Tx
      /\ \A t \in Tx : t # opened + 1 => tx'[t] = tx[t]
      /\ tx'[opened + 1].writes = tx[opened + 1].writes
  BY StartType
<1>2. \A t \in Tx : t > opened => tx[t] = [state |-> "new", writes |-> Clean]
  BY DEF OneIsOpen
<1>3. \A t \in Tx : tx'[t].state = "open" => t = opened + 1
  BY <1>1, Rows DEF Open, Tx
<1>4. \A t \in Tx : t > opened + 1 => tx'[t] = [state |-> "new", writes |-> Clean]
  BY <1>1, <1>2, Settings, Rows DEF Tx
<1>5. tx[opened + 1].writes = Clean
  BY <1>1, <1>2, Settings
<1> QED
  BY <1>1, <1>3, <1>4, <1>5 DEF Open

(* A transaction that is aborted keeps nothing. *)
LEMMA AbortType ==
  ASSUME TypeOK, Abort(current)
  PROVE  /\ tx' \in [Tx -> [state : {"new", "open", "committed", "aborted"},
                            writes : [Key -> Owner \cup {NoWrite}]]]
         /\ \A t \in Tx : tx'[t] = IF t = current THEN [state |-> "aborted", writes |-> Clean]
                                                  ELSE tx[t]
<1>1. Clean \in [Key -> Owner \cup {NoWrite}]
  BY DEF Clean
<1> QED
  BY <1>1 DEF TypeOK, Abort

(* ... and one that is committed stays as it is. *)
LEMMA CommitType ==
  ASSUME TypeOK, tx' = [tx EXCEPT ![current].state = "committed"]
  PROVE  /\ tx' \in [Tx -> [state : {"new", "open", "committed", "aborted"},
                            writes : [Key -> Owner \cup {NoWrite}]]]
         /\ \A t \in Tx : tx'[t] = IF t = current
                                     THEN [state |-> "committed", writes |-> tx[t].writes]
                                     ELSE tx[t]
<1>1. \A t \in Tx : tx'[t] = IF t = current
                             THEN [state |-> "committed", writes |-> tx[t].writes]
                             ELSE tx[t]
  BY DEF TypeOK
<1>2. tx' \in [Tx -> [state : {"new", "open", "committed", "aborted"},
                      writes : [Key -> Owner \cup {NoWrite}]]]
  BY DEF TypeOK
<1> QED
  BY <1>1, <1>2
-----------------------------------------------------------------------------
LEMMA InitInv == Init => IInv
<1> SUFFICES ASSUME Init PROVE IInv
  OBVIOUS
<1>1. /\ opened = 0 /\ current = 0 /\ main = "start" /\ faults = 0
      /\ \A i \in Row : pc[i] = "new" /\ err[i] = FALSE /\ own[i] = 0
      /\ \A t \in Tx : tx[t] = [state |-> "new", writes |-> Clean]
      /\ job \in Job
  BY DEF Init
<1>2. TypeOK
  <2>1. Clean \in [Key -> Owner \cup {NoWrite}]
    BY DEF Clean
  <2>2. /\ tx \in [Tx -> [state : {"new", "open", "committed", "aborted"},
                          writes : [Key -> Owner \cup {NoWrite}]]]
        /\ saved \in [Row -> [Key -> Owner \cup {NoWrite}]]
    BY <2>1 DEF Init
  <2>3. {db, found} \subseteq [Key -> Owner]
    BY DEF Init, Owner
  <2>4. /\ pc \in [Row -> {"new", "queued", "begin", "insert", "write", "commit", "undo", "restart",
                           "done", "rejected"}]
        /\ own \in [Row -> {0} \cup Tx]
        /\ faults \in 0 .. MaxFault /\ current \in 0 .. opened
    BY <1>1, MaxFaultAssumption DEF Init
  <2>5. err \in [Row -> BOOLEAN]
    BY Zenon DEF Init
  <2>6. doc \in [Row -> Owner]
    BY DEF Init, Owner
  <2> QED
    BY <1>1, <2>2, <2>3, <2>4, <2>5, <2>6 DEF TypeOK
<1>3. InOrder
  BY <1>1 DEF InOrder, Active
<1>4. Where
  BY <1>1 DEF Where
<1>5. Counted
  BY <1>1, Rows DEF Counted
<1>6. OneIsOpen
  BY <1>1 DEF OneIsOpen, Open
<1>7. OwnDiffer /\ Isolated
  BY <1>1 DEF OwnDiffer, Isolated
<1>8. Found
  <2>1. \A k \in Key : db[k] # Mixed /\ Clean[k] # Mixed
    BY DEF Init, Clean, Absent, Before, NoWrite, Mixed
  <2>2. \A i \in Row : saved[i] = Clean
    BY DEF Init
  <2> QED
    BY <1>1, <2>1, <2>2 DEF Found
<1> QED
  BY <1>2, <1>3, <1>4, <1>5, <1>6, <1>7, <1>8 DEF IInv

LEMMA StutterInv == IInv /\ UNCHANGED vars => IInv'
<1> SUFFICES ASSUME IInv, UNCHANGED vars PROVE IInv'
  OBVIOUS
<1> USE DEF vars, Active, Open, Limit, OwnTransaction, Savepoint
<1>1. TypeOK' /\ InOrder' /\ Where'
  BY DEF IInv, TypeOK, InOrder, Where
<1>2. Counted' /\ OneIsOpen' /\ OwnDiffer'
  BY DEF IInv, Counted, OneIsOpen, OwnDiffer
<1>3. Isolated' /\ Found'
  BY DEF IInv, Isolated, Found, Duplicate, Applied, Seen, Usable, Shared
<1> QED
  BY <1>1, <1>2, <1>3 DEF IInv

(* Steps that leave the table and what rows have found alone.              *)
LEMMA FoundStays ==
  ASSUME TypeOK, Found, UNCHANGED <<job, db>>,
         \A j \in Row : pc[j] = "done" => pc'[j] = "done",
         \A j \in Row : pc'[j] = "write" => pc[j] = "write" /\ doc'[j] = doc[j],
         \A k \in Key : /\ \A t \in Tx : tx'[t].writes[k] # Mixed
                        /\ \A j \in Row : saved'[j][k] # Mixed,
         \A j \in Row : pc'[j] = "write" /\ Limit = 1 /\ Usable' =>
                         Usable /\ Seen(current)' = Seen(current)
  PROVE  Found'
<1>1. \A k \in Key : db'[k] = Mixed => Limit # 1 /\ \E j \in Row : pc'[j] = "done" /\ job.key[j] = k
  BY DEF Found
<1>2. Limit' = Limit /\ \A j \in Row : Shared(j)' = Shared(j) /\ job.key[j] \in Key
  BY Settings DEF Limit, Shared
<1>3. ASSUME NEW j \in Row, pc'[j] = "write"
      PROVE  /\ job.mode = "update" /\ doc'[j] # Absent
             /\ doc'[j] = Mixed => Limit # 1 /\ Shared(j)
             /\ Limit = 1 /\ Usable' => doc'[j] = Seen(current)'[job.key[j]]
             /\ Limit # 1 => db'[job.key[j]] # Absent /\ (doc'[j] = db'[job.key[j]] \/ Shared(j))
  BY <1>3 DEF Found
<1> QED
  BY <1>1, <1>2, <1>3 DEF Found

LEMMA RequestStartInv == IInv /\ RequestStart => IInv'
<1> SUFFICES ASSUME IInv, RequestStart PROVE IInv'
  OBVIOUS
<1> USE DEF IInv
<1>1. main = "start" /\ opened = 0 /\ \A i \in Row : pc[i] = "new"
  BY DEF RequestStart, InOrder, Counted
<1>2. UNCHANGED <<job, db, err, doc, saved, found, own>>
  BY DEF RequestStart
<1>3. \/ /\ job.dryRun /\ Start
         /\ main' = "rows" /\ pc' = [i \in Row |-> "queued"] /\ faults' = faults
      \/ /\ ~job.dryRun /\ UNCHANGED <<tx, opened, current>>
         /\ main' = "rows" /\ pc' = [i \in Row |-> "queued"] /\ faults' = faults
      \/ /\ job.dryRun /\ Fault /\ main' = "failed" /\ UNCHANGED <<tx, opened, current, pc>>
  BY DEF RequestStart
<1>4. \A t \in Tx : ~Open(t)
  BY <1>1, Settings, Rows DEF OneIsOpen, Open, Tx, TypeOK
<1>5. TypeOK'
  <2>1. /\ tx' \in [Tx -> [state : {"new", "open", "committed", "aborted"},
                           writes : [Key -> Owner \cup {NoWrite}]]]
        /\ opened' \in {0} \cup Tx /\ current' \in 0 .. opened'
    BY <1>1, <1>3, StartType, Rows DEF TypeOK
  <2>2. /\ faults' \in 0 .. MaxFault
        /\ main' \in {"start", "rows", "end", "break", "answered", "failed"}
        /\ pc' \in [Row -> {"new", "queued", "begin", "insert", "write", "commit", "undo",
                            "restart", "done", "rejected"}]
    BY <1>3, MaxFaultAssumption DEF Fault, TypeOK
  <2> QED
    BY <1>2, <2>1, <2>2 DEF TypeOK
<1>6. InOrder'
  BY <1>1, <1>2, <1>3 DEF InOrder, Active, Limit
<1>7. Where'
  BY <1>1, <1>2, <1>3 DEF Where, OwnTransaction, Savepoint
<1>8. Counted'
  BY <1>1, <1>2, <1>3, StartType, Rows DEF Counted, OwnTransaction
<1>9. OneIsOpen'
  <2>1. /\ \A t \in Tx : Open(t)' => t = current' /\ job.dryRun /\ main' = "rows"
        /\ \A t \in Tx : t > opened' => tx'[t] = [state |-> "new", writes |-> Clean]
    <3>1. CASE UNCHANGED <<tx, opened, current>>
      BY <1>4, <3>1 DEF Open, OneIsOpen
    <3>2. CASE job.dryRun /\ Start /\ main' = "rows"
      BY <1>1, <1>4, <3>2, StartOpens, Rows
    <3> QED
      BY <1>3, <3>1, <3>2
  <2>3. \A i \in Row : pc'[i] # "restart"
    BY <1>1, <1>3
  <2> QED
    BY <1>2, <2>1, <2>3, <1>5, Rows DEF OneIsOpen, TypeOK, Tx, Open
<1>10. OwnDiffer' /\ Isolated'
  <2>1. \A i \in Row : pc'[i] \in {"new", "queued"} /\ own'[i] = own[i]
    BY <1>1, <1>2, <1>3
  <2>2. opened' \in Nat /\ opened <= opened'
    BY <1>5, <1>1, Rows DEF TypeOK, Tx
  <2>3. \A i \in Row : own[i] \in Nat
    BY Rows DEF TypeOK, Tx
  <2> QED
    BY <1>1, <2>1, <2>2, <2>3 DEF OwnDiffer, Isolated
<1>11. Found'
  <2>1. \A t \in Tx : tx'[t].writes = tx[t].writes
    BY <1>1, <1>3, StartType, Rows
  <2>2. \A k \in Key : /\ \A t \in Tx : tx'[t].writes[k] # Mixed
                       /\ \A j \in Row : saved'[j][k] # Mixed
    BY <1>2, <2>1 DEF Found
  <2>3. \A j \in Row : pc'[j] # "write"
    BY <1>1, <1>3
  <2> QED
    BY <1>1, <1>2, <2>2, <2>3, FoundStays
<1> QED
  BY <1>5, <1>6, <1>7, <1>8, <1>9, <1>10, <1>11

LEMMA RowStartInv == ASSUME IInv, NEW i \in Row, RowStart(i) PROVE IInv'
<1> USE DEF IInv
<1>1. /\ pc[i] = "queued" /\ \A j \in Row : j < i => pc[j] # "queued"
      /\ err' = [err EXCEPT ![i] = ~job.typed[i]]
      /\ pc' = [pc EXCEPT ![i] = IF job.typed[i] THEN "begin" ELSE "done"]
      /\ UNCHANGED <<job, db, tx, opened, current, doc, saved, main, faults, found, own>>
  BY DEF RowStart, Goto
<1>2. Limit = 1 => \A j \in Row : ~Active(j)
  BY NoneActive
<1>3. TypeOK'
  <2>1. pc' \in [Row -> {"new", "queued", "begin", "insert", "write", "commit", "undo", "restart",
                         "done", "rejected"}]
    BY <1>1 DEF TypeOK
  <2>2. err' \in [Row -> BOOLEAN]
    BY <1>1, Zenon DEF TypeOK
  <2> QED
    BY <1>1, <2>1, <2>2 DEF TypeOK
<1>4. /\ pc'[i] = IF job.typed[i] THEN "begin" ELSE "done"
      /\ err'[i] = ~job.typed[i]
      /\ \A j \in Row : j # i => pc'[j] = pc[j] /\ err'[j] = err[j]
  BY <1>1 DEF TypeOK
<1>5. InOrder'
  <2>1. \A j \in Row : pc'[j] # "new"
    BY <1>1, <1>4 DEF InOrder
  <2>2. main' \notin {"start", "end", "answered"}
    BY <1>1 DEF InOrder
  <2>3. \A j, k \in Row : j < k /\ pc'[j] = "queued" => pc'[k] = "queued"
    BY <1>1, <1>4, Rows DEF InOrder
  <2>4. Limit' = 1 => \A j, k \in Row : Active(j)' /\ Active(k)' => j = k
    BY <1>1, <1>2, <1>4 DEF Active, Limit
  <2> QED
    BY <2>1, <2>2, <2>3, <2>4 DEF InOrder
<1>6. Where'
  <2>1. pc'[i] \in {"begin", "done"} /\ (pc'[i] = "begin" => job.typed[i])
    BY <1>4
  <2>2. pc'[i] = "begin" => ~err'[i]
    BY <1>4, <2>1, Zenon
  <2> QED
    BY <1>1, <1>4, <2>1, <2>2 DEF Where, OwnTransaction, Savepoint
<1>7. Counted'
  <2>2. ~job.dryRun /\ ~OwnTransaction => opened = 0
    BY <1>1 DEF Counted
  <2>3. \A j \in Row : pc'[j] \in {"new", "queued", "begin"} => pc[j] \in {"new", "queued", "begin"}
    BY <1>1, <1>4
  <2>4. \A j \in Row : pc'[j] \notin {"done", "rejected"} => pc[j] \notin {"done", "rejected"}
    BY <1>1, <1>4
  <2> QED
    BY <1>1, <2>2, <2>3, <2>4 DEF Counted, OwnTransaction
<1>8. OneIsOpen'
  BY <1>1, <1>4 DEF OneIsOpen, Open, OwnTransaction, Savepoint
<1>9. OwnDiffer' /\ Isolated'
  BY <1>1, <1>4 DEF OwnDiffer, Isolated, OwnTransaction, Open, Duplicate, Applied, Seen
<1>10. Found'
  <2>1. \A k \in Key : /\ \A t \in Tx : tx'[t].writes[k] # Mixed
                       /\ \A j \in Row : saved'[j][k] # Mixed
    BY <1>1 DEF Found
  <2>2. (Usable' <=> Usable) /\ Seen(current)' = Seen(current)
    BY <1>1 DEF Usable, Open, Seen
  <2> QED
    BY <1>1, <1>4, <2>1, <2>2, FoundStays
<1> QED
  BY <1>3, <1>5, <1>6, <1>7, <1>8, <1>9, <1>10

(* A running row goes on, and may make the request break off. *)
LEMMA Move ==
  ASSUME TypeOK, InOrder, NEW i \in Row, Active(i), job' = job,
         NEW where \in {"insert", "write", "commit", "undo", "restart", "done", "rejected"},
         Goto(i, where), main' = main \/ (main = "rows" /\ main' = "break")
  PROVE  /\ InOrder'
         /\ pc' \in [Row -> {"new", "queued", "begin", "insert", "write", "commit", "undo",
                             "restart", "done", "rejected"}]
         /\ pc'[i] = where /\ \A j \in Row : j # i => pc'[j] = pc[j]
         /\ main \in {"rows", "break", "failed"} /\ main' \in {"rows", "break", "failed"}
<1>1. pc'[i] = where /\ \A j \in Row : j # i => pc'[j] = pc[j]
  BY DEF Goto, TypeOK
<1>2. pc' \in [Row -> {"new", "queued", "begin", "insert", "write", "commit", "undo", "restart",
                       "done", "rejected"}]
  BY DEF Goto, TypeOK
<1>3. main \in {"rows", "break", "failed"} /\ main' \in {"rows", "break", "failed"}
  BY DEF InOrder, Active, TypeOK
<1>4. InOrder'
  <2>1. \A j \in Row : pc'[j] # "new"
    BY <1>1 DEF InOrder, Active
  <2>2. \A j, k \in Row : j < k /\ pc'[j] = "queued" => pc'[k] = "queued"
    BY <1>1, Rows DEF InOrder, Active
  <2>3. Limit' = 1 => \A j, k \in Row : Active(j)' /\ Active(k)' => j = k
    BY <1>1 DEF InOrder, Active, Limit
  <2> QED
    BY <1>3, <2>1, <2>2, <2>3 DEF InOrder
<1> QED
  BY <1>1, <1>2, <1>3, <1>4

LEMMA FaultType ==
  ASSUME TypeOK, Fault \/ faults' = faults
  PROVE  faults' \in 0 .. MaxFault
BY MaxFaultAssumption DEF TypeOK, Fault

(* A step of a running row that starts no transaction keeps the invariant  *)
(* if it leaves none open that nobody is there to end.                     *)
LEMMA Goes ==
  ASSUME IInv, NEW i \in Row, Active(i), UNCHANGED <<job, opened, current, found, own>>,
         NEW where \in {"insert", "write", "commit", "undo", "restart", "done", "rejected"},
         Goto(i, where), main' = main \/ (main = "rows" /\ main' = "break"),
         Fault \/ faults' = faults,
         db' \in [Key -> Owner], err' \in [Row -> BOOLEAN], doc' \in [Row -> Owner],
         saved' \in [Row -> [Key -> Owner \cup {NoWrite}]],
         tx' \in [Tx -> [state : {"new", "open", "committed", "aborted"},
                         writes : [Key -> Owner \cup {NoWrite}]]],
         \A t \in Tx : (Open(t)' => Open(t)) /\ (t > opened => tx'[t] = tx[t]),
         \A j \in Row : j # i => err'[j] = err[j],
         main' # main => where = "rejected",
         where = "insert" => pc[i] = "begin" /\ ~OwnTransaction /\ ~err'[i],
         where = "write" => pc[i] = "insert" /\ ~err'[i],
         where = "commit" => pc[i] \in {"insert", "write"} /\ OwnTransaction /\ ~err'[i],
         where = "undo" => /\ pc[i] \in {"insert", "write"}
                           /\ job.dryRun \/ OwnTransaction
                           /\ err'[i],
         where = "restart" => /\ pc[i] = "undo" /\ main = "rows" /\ job.dryRun /\ ~Savepoint
                              /\ err'[i] /\ ~Open(current)',
         where \in {"done", "rejected"} /\ OwnTransaction => ~Open(current)',
         where = "rejected" /\ job.dryRun => Savepoint \/ ~Open(current)',
         Isolated', Found'
  PROVE  IInv'
<1> USE DEF IInv
<1>1. /\ InOrder'
      /\ pc' \in [Row -> {"new", "queued", "begin", "insert", "write", "commit", "undo", "restart",
                          "done", "rejected"}]
      /\ pc'[i] = where /\ \A j \in Row : j # i => pc'[j] = pc[j]
      /\ main \in {"rows", "break", "failed"} /\ main' \in {"rows", "break", "failed"}
  BY Move
<1>2. TypeOK'
  <2>1. faults' \in 0 .. MaxFault
    BY FaultType
  <2> QED
    BY <1>1, <2>1 DEF TypeOK
<1>3. job.dryRun \/ OwnTransaction =>
        \A j \in Row : j # i => ~Active(j) /\ (j < i => pc[j] \in {"done", "rejected"})
  BY Alone, Settings
<1>4. Where'
  <2>1. \A j \in Row : j # i => pc[j] # "restart"
    BY <1>3 DEF Where, Active
  <2> QED
    BY <1>1, <2>1 DEF Where, OwnTransaction, Savepoint
<1>5. Counted'
  <2>1. \A j \in Row : pc'[j] \in {"new", "queued", "begin"} => pc[j] \in {"new", "queued", "begin"}
    BY <1>1
  <2>2. \A j \in Row : pc'[j] \notin {"done", "rejected"} => pc[j] \notin {"done", "rejected"}
    BY <1>1 DEF Active
  <2>3. ~job.dryRun /\ ~OwnTransaction => opened = 0
    BY DEF Counted, Active
  <2>4. job.dryRun => current # 0
    BY DEF Counted, Active
  <2> QED
    BY <1>1, <2>1, <2>2, <2>3, <2>4 DEF Counted, OwnTransaction
<1>6. OneIsOpen'
  <2>1. \A j \in Row : pc'[j] = "restart" => ~Open(current)'
    BY <1>1, <1>3 DEF Where, Active
  <2>2. ASSUME Open(current)'
        PROVE  \/ job.dryRun /\ main' \in (IF Savepoint THEN {"rows", "break"} ELSE {"rows"})
               \/ OwnTransaction /\ \E j \in Row : pc'[j] \in {"insert", "write", "commit", "undo"}
    <3>1. current \in Tx
      BY <2>2, Settings, Rows DEF Open, Tx
    <3>2. Open(current)
      BY <2>2, <3>1 DEF Open
    <3>3. CASE job.dryRun
      <4>1. ~OwnTransaction
        BY <3>3 DEF OwnTransaction
      <4>2. main \in (IF Savepoint THEN {"rows", "break"} ELSE {"rows"})
        BY <1>1, <3>2, <4>1 DEF OneIsOpen
      <4> QED
        BY <2>2, <3>3, <4>2
    <3>4. CASE ~job.dryRun
      <4>1. OwnTransaction
        BY <1>1, <3>2, <3>4 DEF OneIsOpen
      <4> QED
        BY <1>1, <2>2, <4>1
    <3> QED
      BY <3>3, <3>4
  <2>3. \A t \in Tx : Open(t)' => t = current'
    BY DEF OneIsOpen
  <2>4. \A t \in Tx : t > opened' => tx'[t] = [state |-> "new", writes |-> Clean]
    BY DEF OneIsOpen
  <2> QED
    BY <2>1, <2>2, <2>3, <2>4 DEF OneIsOpen, OwnTransaction, Savepoint
<1>7. OwnDiffer'
  BY <1>1 DEF OwnDiffer, OwnTransaction
<1> QED
  BY <1>1, <1>2, <1>4, <1>5, <1>6, <1>7

LEMMA RowBeginInv == ASSUME IInv, NEW i \in Row, RowBegin(i) PROVE IInv'
<1> USE DEF IInv
<1>1. pc[i] = "begin" /\ Active(i) /\ UNCHANGED <<job, db, err, doc, found>>
  BY DEF RowBegin, Active
<1>2. CASE OwnTransaction /\ Start /\ own' = [own EXCEPT ![i] = opened + 1] /\ Goto(i, "insert")
           /\ UNCHANGED <<saved, main, faults>>
  <2>1. /\ InOrder'
        /\ pc' \in [Row -> {"new", "queued", "begin", "insert", "write", "commit", "undo",
                            "restart", "done", "rejected"}]
        /\ pc'[i] = "insert" /\ \A j \in Row : j # i => pc'[j] = pc[j]
    BY <1>1, <1>2, Move
  <2>2. opened < i /\ opened <= N
    BY <1>1, <1>2, Settings, Rows DEF Counted
  <2>3. opened' = opened + 1 /\ current' = opened + 1 /\ opened + 1 \in Tx
    BY <1>2, <2>2, StartType
  <2>4. TypeOK'
    <3>1. /\ tx' \in [Tx -> [state : {"new", "open", "committed", "aborted"},
                             writes : [Key -> Owner \cup {NoWrite}]]]
          /\ opened' \in {0} \cup Tx /\ current' \in 0 .. opened'
      BY <1>2, <2>2, StartType
    <3>2. own' \in [Row -> {0} \cup Tx]
      BY <1>2, <2>3 DEF TypeOK
    <3> QED
      BY <1>1, <1>2, <2>1, <3>1, <3>2 DEF TypeOK
  <2>5. \A j \in Row : j # i => ~Active(j) /\ (j < i => pc[j] \in {"done", "rejected"})
                                 /\ pc[j] # "new"
    BY <1>1, <1>2, Alone, Settings
  <2>6. Where'
    BY <1>1, <1>2, <2>1 DEF Where, OwnTransaction, Savepoint
  <2>7. Counted'
    <3>1. \A j \in Row : pc'[j] \in {"new", "queued", "begin"} => opened' < j
      BY <1>1, <2>1, <2>2, <2>3, <2>5, Settings, Rows DEF Active
    <3>2. main' # "start" /\ ~job.dryRun
      BY <1>1, <1>2 DEF InOrder, OwnTransaction
    <3>3. opened' <= N
      BY <2>2, <2>3, Settings, Rows
    <3> QED
      BY <1>1, <1>2, <3>1, <3>2, <3>3 DEF Counted, OwnTransaction
  <2>8. ~Open(current)
    BY <1>1, <1>2, <2>5 DEF OneIsOpen, OwnTransaction, InOrder, Active
  <2>9. OneIsOpen'
    <3>1. \A t \in Tx : ~Open(t)
      BY <2>8 DEF OneIsOpen
    <3>2. \A j \in Row : pc'[j] # "restart"
      BY <2>1, <2>5 DEF Active
    <3> QED
      BY <1>1, <1>2, <2>1, <2>2, <3>1, <3>2, StartOpens DEF OneIsOpen, OwnTransaction
  <2>10. OwnDiffer'
    <3>1. own'[i] = opened + 1 /\ \A j \in Row : j # i => own'[j] = own[j]
      BY <1>2 DEF TypeOK
    <3>2. \A j \in Row : own[j] \in Nat /\ own[j] <= opened
      BY Rows DEF OwnDiffer, TypeOK, Tx
    <3>3. \A j \in Row : pc'[j] \in {"insert", "write", "commit", "undo"} => j = i
      BY <2>1, <2>5 DEF Active
    <3> QED
      BY <2>3, <3>1, <3>2, <3>3, Settings DEF OwnDiffer
  <2>11. Isolated'
    <3>1. \A j \in Row : pc'[j] \in {"insert", "write", "commit"} => j = i
      BY <2>1, <2>5 DEF Active
    <3>2. tx'[current'].writes = Clean
      BY <1>2, <2>2, <2>8, StartOpens DEF OneIsOpen
    <3> QED
      BY <2>1, <3>1, <3>2 DEF Isolated
  <2>12. Found'
    <3>1. \A j \in Row : pc'[j] # "write" /\ (pc[j] = "done" => pc'[j] = "done")
      BY <1>1, <2>1, <2>5 DEF Active
    <3>2. \A t \in Tx : tx'[t].writes = tx[t].writes
      BY <1>2, <2>2, StartType
    <3>3. \A k \in Key : /\ \A t \in Tx : tx'[t].writes[k] # Mixed
                         /\ \A j \in Row : saved'[j][k] # Mixed
      BY <1>2, <3>2 DEF Found
    <3> QED
      BY <1>1, <3>1, <3>3, FoundStays
  <2> QED
    BY <2>1, <2>4, <2>6, <2>7, <2>9, <2>10, <2>11, <2>12
<1>3. CASE /\ UNCHANGED <<tx, opened, current, own>>
            /\ \/ /\ ~Savepoint /\ ~OwnTransaction /\ Goto(i, "insert")
                  /\ UNCHANGED <<saved, main, faults>>
               \/ /\ Savepoint /\ Open(current) /\ saved' = [saved EXCEPT ![i] = tx[current].writes]
                  /\ Goto(i, "insert") /\ UNCHANGED <<main, faults>>
               \/ /\ (Savepoint \/ OwnTransaction) /\ Reject(i) /\ saved' = saved
                  /\ Fault \/ faults' = faults
  <2>1. saved' \in [Row -> [Key -> Owner \cup {NoWrite}]]
    <3>1. Open(current) => tx[current].writes \in [Key -> Owner \cup {NoWrite}]
      BY Settings, Rows DEF TypeOK, Open, Tx
    <3> QED
      BY <1>3, <3>1 DEF TypeOK
  <2>2. PICK where \in {"insert", "rejected"} :
          /\ Goto(i, where)
          /\ main' = main \/ (main = "rows" /\ main' = "break" /\ where = "rejected")
          /\ where = "insert" => ~OwnTransaction
          /\ where = "rejected" => Savepoint \/ OwnTransaction
          /\ Fault \/ faults' = faults
    <3>1. Savepoint => ~OwnTransaction
      BY DEF Savepoint, OwnTransaction
    <3> QED
      BY <1>3, <3>1 DEF Reject
  <2>3. OwnTransaction => ~Open(current)
    <3>1. OwnTransaction => \A j \in Row : j # i => ~Active(j)
      BY <1>1, Alone, Settings
    <3> QED
      BY <1>1, <3>1 DEF OneIsOpen, OwnTransaction, InOrder, Active
  <2>4. Isolated'
    <3>1. pc'[i] = where /\ \A j \in Row : j # i => pc'[j] = pc[j]
      BY <1>1, <2>2, Move
    <3> QED
      BY <1>1, <1>3, <2>2, <3>1 DEF Isolated, OwnTransaction, Open, Duplicate, Applied, Seen
  <2>5. tx' \in [Tx -> [state : {"new", "open", "committed", "aborted"},
                        writes : [Key -> Owner \cup {NoWrite}]]]
        /\ db' \in [Key -> Owner] /\ err' \in [Row -> BOOLEAN]
    BY <1>1, <1>3 DEF TypeOK
  <2>6. ~Open(current)' <=> ~Open(current)
    BY <1>3 DEF Open
  <2>7. ~err'[i]
    BY <1>1 DEF Where
  <2>8. where = "rejected" /\ job.dryRun => Savepoint
    BY <2>2 DEF OwnTransaction
  <2>9. \A t \in Tx : (Open(t)' => Open(t)) /\ (t > opened => tx'[t] = tx[t])
    BY <1>3 DEF Open
  <2>10. Found' /\ doc' \in [Row -> Owner]
    <3>1. pc'[i] = where /\ \A j \in Row : j # i => pc'[j] = pc[j]
      BY <1>1, <2>2, Move
    <3>2. \A k \in Key : \A j \in Row : saved'[j][k] # Mixed
      <4>1. Open(current) => \A k \in Key : tx[current].writes[k] # Mixed
        BY Settings, Rows DEF Found, Open, Tx
      <4> QED
        BY <1>3, <4>1 DEF Found, TypeOK
    <3>3. \A k \in Key : \A t \in Tx : tx'[t].writes[k] # Mixed
      BY <1>3 DEF Found
    <3>4. (Usable' <=> Usable) /\ Seen(current)' = Seen(current)
      BY <1>1, <1>3 DEF Usable, Open, Seen
    <3> QED
      BY <1>1, <3>1, <3>2, <3>3, <3>4, FoundStays DEF TypeOK
  <2> QED
    BY <1>1, <1>3, <2>1, <2>2, <2>3, <2>4, <2>5, <2>6, <2>7, <2>8, <2>9, <2>10, Goes
<1> QED
  BY <1>1, <1>2, <1>3 DEF RowBegin

(* The transaction of a row shows the table as it is until the row writes. *)
LEMMA SeenClean ==
  ASSUME TypeOK, tx[current].writes = Clean
  PROVE  Seen(current) = db
<1>1. \A k \in Key : tx[current].writes[k] = NoWrite
  BY DEF Clean
<1>2. db \in [Key -> Owner]
  BY DEF TypeOK
<1> QED
  BY <1>1, <1>2 DEF Seen

LEMMA SeenNone == ASSUME TypeOK PROVE Seen(0) = db
<1>1. db \in [Key -> Owner]
  BY DEF TypeOK
<1> QED
  BY <1>1 DEF Seen

(* What a row writes to its transaction is what the next one sees there.   *)
WritesItself(i) == tx' = [tx EXCEPT ![current].writes[job.key[i]] = i]

LEMMA Rewritten ==
  ASSUME NEW S, NEW V, NEW r \in [state : S, writes : [Key -> V]], NEW k \in Key, NEW v
  PROVE  [r EXCEPT !.writes[k] = v] = [state |-> r.state, writes |-> [r.writes EXCEPT ![k] = v]]
OBVIOUS

LEMMA SeenWritten ==
  ASSUME TypeOK, NEW i \in Row, Open(current), UNCHANGED <<db, current>>, WritesItself(i)
  PROVE  /\ Seen(current)' = [Seen(current) EXCEPT ![job.key[i]] = i] /\ Open(current)'
         /\ tx' \in [Tx -> [state : {"new", "open", "committed", "aborted"},
                            writes : [Key -> Owner \cup {NoWrite}]]]
         /\ \A t \in Tx : tx'[t].state = tx[t].state
         /\ \A t \in Tx : t # current => tx'[t] = tx[t]
         /\ tx'[current].writes = [tx[current].writes EXCEPT ![job.key[i]] = i]
<1>1. /\ i \in Owner /\ i # NoWrite /\ i # Mixed
      /\ job.key[i] \in Key /\ current \in Tx /\ current # 0
  BY Settings, Rows DEF Open, Tx, Owner, NoWrite, Mixed
<1>2. \A t \in Tx : /\ tx[t].writes \in [Key -> Owner \cup {NoWrite}]
                    /\ tx[t] = [state |-> tx[t].state, writes |-> tx[t].writes]
                    /\ tx[t].state \in {"new", "open", "committed", "aborted"}
  BY DEF TypeOK
<1>3. DOMAIN tx = Tx
  BY DEF TypeOK
<1> DEFINE W == [tx[current].writes EXCEPT ![job.key[i]] = i]
<1>4. W \in [Key -> Owner \cup {NoWrite}]
  BY <1>1, <1>2
<1>5. tx' = [tx EXCEPT ![current] = [state |-> tx[current].state, writes |-> W]]
  <2>0. tx[current] \in [state : {"new", "open", "committed", "aborted"},
                         writes : [Key -> Owner \cup {NoWrite}]]
    BY <1>1 DEF TypeOK
  <2>1. [tx[current] EXCEPT !.writes[job.key[i]] = i]
          = [state |-> tx[current].state, writes |-> [tx[current].writes EXCEPT ![job.key[i]] = i]]
    BY <1>1, <2>0, Rewritten
  <2>2. tx' = [tx EXCEPT ![current] = [tx[current] EXCEPT !.writes[job.key[i]] = i]]
    BY <1>1, <1>3 DEF WritesItself
  <2> QED
    BY <2>1, <2>2
<1>6. \A k \in Key : W[k] = IF k = job.key[i] THEN i ELSE tx[current].writes[k]
  BY <1>1, <1>2
<1> HIDE DEF W
<1>7. /\ tx'[current] = [state |-> tx[current].state, writes |-> W]
      /\ \A t \in Tx : t # current => tx'[t] = tx[t]
      /\ DOMAIN tx' = Tx
  <2> DEFINE r == [state |-> tx[current].state, writes |-> W]
  <2>1. tx' = [tx EXCEPT ![current] = r]
    BY <1>5
  <2> HIDE DEF r
  <2>2. tx'[current] = r /\ (\A t \in Tx : t # current => tx'[t] = tx[t]) /\ DOMAIN tx' = Tx
    BY <1>1, <1>3, <2>1
  <2> QED
    BY <2>2 DEF r
<1>8. tx'[current] \in [state : {"new", "open", "committed", "aborted"},
                        writes : [Key -> Owner \cup {NoWrite}]]
  <2>1. tx[current].state \in {"new", "open", "committed", "aborted"}
    BY <1>1, <1>2
  <2>2. [state |-> tx[current].state, writes |-> W]
          \in [state : {"new", "open", "committed", "aborted"},
               writes : [Key -> Owner \cup {NoWrite}]]
    BY <1>4, <2>1
  <2> QED
    BY <1>7, <2>2, Zenon
<1>9. tx' \in [Tx -> [state : {"new", "open", "committed", "aborted"},
                      writes : [Key -> Owner \cup {NoWrite}]]]
  BY <1>1, <1>5, <1>7, <1>8 DEF TypeOK
<1>10. \A t \in Tx : tx'[t].state = tx[t].state
  BY <1>1, <1>7
<1>11. Seen(current)' = [k \in Key |-> IF k = job.key[i] THEN i ELSE Seen(current)[k]]
  <2>1. \A k \in Key : tx'[current].writes[k] = IF k = job.key[i] THEN i ELSE tx[current].writes[k]
    BY <1>6, <1>7
  <2>2. \A k \in Key : Seen(current)'[k] = IF k = job.key[i] THEN i ELSE Seen(current)[k]
    BY <1>1, <2>1 DEF Seen
  <2> QED
    BY <2>2 DEF Seen
<1>12. Seen(current)' = [Seen(current) EXCEPT ![job.key[i]] = i]
  BY <1>1, <1>11 DEF Seen
<1> QED
  BY <1>1, <1>7, <1>9, <1>10, <1>12 DEF Open, W

(* Rows under way have no transaction unless they run one at a time.       *)
LEMMA InNone ==
  ASSUME IInv, NEW i \in Row, Active(i),
         current = 0 \/ Limit # 1 \/ ~(job.dryRun \/ OwnTransaction),
         pc[i] \in {"insert", "write"}
  PROVE  /\ current = 0 /\ ~job.dryRun /\ ~OwnTransaction
         /\ ~job.useTransactionInsert
         /\ Limit # 1 => job.concurentInsert > 1
<1> USE DEF IInv
<1>1. current = 0 => ~job.dryRun /\ ~OwnTransaction
  BY DEF Counted, OwnDiffer
<1>2. ~job.dryRun /\ ~OwnTransaction
  BY <1>1, Settings
<1>3. opened = 0
  BY <1>2 DEF Counted
<1>4. current = 0
  BY <1>3, Settings
<1>5. ~job.useTransactionInsert
  BY <1>2, Zenon DEF OwnTransaction
<1>6. Limit = job.concurentInsert
  BY <1>2, <1>5, Zenon DEF Limit
<1>7. job.concurentInsert \in Nat \ {0}
  BY ConcurrencyAssumption DEF TypeOK, Job
<1> QED
  BY <1>2, <1>4, <1>5, <1>6, <1>7

(* A row that meets what it has found, or does not look, leaves itself.    *)
LEMMA LeavesItself ==
  ASSUME IInv, NEW i \in Row, pc[i] = IF job.mode = "update" THEN "write" ELSE "insert",
         Usable, Limit = 1
  PROVE  /\ Results(i) = {i}
         /\ Applied(Seen(current), i) = [Seen(current) EXCEPT ![job.key[i]] = i]
<1>1. CASE job.mode = "update"
  <2>1. doc[i] # Absent /\ doc[i] # Mixed /\ doc[i] = Seen(current)[job.key[i]]
    BY <1>1 DEF IInv, Found
  <2> QED
    BY <2>1 DEF Results, Applied
<1>2. CASE job.mode # "update"
  BY <1>2 DEF Results, Applied
<1> QED
  BY <1>1, <1>2

(* ... also in a table that rows write together, unless another one has    *)
(* its key; the table has a row at the key if the row has found one.       *)
LEMMA Leaves ==
  ASSUME IInv, NEW i \in Row, pc[i] = IF job.mode = "update" THEN "write" ELSE "insert",
         current = 0, NEW result \in Results(i)
  PROVE  /\ result \in Owner /\ result # Absent
         /\ result = i \/ (result = Mixed /\ job.mode = "update" /\ Limit # 1 /\ Shared(i))
         /\ job.mode = "update" => db[job.key[i]] # Absent
         /\ Applied(db, i) = [db EXCEPT ![job.key[i]] = i]
<1>1. i \in Owner /\ i # Absent /\ Mixed \in Owner /\ Mixed # Absent
  BY Rows DEF Owner, Mixed, Absent
<1>2. Seen(current) = db /\ Usable
  BY SeenNone DEF IInv, Usable
<1>3. CASE job.mode # "update"
  BY <1>1, <1>3 DEF Results, Applied
<1>4. CASE job.mode = "update"
  <2>1. pc[i] = "write" /\ doc[i] # Absent
    BY <1>4 DEF IInv, Found
  <2>2. CASE Limit = 1
    BY <1>1, <1>2, <1>4, <2>1, <2>2, LeavesItself DEF IInv, Found
  <2>3. CASE Limit # 1
    <3>1. db[job.key[i]] # Absent /\ (doc[i] = db[job.key[i]] \/ Shared(i))
          /\ (doc[i] = Mixed => Shared(i))
      BY <2>1, <2>3 DEF IInv, Found
    <3>2. result = i \/ (result = Mixed /\ Shared(i))
      BY <1>2, <3>1 DEF Results
    <3> QED
      BY <1>1, <1>4, <2>3, <3>1, <3>2 DEF Applied
  <2> QED
    BY <2>2, <2>3
<1> QED
  BY <1>3, <1>4

(* A row whose request has no transaction writes the table itself, and may *)
(* be refused nevertheless.                                                *)
LEMMA InsertAutocommit ==
  ASSUME IInv, NEW i \in Row, RowInsert(i), current = 0, Write(i),
         \/ Imported(i) /\ UNCHANGED <<err, faults>>
         \/ Refused(i) /\ Fault
  PROVE  IInv'
<1> USE DEF IInv
<1>1. /\ pc[i] = IF job.mode = "update" THEN "write" ELSE "insert"
      /\ doc' = [doc EXCEPT ![i] = Absent]
      /\ UNCHANGED <<job, opened, current, saved, main, found, own>>
  BY DEF RowInsert
<1>2. pc[i] \in {"insert", "write"} /\ Active(i)
  BY <1>1 DEF Active
<1>3. ~OwnTransaction /\ ~job.dryRun
  BY <1>2, InNone
<1>4. Goto(i, "done") /\ (Fault \/ faults' = faults)
  BY <1>3 DEF Imported, Refused
<1>5. pc'[i] = "done" /\ \A j \in Row : j # i => pc'[j] = pc[j]
  BY <1>2, <1>4, Move, <1>1
<1>6. PICK result \in Results(i) : db' = [db EXCEPT ![job.key[i]] = result] /\ UNCHANGED tx
  BY DEF Write
<1>7. /\ result \in Owner /\ result # Absent
      /\ result = Mixed => Limit # 1
  BY <1>1, <1>6, Leaves, Rows DEF Mixed
<1>8. job.key[i] \in Key /\ db \in [Key -> Owner] /\ db' \in [Key -> Owner]
      /\ \A k \in Key : db'[k] = IF k = job.key[i] THEN result ELSE db[k]
  BY <1>6, <1>7, Settings DEF TypeOK
<1>9. /\ tx' \in [Tx -> [state : {"new", "open", "committed", "aborted"},
                         writes : [Key -> Owner \cup {NoWrite}]]]
      /\ doc' \in [Row -> Owner] /\ \A j \in Row : j # i => doc'[j] = doc[j]
      /\ saved' \in [Row -> [Key -> Owner \cup {NoWrite}]]
  BY <1>1, <1>6 DEF TypeOK, Owner
<1>10. err' \in [Row -> BOOLEAN] /\ \A j \in Row : j # i => err'[j] = err[j]
  BY Zenon DEF TypeOK, Refused
<1>11. Isolated'
  <2>1. \A j \in Row : pc'[j] # "commit"
    BY <1>3, <1>5 DEF Where
  <2> QED
    BY <1>1, <1>3, <2>1 DEF Isolated, OwnTransaction
<1>12. Found'
  <2>1. \A k \in Key :
          /\ db'[k] = Mixed => Limit # 1 /\ \E j \in Row : pc'[j] = "done" /\ job.key[j] = k
          /\ \A t \in Tx : tx'[t].writes[k] # Mixed
          /\ \A j \in Row : saved'[j][k] # Mixed
    BY <1>1, <1>2, <1>5, <1>6, <1>7, <1>8 DEF Found
  <2>2. Limit' = Limit /\ \A j \in Row : Shared(j)' = Shared(j) /\ job.key[j] \in Key
    BY <1>1, Settings DEF Limit, Shared
  <2>3. ASSUME NEW j \in Row, pc'[j] = "write"
        PROVE  /\ Limit # 1 /\ job.mode = "update" /\ doc'[j] # Absent
               /\ doc'[j] = Mixed => Shared(j)
               /\ db'[job.key[j]] # Absent /\ (doc'[j] = db'[job.key[j]] \/ Shared(j))
    <3>1. j # i /\ pc[j] = "write" /\ doc'[j] = doc[j]
      BY <1>5, <1>9, <2>3
    <3>2. Limit # 1
      BY <1>2, <3>1 DEF InOrder, Active
    <3>3. job.key[j] = job.key[i] => Shared(j)
      BY <3>1 DEF Shared
    <3> QED
      BY <1>7, <1>8, <2>2, <3>1, <3>2, <3>3 DEF Found
  <2> QED
    BY <1>1, <2>1, <2>2, <2>3 DEF Found
<1>13. \A t \in Tx : (Open(t)' => Open(t)) /\ (t > opened => tx'[t] = tx[t])
  BY <1>6 DEF Open
<1> QED
  BY <1>1, <1>2, <1>3, <1>4, <1>8, <1>9, <1>10, <1>11, <1>12, <1>13, Goes

(* A row that runs alone leaves what the others have found, or will find.  *)
LEMMA FoundAlone ==
  ASSUME TypeOK, InOrder, Found, NEW i \in Row, Active(i), Limit = 1, UNCHANGED <<job, db, saved>>,
         \A j \in Row : j # i => pc'[j] = pc[j],
         pc'[i] # "write",
         \A k \in Key : \A t \in Tx : tx'[t].writes[k] # Mixed
  PROVE  Found'
<1>1. \A j \in Row : pc'[j] # "write"
  BY DEF InOrder, Active
<1>2. \A j \in Row : pc[j] = "done" => pc'[j] = "done"
  BY DEF Active
<1>3. \A k \in Key, j \in Row : saved'[j][k] # Mixed
  BY DEF Found
<1> QED
  BY <1>1, <1>2, <1>3, FoundStays

(* A row writes to the transaction that is open. *)
LEMMA InsertInTransaction ==
  ASSUME IInv, NEW i \in Row, RowInsert(i), Open(current), Write(i),
         Imported(i), UNCHANGED <<err, faults>>
  PROVE  IInv'
<1> USE DEF IInv
<1>1. /\ pc[i] = IF job.mode = "update" THEN "write" ELSE "insert"
      /\ doc' = [doc EXCEPT ![i] = Absent]
      /\ UNCHANGED <<job, opened, current, saved, main, found, own>>
  BY DEF RowInsert
<1>2. pc[i] \in {"insert", "write"} /\ Active(i) /\ current # 0 /\ Usable
  BY <1>1 DEF Active, Open, Usable
<1>3. Limit = 1
  BY <1>2, InNone
<1>4. Results(i) = {i} /\ Applied(Seen(current), i) = [Seen(current) EXCEPT ![job.key[i]] = i]
  BY <1>1, <1>2, <1>3, LeavesItself
<1>5. /\ WritesItself(i) /\ UNCHANGED db
      /\ ~Duplicate(Seen(current), i)
  BY <1>2, <1>4 DEF Write, WritesItself
<1>6. /\ Seen(current)' = Applied(Seen(current), i) /\ Open(current)'
      /\ tx' \in [Tx -> [state : {"new", "open", "committed", "aborted"},
                         writes : [Key -> Owner \cup {NoWrite}]]]
      /\ \A t \in Tx : tx'[t].state = tx[t].state
      /\ \A t \in Tx : t # current => tx'[t] = tx[t]
      /\ tx'[current].writes = [tx[current].writes EXCEPT ![job.key[i]] = i]
  BY <1>1, <1>4, <1>5, SeenWritten
<1>7. PICK where \in {"commit", "done"} :
        Goto(i, where) /\ (where = "commit" <=> OwnTransaction)
  BY DEF Imported
<1>8. pc'[i] = where /\ \A j \in Row : j # i => pc'[j] = pc[j]
  BY <1>1, <1>2, <1>7, Move
<1>9. Isolated'
  <2>1. CASE OwnTransaction
    <3>1. \A j \in Row : pc'[j] \in {"insert", "write", "commit"} => j = i
      BY <1>2, <1>8, <2>1, Alone, Settings DEF Active
    <3>2. Seen(current) = db
      BY <1>2, <2>1, SeenClean DEF Isolated
    <3>3. ~Duplicate(db, i)' /\ Seen(current)' = Applied(db, i)'
      BY <1>1, <1>5, <1>6, <3>2 DEF Duplicate, Applied
    <3> QED
      BY <1>1, <1>6, <1>7, <1>8, <2>1, <3>1, <3>3 DEF Isolated
  <2>2. CASE ~OwnTransaction
    <3>1. \A j \in Row : pc'[j] # "commit"
      BY <1>7, <1>8, <2>2 DEF Where
    <3> QED
      BY <1>1, <2>2, <3>1 DEF Isolated, OwnTransaction
  <2> QED
    BY <2>1, <2>2
<1>10. Found'
  <2>1. \A t \in Tx, k \in Key : tx[t].writes[k] # Mixed /\ i # Mixed
    BY Rows DEF Found, Mixed
  <2>2. current \in Tx /\ tx[current].writes \in [Key -> Owner \cup {NoWrite}]
    BY <1>2, Settings, Rows DEF Tx, TypeOK
  <2>3. \A t \in Tx, k \in Key : tx'[t].writes[k] # Mixed
    BY <1>6, <2>1, <2>2
  <2> QED
    BY <1>1, <1>2, <1>3, <1>5, <1>7, <1>8, <2>3, FoundAlone
<1>11. /\ db' \in [Key -> Owner] /\ err' \in [Row -> BOOLEAN] /\ doc' \in [Row -> Owner]
       /\ saved' \in [Row -> [Key -> Owner \cup {NoWrite}]]
  BY <1>1, <1>5 DEF TypeOK, Owner
<1>12. ~err'[i]
  BY <1>2 DEF Where
<1>13. \A t \in Tx : (Open(t)' => Open(t)) /\ (t > opened => tx'[t] = tx[t])
  BY <1>6, Settings, Rows DEF Open, Tx
<1> QED
  BY <1>1, <1>2, <1>6, <1>7, <1>9, <1>10, <1>11, <1>12, <1>13, Goes

(* A row that is refused notes its error. *)
LEMMA RefusedInv ==
  ASSUME IInv, NEW i \in Row, pc[i] \in {"insert", "write"}, Refused(i),
         UNCHANGED <<job, opened, current, saved, main, found, own, db, tx>>,
         Fault \/ faults' = faults,
         doc' \in [Row -> Owner], \A j \in Row : j # i => doc'[j] = doc[j]
  PROVE  IInv'
<1> USE DEF IInv
<1>1. Active(i)
  BY DEF Active
<1>2. PICK where \in {"undo", "done"} :
        Goto(i, where) /\ (where = "undo" <=> job.dryRun \/ OwnTransaction)
  BY DEF Refused
<1>3. pc'[i] = where /\ \A j \in Row : j # i => pc'[j] = pc[j]
  BY <1>1, <1>2, Move
<1>4. err' \in [Row -> BOOLEAN] /\ err'[i] /\ \A j \in Row : j # i => err'[j] = err[j]
  BY Zenon DEF TypeOK, Refused
<1>5. /\ tx' \in [Tx -> [state : {"new", "open", "committed", "aborted"},
                         writes : [Key -> Owner \cup {NoWrite}]]]
      /\ db' \in [Key -> Owner] /\ saved' \in [Row -> [Key -> Owner \cup {NoWrite}]]
  BY DEF TypeOK
<1>6. Isolated'
  <2>1. \A j \in Row : pc'[j] \in {"insert", "write", "commit"} => pc[j] = pc'[j]
    BY <1>3
  <2> QED
    BY <2>1 DEF Isolated, OwnTransaction, Open, Duplicate, Applied, Seen
<1>7. Found'
  <2>1. \A k \in Key : /\ \A t \in Tx : tx'[t].writes[k] # Mixed
                       /\ \A j \in Row : saved'[j][k] # Mixed
    BY DEF Found
  <2>2. (Usable' <=> Usable) /\ Seen(current)' = Seen(current)
    BY DEF Usable, Open, Seen
  <2> QED
    BY <1>1, <1>3, <2>1, <2>2, FoundStays DEF Active
<1>8. \A t \in Tx : (Open(t)' => Open(t)) /\ (t > opened => tx'[t] = tx[t])
  BY DEF Open
<1> QED
  BY <1>1, <1>2, <1>4, <1>5, <1>6, <1>7, <1>8, Goes

LEMMA RowInsertInv == ASSUME IInv, NEW i \in Row, RowInsert(i) PROVE IInv'
<1>1. /\ pc[i] = IF job.mode = "update" THEN "write" ELSE "insert"
      /\ doc' = [doc EXCEPT ![i] = Absent]
      /\ UNCHANGED <<job, opened, current, saved, main, found, own>>
      /\ \/ Usable /\ Write(i) /\ Imported(i) /\ UNCHANGED <<err, faults>>
         \/ /\ \/ UNCHANGED <<db, tx>> /\ (Fault \/ faults' = faults)
               \/ Fault /\ current = 0 /\ Write(i)
            /\ Refused(i)
  BY DEF RowInsert
<1>2. CASE Usable /\ Write(i) /\ Imported(i) /\ UNCHANGED <<err, faults>>
  BY <1>2, InsertAutocommit, InsertInTransaction DEF Usable
<1>3. CASE Fault /\ current = 0 /\ Write(i) /\ Refused(i)
  BY <1>3, InsertAutocommit
<1>4. CASE UNCHANGED <<db, tx>> /\ (Fault \/ faults' = faults) /\ Refused(i)
  <2>1. doc' \in [Row -> Owner] /\ \A j \in Row : j # i => doc'[j] = doc[j]
    BY <1>1 DEF IInv, TypeOK, Owner
  <2> QED
    BY <1>1, <1>4, <2>1, RefusedInv
<1> QED
  BY <1>1, <1>2, <1>3, <1>4

(* A row that is to update looks for the row of the table first.           *)
LEMMA RowFindInv == ASSUME IInv, NEW i \in Row, RowFind(i) PROVE IInv'
<1> USE DEF IInv
<1>1. /\ pc[i] = "insert" /\ Active(i) /\ job.mode = "update" /\ ~err[i]
      /\ UNCHANGED <<job, db, tx, opened, current, saved, main, found, own>>
  BY DEF RowFind, Active, Where
<1>2. CASE Refused(i) /\ UNCHANGED doc /\ (Fault \/ faults' = faults)
  BY <1>1, <1>2, RefusedInv DEF TypeOK
<1>3. CASE /\ Usable /\ doc' = [doc EXCEPT ![i] = Seen(current)[job.key[i]]]
           /\ IF Seen(current)[job.key[i]] = Absent THEN Imported(i) ELSE Goto(i, "write")
           /\ UNCHANGED <<err, faults>>
  <2> DEFINE stored == Seen(current)[job.key[i]]
  <2>1. PICK where \in {"commit", "done", "write"} :
          /\ Goto(i, where)
          /\ where = "write" <=> stored # Absent
          /\ where = "commit" => OwnTransaction
          /\ where = "done" => ~OwnTransaction
    BY <1>3 DEF Imported
  <2>2. pc'[i] = where /\ \A j \in Row : j # i => pc'[j] = pc[j]
    BY <1>1, <2>1, Move
  <2>3. stored \in Owner /\ job.key[i] \in Key
    BY SeenType, Settings
  <2>4. doc' \in [Row -> Owner] /\ doc'[i] = stored /\ \A j \in Row : j # i => doc'[j] = doc[j]
    BY <1>3, <2>3 DEF TypeOK
  <2>5. Seen(current)' = Seen(current) /\ (Usable' <=> Usable)
    BY <1>1 DEF Seen, Usable, Open
  <2>6. Isolated'
    <3>1. CASE OwnTransaction
      <4>1. \A j \in Row : pc'[j] \in {"insert", "write", "commit"} => j = i
        BY <1>1, <2>2, <3>1, Alone, Settings DEF Active
      <4>2. tx[current].writes = Clean /\ Seen(current) = db
        BY <1>1, <3>1, SeenClean DEF Isolated
      <4>3. Open(current)
        BY <1>1, <1>3, <3>1 DEF Usable, OwnDiffer
      <4>4. where = "commit" => ~Duplicate(db, i) /\ Seen(current) = Applied(db, i)
        BY <1>1, <2>1, <4>2 DEF Duplicate, Applied
      <4> QED
        BY <1>1, <2>2, <2>5, <4>1, <4>2, <4>3, <4>4 DEF Isolated, Open, Duplicate, Applied
    <3>2. CASE ~OwnTransaction
      <4>1. \A j \in Row : pc'[j] # "commit"
        BY <2>1, <2>2, <3>2 DEF Where
      <4> QED
        BY <1>1, <3>2, <4>1 DEF Isolated, OwnTransaction
    <3> QED
      BY <3>1, <3>2
  <2>7. Found'
    <3>1. \A k \in Key : /\ db'[k] = Mixed => /\ Limit # 1
                                              /\ \E j \in Row : pc'[j] = "done" /\ job.key[j] = k
                         /\ \A t \in Tx : tx'[t].writes[k] # Mixed
                         /\ \A j \in Row : saved'[j][k] # Mixed
      BY <1>1, <2>2 DEF Found
    <3>2. Limit' = Limit /\ \A j \in Row : Shared(j)' = Shared(j)
      BY <1>1 DEF Limit, Shared
    <3>3. stored = Mixed => Limit # 1 /\ Shared(i)
      <4>1. current # 0 => current \in Tx
        BY Settings, Rows DEF Tx
      <4>2. stored = Mixed => db[job.key[i]] = Mixed
        BY <2>3, <4>1 DEF Seen, Found
      <4> QED
        BY <1>1, <2>3, <4>2 DEF Found, Shared
    <3>4. Limit # 1 => stored = db[job.key[i]]
      BY <1>1, InNone, SeenNone
    <3>5. ASSUME NEW j \in Row, pc'[j] = "write"
          PROVE  /\ job.mode = "update" /\ doc'[j] # Absent
                 /\ doc'[j] = Mixed => Limit # 1 /\ Shared(j)
                 /\ Limit = 1 /\ Usable => doc'[j] = Seen(current)[job.key[j]]
                 /\ Limit # 1 => db[job.key[j]] # Absent /\ (doc'[j] = db[job.key[j]] \/ Shared(j))
      <4>1. CASE j = i
        BY <1>1, <2>1, <2>2, <2>4, <3>3, <3>4, <3>5, <4>1
      <4>2. CASE j # i
        BY <2>2, <2>4, <3>5, <4>2 DEF Found
      <4> QED
        BY <4>1, <4>2
    <3> QED
      BY <1>1, <2>5, <3>1, <3>2, <3>5 DEF Found
  <2>8. /\ db' \in [Key -> Owner] /\ err' \in [Row -> BOOLEAN]
        /\ saved' \in [Row -> [Key -> Owner \cup {NoWrite}]]
        /\ tx' \in [Tx -> [state : {"new", "open", "committed", "aborted"},
                           writes : [Key -> Owner \cup {NoWrite}]]]
    BY <1>1, <1>3 DEF TypeOK
  <2>9. \A t \in Tx : (Open(t)' => Open(t)) /\ (t > opened => tx'[t] = tx[t])
    BY <1>1 DEF Open
  <2>10. ~err'[i]
    BY <1>1, <1>3
  <2> QED
    BY <1>1, <1>3, <2>1, <2>4, <2>6, <2>7, <2>8, <2>9, <2>10, Goes
<1> QED
  BY <1>2, <1>3 DEF RowFind

(* A transaction that ends is not open any more, and nothing else changes. *)
LEMMA Closed ==
  ASSUME TypeOK, current' = current,
         Abort(current) \/ tx' = [tx EXCEPT ![current].state = "committed"]
  PROVE  /\ tx' \in [Tx -> [state : {"new", "open", "committed", "aborted"},
                            writes : [Key -> Owner \cup {NoWrite}]]]
         /\ ~Open(current)'
         /\ \A t \in Tx : t # current => tx'[t] = tx[t]
         /\ \A t \in Tx : (Open(t)' => Open(t)) /\ (t > opened => tx'[t] = tx[t])
<1>1. /\ tx' \in [Tx -> [state : {"new", "open", "committed", "aborted"},
                         writes : [Key -> Owner \cup {NoWrite}]]]
      /\ \A t \in Tx : t # current => tx'[t] = tx[t]
      /\ \A t \in Tx : t = current => tx'[t].state \in {"committed", "aborted"}
  BY AbortType, CommitType
<1>2. current # 0 => current \in Tx
  BY Settings, Rows DEF Tx
<1>3. ~Open(current)'
  BY <1>1, <1>2 DEF Open
<1>4. \A t \in Tx : t > opened => t # current
  BY Settings, Rows DEF Tx
<1>5. \A t \in Tx : Open(t)' => Open(t)
  BY <1>1 DEF Open
<1> QED
  BY <1>1, <1>3, <1>4, <1>5

LEMMA RowCommitInv == ASSUME IInv, NEW i \in Row, RowCommit(i) PROVE IInv'
<1> USE DEF IInv
<1>1. /\ pc[i] = "commit" /\ Active(i) /\ OwnTransaction /\ ~err[i]
      /\ UNCHANGED <<job, opened, current, err, doc, saved, found, own>>
  BY DEF RowCommit, Active, Where
<1>2. PICK where \in {"done", "rejected"} :
        /\ Goto(i, where)
        /\ main' = main \/ (main = "rows" /\ main' = "break")
        /\ main' # main => where = "rejected"
        /\ Fault \/ faults' = faults
        /\ db' = Seen(current) \/ db' = db
        /\ Abort(current) \/ tx' = [tx EXCEPT ![current].state = "committed"]
  BY DEF RowCommit, Reject
<1>3. db' \in [Key -> Owner]
  BY <1>2, SeenType DEF TypeOK
<1>4. err' \in [Row -> BOOLEAN] /\ saved' \in [Row -> [Key -> Owner \cup {NoWrite}]]
  BY <1>1 DEF TypeOK
<1>5. /\ tx' \in [Tx -> [state : {"new", "open", "committed", "aborted"},
                         writes : [Key -> Owner \cup {NoWrite}]]]
      /\ ~Open(current)'
      /\ \A t \in Tx : (Open(t)' => Open(t)) /\ (t > opened => tx'[t] = tx[t])
  BY <1>1, <1>2, Closed
<1>6. Isolated'
  <2>1. pc'[i] = where /\ \A j \in Row : j # i => pc'[j] = pc[j]
    BY <1>1, <1>2, Move
  <2>2. \A j \in Row : pc'[j] \notin {"insert", "write", "commit"}
    BY <1>1, <2>1, Alone, Settings DEF Active
  <2> QED
    BY <2>2 DEF Isolated
<1>7. ~job.dryRun
  BY <1>1 DEF OwnTransaction
<1>8. Found' /\ doc' \in [Row -> Owner]
  <2>1. pc'[i] = where /\ \A j \in Row : j # i => pc'[j] = pc[j]
    BY <1>1, <1>2, Move
  <2>2. Limit = 1 /\ \A j \in Row : pc'[j] # "write"
    BY <1>1, <2>1, Alone, Settings DEF Active
  <2>3. \A k \in Key : db[k] # Mixed /\ \A t \in Tx : tx[t].writes[k] # Mixed
    BY <2>2 DEF Found
  <2>4. current # 0 => current \in Tx
    BY Settings, Rows DEF Tx
  <2>5. \A k \in Key : db'[k] # Mixed
    BY <1>2, <2>3, <2>4 DEF Seen
  <2>6. \A k \in Key, t \in Tx : tx'[t].writes[k] # Mixed
    <3>1. \A k \in Key : Clean[k] # Mixed
      BY DEF Clean, NoWrite, Mixed
    <3>2. CASE Abort(current)
      BY <2>3, <3>1, <3>2, AbortType
    <3>3. CASE tx' = [tx EXCEPT ![current].state = "committed"]
      BY <2>3, <3>3, CommitType
    <3> QED
      BY <1>2, <3>2, <3>3
  <2> QED
    BY <1>1, <2>2, <2>5, <2>6 DEF Found, TypeOK
<1> QED
  BY <1>1, <1>2, <1>3, <1>4, <1>5, <1>6, <1>7, <1>8, Goes

LEMMA RowUndoInv == ASSUME IInv, NEW i \in Row, RowUndo(i) PROVE IInv'
<1> USE DEF IInv
<1>1. /\ pc[i] = "undo" /\ Active(i) /\ (job.dryRun \/ OwnTransaction) /\ err[i]
      /\ UNCHANGED <<job, db, opened, current, err, doc, saved, found, own>>
  BY DEF RowUndo, Active, Where
<1>2. Savepoint => job.dryRun /\ ~OwnTransaction
  BY DEF Savepoint, OwnTransaction
<1>3. PICK where \in {"done", "restart", "rejected"} :
        /\ Goto(i, where)
        /\ main' = main \/ (main = "rows" /\ main' = "break")
        /\ main' # main => where = "rejected"
        /\ Fault \/ faults' = faults
        /\ where = "restart" => Open(current) /\ job.dryRun /\ ~Savepoint
        /\ \/ tx' = tx /\ (Savepoint \/ ~Open(current))
           \/ Open(current) /\ Savepoint /\ tx' = [tx EXCEPT ![current].writes = saved[i]]
           \/ ~Savepoint /\ Abort(current)
  BY <1>1 DEF RowUndo, Reject
<1>4. /\ db' \in [Key -> Owner] /\ err' \in [Row -> BOOLEAN]
      /\ saved' \in [Row -> [Key -> Owner \cup {NoWrite}]]
  BY <1>1 DEF TypeOK
<1>5. /\ tx' \in [Tx -> [state : {"new", "open", "committed", "aborted"},
                         writes : [Key -> Owner \cup {NoWrite}]]]
      /\ Savepoint \/ ~Open(current)'
      /\ \A t \in Tx : (Open(t)' => Open(t)) /\ (t > opened => tx'[t] = tx[t])
  <2>1. CASE tx' = tx /\ (Savepoint \/ ~Open(current))
    BY <1>1, <2>1 DEF TypeOK, Open
  <2>2. CASE Open(current) /\ Savepoint /\ tx' = [tx EXCEPT ![current].writes = saved[i]]
    <3>1. current \in Tx
      BY <2>2, Settings, Rows DEF Open, Tx
    <3>2. /\ tx' \in [Tx -> [state : {"new", "open", "committed", "aborted"},
                             writes : [Key -> Owner \cup {NoWrite}]]]
          /\ \A t \in Tx : tx'[t].state = tx[t].state
          /\ \A t \in Tx : t # current => tx'[t] = tx[t]
      BY <2>2, <3>1 DEF TypeOK
    <3> QED
      BY <2>2, <3>1, <3>2, Settings, Rows DEF Open, Tx
  <2>3. CASE ~Savepoint /\ Abort(current)
    BY <1>1, <2>3, Closed
  <2> QED
    BY <1>3, <2>1, <2>2, <2>3
<1>6. Isolated'
  <2>1. pc'[i] = where /\ \A j \in Row : j # i => pc'[j] = pc[j]
    BY <1>1, <1>3, Move
  <2>2. \A j \in Row : pc'[j] \notin {"insert", "write", "commit"}
    BY <1>1, <2>1, Alone, Settings DEF Active
  <2> QED
    BY <2>2 DEF Isolated
<1>7. where = "restart" => main = "rows"
  <2>1. main # "end"
    BY <1>1 DEF InOrder
  <2> QED
    BY <1>3, <2>1 DEF OneIsOpen, OwnTransaction
<1>8. Found' /\ doc' \in [Row -> Owner]
  <2>1. pc'[i] = where /\ \A j \in Row : j # i => pc'[j] = pc[j]
    BY <1>1, <1>3, Move
  <2>2. \A j \in Row : pc'[j] # "write"
    BY <1>1, <2>1, Alone, Settings DEF Active
  <2>3. \A k \in Key : /\ \A t \in Tx : tx[t].writes[k] # Mixed
                       /\ \A j \in Row : saved[j][k] # Mixed
    BY DEF Found
  <2>4. \A k \in Key, t \in Tx : tx'[t].writes[k] # Mixed
    <3>1. \A k \in Key : Clean[k] # Mixed
      BY DEF Clean, NoWrite, Mixed
    <3>2. CASE Abort(current)
      BY <2>3, <3>1, <3>2, AbortType
    <3>3. CASE Open(current) /\ tx' = [tx EXCEPT ![current].writes = saved[i]]
      <4>1. \A t \in Tx : tx'[t].writes = IF t = current THEN saved[i] ELSE tx[t].writes
        BY <3>3 DEF TypeOK
      <4> QED
        BY <2>3, <4>1
    <3>4. CASE tx' = tx
      BY <2>3, <3>4
    <3> QED
      BY <1>3, <3>2, <3>3, <3>4
  <2> QED
    BY <1>1, <2>1, <2>2, <2>3, <2>4, FoundStays DEF TypeOK
<1> QED
  BY <1>1, <1>2, <1>3, <1>4, <1>5, <1>6, <1>7, <1>8, Goes

LEMMA RowRestartInv == ASSUME IInv, NEW i \in Row, RowRestart(i) PROVE IInv'
<1> USE DEF IInv
<1>1. /\ pc[i] = "restart" /\ Active(i) /\ job.dryRun /\ ~Savepoint /\ main = "rows" /\ err[i]
      /\ ~Open(current) /\ ~OwnTransaction
      /\ UNCHANGED <<job, db, err, doc, saved, found, own>>
  BY DEF RowRestart, Active, Where, OneIsOpen, OwnTransaction
<1>2. opened <= i /\ opened <= N
  BY <1>1, Settings, Rows DEF Counted
<1>3. \A j \in Row : j # i => /\ ~Active(j)
                              /\ j < i => pc[j] \in {"done", "rejected"}
  BY <1>1, Alone, Settings
<1>4. CASE Start /\ Goto(i, "done") /\ UNCHANGED <<main, faults>>
  <2>1. /\ InOrder'
        /\ pc' \in [Row -> {"new", "queued", "begin", "insert", "write", "commit", "undo",
                            "restart", "done", "rejected"}]
        /\ pc'[i] = "done" /\ \A j \in Row : j # i => pc'[j] = pc[j]
    BY <1>1, <1>4, Move
  <2>2. opened' = opened + 1 /\ current' = opened + 1
    BY <1>2, <1>4, StartType
  <2>3. TypeOK'
    <3>1. /\ tx' \in [Tx -> [state : {"new", "open", "committed", "aborted"},
                             writes : [Key -> Owner \cup {NoWrite}]]]
          /\ opened' \in {0} \cup Tx /\ current' \in 0 .. opened'
      BY <1>2, <1>4, StartType
    <3> QED
      BY <1>1, <1>4, <2>1, <3>1 DEF TypeOK
  <2>4. \A j \in Row : pc'[j] \notin {"insert", "write", "commit", "undo", "restart", "begin"}
    BY <1>3, <2>1 DEF Active
  <2>5. Where'
    BY <2>4 DEF Where
  <2>6. Counted'
    <3>1. \A j \in Row : pc'[j] \notin {"done", "rejected"} => opened' <= j
      BY <1>2, <1>3, <2>1, <2>2, Settings, Rows
    <3>2. current' # 0
      BY <2>2, Settings
    <3> QED
      BY <1>1, <1>4, <3>1, <3>2 DEF Counted, OwnTransaction
  <2>7. OneIsOpen'
    <3>1. \A t \in Tx : ~Open(t)
      BY <1>1 DEF OneIsOpen
    <3> QED
      BY <1>1, <1>2, <1>4, <2>4, <3>1, StartOpens DEF OneIsOpen
  <2>8. OwnDiffer'
    <3>1. \A j \in Row : own[j] \in Nat /\ own[j] <= opened
      BY Rows DEF OwnDiffer, TypeOK, Tx
    <3> QED
      BY <1>1, <2>2, <2>4, <3>1, Settings DEF OwnDiffer
  <2>9. Isolated'
    BY <2>4 DEF Isolated
  <2>10. Found'
    <3>1. \A t \in Tx : tx'[t].writes = tx[t].writes
      BY <1>2, <1>4, StartType
    <3>2. \A k \in Key : /\ \A t \in Tx : tx'[t].writes[k] # Mixed
                         /\ \A j \in Row : saved'[j][k] # Mixed
      BY <1>1, <3>1 DEF Found
    <3>3. \A j \in Row : pc'[j] # "write"
      BY <1>3, <2>1 DEF Active
    <3> QED
      BY <1>1, <2>1, <3>2, <3>3, FoundStays
  <2> QED
    BY <2>1, <2>3, <2>5, <2>6, <2>7, <2>8, <2>9, <2>10
<1>5. CASE Fault /\ Reject(i) /\ UNCHANGED <<tx, opened, current>>
  <2>1. Goto(i, "rejected") /\ main' = "break"
    BY <1>1, <1>5 DEF Reject
  <2>2. /\ db' \in [Key -> Owner] /\ err' \in [Row -> BOOLEAN]
        /\ saved' \in [Row -> [Key -> Owner \cup {NoWrite}]]
        /\ tx' \in [Tx -> [state : {"new", "open", "committed", "aborted"},
                           writes : [Key -> Owner \cup {NoWrite}]]]
    BY <1>1, <1>5 DEF TypeOK
  <2>3. ~Open(current)' /\ \A t \in Tx : (Open(t)' => Open(t)) /\ (t > opened => tx'[t] = tx[t])
    BY <1>1, <1>5 DEF Open
  <2>4. Isolated'
    <3>1. pc'[i] = "rejected" /\ \A j \in Row : j # i => pc'[j] = pc[j]
      BY <1>1, <2>1, Move
    <3> QED
      BY <1>3, <3>1 DEF Isolated, Active
  <2>5. Found' /\ doc' \in [Row -> Owner]
    <3>1. pc'[i] = "rejected" /\ \A j \in Row : j # i => pc'[j] = pc[j]
      BY <1>1, <2>1, Move
    <3>2. \A j \in Row : pc'[j] # "write"
      BY <1>3, <3>1 DEF Active
    <3>3. \A k \in Key : /\ \A t \in Tx : tx'[t].writes[k] # Mixed
                         /\ \A j \in Row : saved'[j][k] # Mixed
      BY <1>1, <1>5 DEF Found
    <3> QED
      BY <1>1, <3>1, <3>2, <3>3, FoundStays DEF TypeOK
  <2> QED
    BY <1>1, <1>5, <2>1, <2>2, <2>3, <2>4, <2>5, Goes
<1> QED
  BY <1>4, <1>5 DEF RowRestart

LEMMA RequestBeginInv == IInv /\ RequestBegin => IInv'
<1> SUFFICES ASSUME IInv, RequestBegin PROVE IInv'
  OBVIOUS
<1> USE DEF IInv
<1>1. /\ main = "rows" /\ main' \in {"end", "failed"}
      /\ \A j \in Row : pc[j] = "done"
      /\ UNCHANGED <<job, db, pc, err, doc, saved, found, own>>
  BY DEF RequestBegin
<1>2. faults' \in 0 .. MaxFault
  BY FaultType DEF RequestBegin
<1>3. InOrder' /\ Where' /\ Isolated'
  <2>1. InOrder'
    BY <1>1 DEF InOrder, Active
  <2> QED
    BY <1>1, <2>1 DEF Where, Isolated
<1>0. ASSUME \A t \in Tx : tx'[t].writes = tx[t].writes
      PROVE  Found'
  <2>1. \A k \in Key : /\ \A t \in Tx : tx'[t].writes[k] # Mixed
                       /\ \A j \in Row : saved'[j][k] # Mixed
    BY <1>0, <1>1 DEF Found
  <2> QED
    BY <1>1, <2>1, FoundStays
<1>4. CASE ~job.dryRun /\ Start /\ main' = "end"
  <2>1. opened <= N
    BY <1>1, <1>4 DEF Counted
  <2>2. opened' = opened + 1
    BY <1>4, <2>1, StartType
  <2>3. TypeOK'
    <3>1. /\ tx' \in [Tx -> [state : {"new", "open", "committed", "aborted"},
                             writes : [Key -> Owner \cup {NoWrite}]]]
          /\ opened' \in {0} \cup Tx /\ current' \in 0 .. opened'
      BY <1>4, <2>1, StartType
    <3> QED
      BY <1>1, <1>2, <3>1 DEF TypeOK
  <2>4. Counted'
    BY <1>1, <1>4 DEF Counted, OwnTransaction
  <2>5. OneIsOpen'
    <3>1. \A t \in Tx : ~Open(t)
      BY <1>1, <1>4 DEF OneIsOpen
    <3> QED
      BY <1>1, <1>4, <2>1, <3>1, StartOpens DEF OneIsOpen
  <2>6. OwnDiffer'
    <3>1. \A j \in Row : own[j] \in Nat /\ own[j] <= opened
      BY Rows DEF OwnDiffer, TypeOK, Tx
    <3> QED
      BY <1>1, <2>2, <3>1, Settings DEF OwnDiffer
  <2>7. Found'
    BY <1>0, <1>4, <2>1, StartType
  <2> QED
    BY <1>3, <2>3, <2>4, <2>5, <2>6, <2>7
<1>5. CASE UNCHANGED <<tx, opened, current>> /\ (~job.dryRun => main' = "failed")
           /\ (job.dryRun => main' = "end")
  <2>1. TypeOK'
    BY <1>1, <1>2, <1>5 DEF TypeOK
  <2>2. Counted' /\ OwnDiffer'
    BY <1>1, <1>5 DEF Counted, OwnDiffer, OwnTransaction
  <2>3. OneIsOpen'
    BY <1>1, <1>5 DEF OneIsOpen, Open, OwnTransaction
  <2>4. Found'
    BY <1>0, <1>5
  <2> QED
    BY <1>3, <2>1, <2>2, <2>3, <2>4
<1> QED
  BY <1>4, <1>5 DEF RequestBegin

LEMMA RequestEndInv == IInv /\ RequestEnd => IInv'
<1> SUFFICES ASSUME IInv, RequestEnd PROVE IInv'
  OBVIOUS
<1> USE DEF IInv
<1>1. /\ main = "end" /\ main' \in {"answered", "failed"}
      /\ Abort(current) \/ tx' = [tx EXCEPT ![current].state = "committed"]
      /\ UNCHANGED <<job, db, opened, current, pc, err, doc, saved, found, own>>
  BY DEF RequestEnd
<1>2. \A j \in Row : pc[j] = "done"
  BY <1>1 DEF InOrder
<1>3. faults' \in 0 .. MaxFault
  BY FaultType DEF RequestEnd
<1>4. /\ tx' \in [Tx -> [state : {"new", "open", "committed", "aborted"},
                         writes : [Key -> Owner \cup {NoWrite}]]]
      /\ ~Open(current)'
      /\ \A t \in Tx : (Open(t)' => Open(t)) /\ (t > opened => tx'[t] = tx[t])
  BY <1>1, Closed
<1>5. TypeOK'
  BY <1>1, <1>3, <1>4 DEF TypeOK
<1>6. InOrder'
  BY <1>1, <1>2 DEF InOrder, Active
<1>7. Where' /\ Isolated'
  BY <1>1, <1>2 DEF Where, Isolated
<1>8. Counted' /\ OwnDiffer'
  BY <1>1, <1>2 DEF Counted, OwnDiffer, OwnTransaction
<1>9. OneIsOpen'
  BY <1>1, <1>2, <1>4 DEF OneIsOpen
<1>10. Found'
  <2>1. \A k \in Key, t \in Tx : tx'[t].writes[k] # Mixed
    <3>1. \A k \in Key : Clean[k] # Mixed /\ \A t \in Tx : tx[t].writes[k] # Mixed
      BY DEF Found, Clean, NoWrite, Mixed
    <3>2. CASE Abort(current)
      BY <3>1, <3>2, AbortType
    <3>3. CASE tx' = [tx EXCEPT ![current].state = "committed"]
      BY <3>1, <3>3, CommitType
    <3> QED
      BY <1>1, <3>2, <3>3
  <2>2. \A k \in Key, j \in Row : saved'[j][k] # Mixed
    BY <1>1 DEF Found
  <2> QED
    BY <1>1, <1>2, <2>1, <2>2, FoundStays
<1> QED
  BY <1>5, <1>6, <1>7, <1>8, <1>9, <1>10

LEMMA RequestBreakInv == IInv /\ RequestBreak => IInv'
<1> SUFFICES ASSUME IInv, RequestBreak PROVE IInv'
  OBVIOUS
<1> USE DEF IInv
<1>1. /\ main = "break" /\ main' = "failed"
      /\ UNCHANGED <<job, db, opened, current, pc, err, doc, saved, faults, found, own>>
  BY DEF RequestBreak
<1>2. /\ tx' \in [Tx -> [state : {"new", "open", "committed", "aborted"},
                         writes : [Key -> Owner \cup {NoWrite}]]]
      /\ \A t \in Tx : (Open(t)' => Open(t)) /\ (t > opened => tx'[t] = tx[t])
      /\ job.dryRun => ~Open(current)'
      /\ ~job.dryRun => tx' = tx
  <2>1. CASE job.dryRun /\ Open(current) /\ Abort(current)
    BY <1>1, <2>1, Closed
  <2>2. CASE tx' = tx /\ ~(job.dryRun /\ Open(current))
    BY <1>1, <2>2 DEF Open, TypeOK
  <2> QED
    BY <2>1, <2>2 DEF RequestBreak
<1>3. TypeOK'
  BY <1>1, <1>2 DEF TypeOK
<1>4. InOrder'
  BY <1>1 DEF InOrder, Active, Limit
<1>5. Where'
  BY <1>1 DEF Where, OwnTransaction, Savepoint
<1>6. Counted' /\ OwnDiffer'
  BY <1>1 DEF Counted, OwnDiffer, OwnTransaction
<1>7. OneIsOpen'
  <2>1. \A j \in Row : pc'[j] # "restart"
    BY <1>1 DEF Where
  <2>2. Open(current)' => ~job.dryRun /\ Open(current)
    BY <1>1, <1>2 DEF Open
  <2> QED
    BY <1>1, <1>2, <2>1, <2>2 DEF OneIsOpen, OwnTransaction
<1>8. Isolated'
  <2>1. CASE OwnTransaction
    <3>1. ~job.dryRun
      BY <2>1 DEF OwnTransaction
    <3>2. UNCHANGED <<job, db, tx, current, pc>>
      BY <1>1, <1>2, <3>1
    <3> QED
      BY <3>2 DEF Isolated, OwnTransaction, Open, Duplicate, Applied, Seen
  <2>2. CASE ~OwnTransaction
    BY <1>1, <2>2 DEF Isolated, Where, OwnTransaction
  <2> QED
    BY <2>1, <2>2
<1>9. Found'
  <2>1. \A k \in Key, t \in Tx : tx'[t].writes[k] # Mixed
    <3>1. \A k \in Key : Clean[k] # Mixed /\ \A t \in Tx : tx[t].writes[k] # Mixed
      BY DEF Found, Clean, NoWrite, Mixed
    <3> QED
      BY <3>1, AbortType DEF RequestBreak
  <2>2. \A k \in Key, j \in Row : saved'[j][k] # Mixed
    BY <1>1 DEF Found
  <2>3. Usable' => Usable /\ Seen(current)' = Seen(current)
    <3>1. CASE job.dryRun /\ current # 0
      BY <1>1, <1>2, <3>1 DEF Usable
    <3>2. CASE tx' = tx
      BY <1>1, <3>2 DEF Usable, Open, Seen
    <3>3. CASE current = 0
      BY <1>1, <3>3 DEF Usable, Seen
    <3> QED
      BY <1>2, <3>1, <3>2, <3>3
  <2> QED
    BY <1>1, <2>1, <2>2, <2>3, FoundStays
<1> QED
  BY <1>3, <1>4, <1>5, <1>6, <1>7, <1>8, <1>9

LEMMA Inductive == IInv /\ [Next]_vars => IInv'
<1> SUFFICES ASSUME IInv, [Next]_vars PROVE IInv'
  OBVIOUS
<1>1. CASE RequestStep
  BY <1>1, RequestStartInv, RequestBeginInv, RequestEndInv, RequestBreakInv DEF RequestStep
<1>2. ASSUME NEW i \in Row, RowStep(i) PROVE IInv'
  BY <1>2, RowStartInv, RowBeginInv, RowFindInv, RowInsertInv, RowCommitInv, RowUndoInv,
     RowRestartInv
     DEF RowStep
<1>3. CASE UNCHANGED vars
  BY <1>3, StutterInv
<1> QED
  BY <1>1, <1>2, <1>3 DEF Next

LEMMA Invariance == Spec => []IInv
BY InitInv, Inductive, PTL DEF Spec

-----------------------------------------------------------------------------
(* The counters stay within their bounds: no row starts more than one      *)
(* transaction, whatever the settings, so that a request never has more    *)
(* than its rows and one.                                                  *)
THEOREM TypeCorrect == Spec => []TypeOK
<1>1. IInv => TypeOK
  BY DEF IInv
<1> QED
  BY <1>1, Invariance, PTL

(* The variable `transaction` that all rows share is never switched under  *)
(* a row that has started a transaction, and no two rows share one.        *)
THEOREM RowsKeepTheirTransaction == Spec => []RowsUseTheirOwnTransaction
<1>1. IInv => RowsUseTheirOwnTransaction
  BY DEF IInv, OwnDiffer, RowsUseTheirOwnTransaction
<1> QED
  BY <1>1, Invariance, PTL

(* Whichever database calls fail, and although rows go on after the answer *)
(* of a request that breaks off, no transaction is left open in the end.   *)
THEOREM NoTransactionIsLeft == Spec => []NoTransactionLeaks
<1>1. IInv => NoTransactionLeaks
  <2> SUFFICES ASSUME IInv, main \in {"answered", "failed"},
                      \A i \in Row : ~Active(i) /\ pc[i] # "queued", NEW t \in Tx, Open(t)
               PROVE  FALSE
    BY DEF NoTransactionLeaks
  <2> QED
    BY DEF IInv, OneIsOpen, Active
<1> QED
  BY <1>1, Invariance, PTL

-----------------------------------------------------------------------------
(* What the step of a row shows of the promise.                            *)
OutcomeOf(where, wrong) ==
  CASE where = "done" -> (IF wrong THEN "refused" ELSE "imported")
    [] where = "rejected" -> "unknown"
    [] OTHER -> "pending"

LEMMA OutcomeStep ==
  ASSUME TypeOK, TypeOK', NEW i \in Row, pc[i] \notin {"done", "rejected"},
         \A j \in Row : j # i => pc'[j] = pc[j] /\ err'[j] = err[j]
  PROVE  /\ Outcome[i] = "pending"
         /\ Outcome' = [Outcome EXCEPT ![i] = OutcomeOf(pc'[i], err'[i])]
<1>1. Outcome[i] = "pending"
  BY DEF Outcome
<1>2. Outcome' = [j \in Row |-> OutcomeOf(pc'[j], err'[j])]
  BY DEF Outcome, OutcomeOf
<1>3. \A j \in Row : Outcome[j] = OutcomeOf(pc[j], err[j])
  BY DEF Outcome, OutcomeOf
<1>4. DOMAIN Outcome = Row
  BY DEF Outcome
<1>5. Outcome' = [Outcome EXCEPT ![i] = OutcomeOf(pc'[i], err'[i])]
  BY <1>2, <1>3, <1>4
<1> QED
  BY <1>1, <1>5

LEMMA InitPromise == Init => Promise!Init
<1> SUFFICES ASSUME Init PROVE Promise!Init
  OBVIOUS
<1>1. db \in [Key -> {Absent, Before}]
  BY DEF Init
<1>2. Outcome = [i \in Row |-> "pending"]
  BY DEF Init, Outcome
<1> QED
  BY <1>1, <1>2 DEF Promise!Init, Promise!Absent, Promise!Before, Absent, Before

LEMMA PendingStep ==
  ASSUME TypeOK, TypeOK', UNCHANGED <<job, db>>,
         \A j \in Row : \/ pc'[j] = pc[j] /\ err'[j] = err[j]
                        \/ pc[j] \notin {"done", "rejected"} /\ pc'[j] \notin {"done", "rejected"}
  PROVE  UNCHANGED Promise!vars
BY DEF Promise!vars, Outcome

(* Each step of a row is one of the promise, or hidden. *)
LEMMA RowPromise ==
  ASSUME IInv, IInv', NEW i \in Row, RowStep(i)
  PROVE  [Promise!Next]_(Promise!vars)
<1> USE DEF IInv
<1>1. UNCHANGED job
  BY DEF RowStep, RowStart, RowBegin, RowFind, RowInsert, RowCommit, RowUndo, RowRestart
<1>2. /\ pc[i] \notin {"done", "rejected"}
      /\ \A j \in Row : j # i => pc'[j] = pc[j] /\ err'[j] = err[j]
  <2>1. pc[i] \in {"queued", "begin", "insert", "write", "commit", "undo", "restart"}
    BY DEF RowStep, RowStart, RowBegin, RowFind, RowInsert, RowCommit, RowUndo, RowRestart
  <2>2. \A j \in Row : j # i => pc'[j] = pc[j]
    BY DEF RowStep, RowStart, RowBegin, RowFind, RowInsert, RowCommit, RowUndo, RowRestart,
           Imported, Refused, Goto, Reject, TypeOK
  <2>3. \A j \in Row : j # i => err'[j] = err[j]
    BY DEF RowStep, RowStart, RowBegin, RowFind, RowInsert, RowCommit, RowUndo, RowRestart,
           Refused, TypeOK
  <2> QED
    BY <2>1, <2>2, <2>3
<1>3. /\ Outcome[i] = "pending"
      /\ Outcome' = [Outcome EXCEPT ![i] = OutcomeOf(pc'[i], err'[i])]
  BY <1>2, OutcomeStep
<1>4. CASE pc'[i] \notin {"done", "rejected"} /\ db' = db
  BY <1>1, <1>2, <1>4, PendingStep
<1>5. ASSUME pc'[i] = "done", err'[i],
             db' = db \/ (~job.useTransactionInsert /\ Promise!GoesIn(db, i, db'))
      PROVE  Promise!Next
  <2>1. OutcomeOf(pc'[i], err'[i]) = "refused"
    BY <1>5 DEF OutcomeOf
  <2> QED
    BY <1>1, <1>3, <1>5, <2>1 DEF Promise!Next, Promise!RefuseRow
<1>6. ASSUME pc'[i] = "done", ~err'[i],
             IF job.dryRun THEN db' = db ELSE Promise!GoesIn(db, i, db')
      PROVE  Promise!Next
  <2>1. OutcomeOf(pc'[i], err'[i]) = "imported"
    BY <1>6 DEF OutcomeOf
  <2> QED
    BY <1>1, <1>3, <1>6, <2>1 DEF Promise!Next, Promise!ImportRow
<1>7. ASSUME pc'[i] = "rejected", job.dryRun \/ OwnTransaction,
             db' = db \/ Promise!GoesIn(db, i, db')
      PROVE  Promise!Next
  <2>1. OutcomeOf(pc'[i], err'[i]) = "unknown"
    BY <1>7 DEF OutcomeOf
  <2>2. job.dryRun \/ job.useTransactionInsert
    BY <1>7 DEF OwnTransaction
  <2> QED
    BY <1>1, <1>3, <1>7, <2>1, <2>2 DEF Promise!Next, Promise!LoseRow
<1>0. ASSUME ~job.dryRun, ~Duplicate(db, i), db' = Applied(db, i)
      PROVE  Promise!GoesIn(db, i, db')
  BY <1>0 DEF Promise!GoesIn, Promise!Accepted, Promise!Applied, Promise!Absent,
              Duplicate, Applied, Absent
<1>8. CASE RowStart(i)
  <2>1. db' = db
    BY <1>8 DEF RowStart
  <2>2. pc'[i] = "done" => err'[i]
    <3>1. pc'[i] = (IF job.typed[i] THEN "begin" ELSE "done") /\ err'[i] = ~job.typed[i]
      BY <1>8 DEF RowStart, Goto, TypeOK
    <3>2. pc'[i] = "done" => ~job.typed[i]
      BY <3>1
    <3> QED
      BY <3>1, <3>2, Zenon
  <2>3. pc'[i] # "rejected"
    BY <1>8 DEF RowStart, Goto, TypeOK
  <2> QED
    BY <1>4, <1>5, <2>1, <2>2, <2>3
<1>9. CASE RowBegin(i)
  <2>1. db' = db /\ pc'[i] # "done" /\ (pc'[i] = "rejected" => job.dryRun \/ OwnTransaction)
    BY <1>9 DEF RowBegin, Goto, Reject, TypeOK, Savepoint
  <2> QED
    BY <1>4, <1>7, <2>1
<1>10. CASE RowFind(i)
  <2>1. /\ pc[i] = "insert" /\ Active(i) /\ job.mode = "update" /\ ~err[i] /\ db' = db
        /\ pc'[i] # "rejected"
    BY <1>10 DEF RowFind, Active, Where, Imported, Refused, Goto, TypeOK
  <2>2. CASE err'[i]
    BY <1>4, <1>5, <2>1, <2>2
  <2>3. CASE pc'[i] = "done" /\ ~err'[i]
    <3>1. /\ Imported(i) /\ Seen(current)[job.key[i]] = Absent
      <4>1. err' # [err EXCEPT ![i] = TRUE]
        BY <2>3, Zenon DEF TypeOK
      <4>2. ~Goto(i, "write")
        BY <2>3 DEF Goto, TypeOK
      <4> QED
        BY <1>10, <4>1, <4>2 DEF RowFind, Refused
    <3>2. ~OwnTransaction
      BY <2>3, <3>1 DEF Imported, Goto, TypeOK
    <3>3. CASE job.dryRun
      BY <1>6, <2>1, <2>3, <3>3
    <3>4. CASE ~job.dryRun
      <4>1. Seen(current) = db
        BY <2>1, <3>2, <3>4, InNone, SeenNone
      <4>2. ~Duplicate(db, i) /\ db' = Applied(db, i)
        BY <2>1, <3>1, <4>1 DEF Duplicate, Applied
      <4> QED
        BY <1>0, <1>6, <2>3, <3>4, <4>2
    <3> QED
      BY <3>3, <3>4
  <2> QED
    BY <1>4, <2>1, <2>2, <2>3
<1>11. CASE RowInsert(i)
  <2>1. /\ pc[i] = IF job.mode = "update" THEN "write" ELSE "insert"
        /\ Active(i) /\ ~err[i] /\ pc'[i] # "rejected"
    BY <1>11 DEF RowInsert, Where, Active, Imported, Refused, Goto, TypeOK
  <2>2. CASE db' = db /\ Refused(i)
    <3>1. err'[i]
      BY <2>2, Zenon DEF Refused, TypeOK
    <3> QED
      BY <1>4, <1>5, <2>1, <2>2, <3>1
  <2>3. CASE current = 0 /\ Write(i)
    <3>1. /\ pc[i] \in {"insert", "write"} /\ ~OwnTransaction /\ ~job.dryRun
          /\ ~job.useTransactionInsert /\ (Limit # 1 => job.concurentInsert > 1)
      BY <2>1, <2>3, InNone
    <3>2. PICK result \in Results(i) : db' = [db EXCEPT ![job.key[i]] = result]
      BY <2>3 DEF Write
    <3>3. ~Duplicate(db, i)
      BY <2>3, SeenNone DEF Write
    <3>4. /\ result = i \/ (result = Mixed /\ job.mode = "update" /\ Limit # 1 /\ Shared(i))
          /\ job.mode = "update" => db[job.key[i]] # Absent
          /\ Applied(db, i) = [db EXCEPT ![job.key[i]] = i]
      BY <2>1, <2>3, <3>2, Leaves
    <3>5. ASSUME result = i PROVE Promise!GoesIn(db, i, db')
      BY <1>0, <3>1, <3>2, <3>3, <3>4, <3>5
    <3>6. ASSUME result # i PROVE Promise!GoesIn(db, i, db')
      <4>1. Promise!MayMix(db, i)
        BY <3>1, <3>4, <3>6 DEF Promise!MayMix, Promise!Absent, Absent, Shared
      <4> QED
        BY <3>1, <3>2, <3>4, <3>6, <4>1 DEF Promise!GoesIn, Promise!Accepted, Promise!Mixed, Mixed
    <3>7. Promise!GoesIn(db, i, db')
      BY <3>5, <3>6
    <3>8. pc'[i] = "done"
      BY <1>11, <2>1, <3>1 DEF RowInsert, Imported, Refused, Goto, TypeOK
    <3> QED
      BY <1>5, <1>6, <3>1, <3>7, <3>8
  <2>4. CASE Open(current) /\ Write(i) /\ Imported(i) /\ err' = err
    <3>1. current # 0 /\ db' = db
      BY <2>4 DEF Open, Write
    <3>2. CASE OwnTransaction
      <4>1. pc'[i] = "commit"
        BY <2>4, <3>2 DEF Imported, Goto, TypeOK
      <4> QED
        BY <1>4, <3>1, <4>1
    <3>3. CASE ~OwnTransaction
      <4>1. pc'[i] = "done"
        BY <2>4, <3>3 DEF Imported, Goto, TypeOK
      <4>2. job.dryRun
        BY <2>1, <3>1, <3>3, InNone
      <4> QED
        BY <1>6, <2>1, <2>4, <3>1, <4>1, <4>2
    <3> QED
      BY <3>2, <3>3
  <2> QED
    BY <1>11, <2>2, <2>3, <2>4 DEF RowInsert, Usable
<1>12. CASE RowCommit(i)
  <2>1. /\ pc[i] = "commit" /\ ~err[i] /\ ~job.dryRun /\ err' = err /\ OwnTransaction
        /\ pc'[i] \in {"done", "rejected"}
        /\ pc'[i] = "done" => db' = Seen(current)
        /\ db' = Seen(current) \/ db' = db
    BY <1>12 DEF RowCommit, Where, Goto, Reject, TypeOK, OwnTransaction
  <2>2. Seen(current) = Applied(db, i) /\ ~Duplicate(db, i)
    BY <2>1 DEF Isolated
  <2> QED
    BY <1>0, <1>6, <1>7, <2>1, <2>2
<1>13. CASE RowUndo(i) \/ RowRestart(i)
  <2>1. db' = db /\ err' = err /\ err[i] /\ (job.dryRun \/ OwnTransaction)
    BY <1>13 DEF RowUndo, RowRestart, Where
  <2> QED
    BY <1>4, <1>5, <1>7, <2>1
<1> QED
  BY <1>8, <1>9, <1>10, <1>11, <1>12, <1>13 DEF RowStep

LEMMA PromiseStep == IInv /\ IInv' /\ [Next]_vars => [Promise!Next]_(Promise!vars)
<1> SUFFICES ASSUME IInv, IInv', [Next]_vars PROVE [Promise!Next]_(Promise!vars)
  OBVIOUS
<1>1. CASE RequestStep
  <2>1. UNCHANGED <<job, db, err>>
    BY <1>1 DEF RequestStep, RequestStart, RequestBegin, RequestEnd, RequestBreak
  <2>2. \A j \in Row : \/ pc'[j] = pc[j]
                       \/ pc[j] = "new" /\ pc'[j] = "queued"
    BY <1>1 DEF RequestStep, RequestStart, RequestBegin, RequestEnd, RequestBreak, IInv, InOrder
  <2> QED
    BY <2>1, <2>2, PendingStep DEF IInv
<1>2. ASSUME NEW i \in Row, RowStep(i) PROVE [Promise!Next]_(Promise!vars)
  BY <1>2, RowPromise
<1>3. CASE UNCHANGED vars
  BY <1>3 DEF vars, Promise!vars, Outcome
<1> QED
  BY <1>1, <1>2, <1>3 DEF Next

(* The import keeps its promise for files of every length: each row goes   *)
(* in as a whole or not at all and is reported accordingly, whatever the   *)
(* shared transaction, undone rows, failed calls and late rows do, and a   *)
(* validation changes nothing.                                             *)
THEOREM ImportKeepsPromise == Spec => KeepsPromise
<1>1. Spec => Promise!Init /\ [][Promise!Next]_(Promise!vars)
  BY InitPromise, PromiseStep, Invariance, PTL DEF Spec
<1> QED
  BY <1>1 DEF KeepsPromise, Promise!Spec
-----------------------------------------------------------------------------
(* The table that row i makes of the tables before it, in a sequence g.    *)
Following(g, i) ==
  IF i = 0 THEN found
  ELSE IF ~job.typed[i] \/ Duplicate(g[i - 1], i) THEN g[i - 1] ELSE Applied(g[i - 1], i)

(* The recursion reaches every row: the first row that it did not reach    *)
(* would have a row before it that it did.                                 *)
LEMMA SequelReaches ==
  ASSUME NEW n \in Nat
  PROVE  \E g : g = [i \in 0 .. n |-> Following(g, i)]
<1> DEFINE Missed == {m \in Nat : ~ \E g : g = [i \in 0 .. m |-> Following(g, i)]}
<1>1. ASSUME Missed # {} PROVE FALSE
  <2>1. PICK m \in Missed : \A k \in Missed : ~(<<k, m>> \in OpToRel(<, Nat))
    <3>1. Missed \subseteq Nat
      OBVIOUS
    <3> HIDE DEF Missed
    <3> QED
      BY <1>1, <3>1, NatLessThanWellFounded, WFMin
  <2>2. m \in Nat /\ ~ \E g : g = [i \in 0 .. m |-> Following(g, i)]
    OBVIOUS
  <2>3. CASE m = 0
    <3> DEFINE g == [i \in 0 .. m |-> found]
    <3>1. g = [i \in 0 .. m |-> Following(g, i)]
      BY <2>3 DEF Following
    <3> QED
      BY <2>2, <3>1
  <2>4. CASE m # 0
    <3>1. m - 1 \in Nat /\ <<m - 1, m>> \in OpToRel(<, Nat)
      BY <2>2, <2>4 DEF OpToRel
    <3>2. m - 1 \notin Missed
      BY <2>1, <3>1
    <3>3. PICK f : f = [i \in 0 .. (m - 1) |-> Following(f, i)]
      BY <3>1, <3>2
    <3> DEFINE g == [i \in 0 .. m |-> IF i < m THEN f[i] ELSE Following(f, m)]
    <3>4. \A i \in 0 .. m : i # 0 => g[i - 1] = f[i - 1]
      BY <2>2
    <3>5. \A i \in 0 .. m : Following(g, i) = Following(f, i)
      <4> HIDE DEF g
      <4> QED
        BY <3>4 DEF Following
    <3>6. \A i \in 0 .. m : g[i] = Following(f, i)
      <4> TAKE i \in 0 .. m
      <4>1. CASE i < m
        <5>1. i \in 0 .. (m - 1)
          BY <2>2, <4>1
        <5> QED
          BY <3>3, <4>1, <5>1
      <4>2. CASE i = m
        BY <4>2
      <4> QED
        BY <2>2, <4>1, <4>2
    <3>7. g = [i \in 0 .. m |-> g[i]]
      OBVIOUS
    <3>8. g = [i \in 0 .. m |-> Following(g, i)]
      <4> HIDE DEF g
      <4> QED
        BY <3>5, <3>6, <3>7
    <3> QED
      BY <2>2, <3>8
  <2> QED
    BY <2>3, <2>4
<1> QED
  BY <1>1

(* Sequel is what its equation says. *)
LEMMA SequelUnfolds ==
  /\ Sequel[0] = found
  /\ \A i \in Row : Sequel[i] = IF RefusedInSequence(i) THEN Sequel[i - 1]
                                                       ELSE Applied(Sequel[i - 1], i)
<1>1. \E g : g = [i \in 0 .. N |-> Following(g, i)]
  BY Rows, SequelReaches
<1>2. Sequel = [i \in 0 .. N |-> Following(Sequel, i)]
  BY <1>1 DEF Sequel, Following
<1>3. \A i \in 0 .. N : Sequel[i] = Following(Sequel, i)
  <2> HIDE DEF Sequel
  <2> QED
    BY <1>2
<1>4. 0 \in 0 .. N /\ Row \subseteq 0 .. N /\ 0 \notin Row
  BY Rows DEF Row
<1> QED
  BY <1>3, <1>4 DEF Following, RefusedInSequence

(* ... and nothing that the request does changes it. *)
LEMMA SequelStays == ASSUME UNCHANGED <<job, found>> PROVE Sequel' = Sequel
BY DEF Sequel, Duplicate, Applied
-----------------------------------------------------------------------------
(* Rows one at a time, and a database that does not fail.                  *)
Quiet == faults = 0 /\ Limit = 1

(* The rows take their turns, and have the transaction they need: that of  *)
(* a dry run is open unless a row is just replacing it.                    *)
InTurn ==
  /\ main \notin {"break", "failed"}
  /\ \A i \in Row :
       /\ pc[i] # "rejected"
       /\ Active(i) => job.typed[i] /\ \A j \in Row : i < j => pc[j] = "queued"
       /\ Savepoint /\ pc[i] \in {"insert", "write", "undo"} => saved[i] = tx[current].writes
       /\ OwnTransaction /\ pc[i] \in {"insert", "write", "undo"} => Open(current)
  /\ job.dryRun /\ main = "rows" => Open(current) \/ \E i \in Row : pc[i] = "restart"

(* The table as the next row will find it. *)
Table == IF job.dryRun THEN Seen(current) ELSE db

(* No earlier row was undone together with those before it. *)
Unspoilt(i) ==
  job.dryRun /\ ~Savepoint => \A j \in 1 .. (i - 1) : err[j] => ~job.typed[j]

(* The row whose turn it is finds the table of the sequential import ...   *)
TableTells ==
  \A i \in Row :
    /\ pc[i] \in {"new", "queued", "begin", "insert", "write", "commit", "undo"}
    /\ \A j \in 1 .. (i - 1) : pc[j] = "done"
    /\ Unspoilt(i)
    => Table = Sequel[i - 1]

(* ... and the rows that have met it are reported as there.                *)
ReportTells ==
  \A i \in Row :
    pc[i] \in {"commit", "undo", "restart", "done"} /\ Unspoilt(i) =>
      err[i] = RefusedInSequence(i)

Tells == Quiet => InTurn /\ TableTells /\ ReportTells

(* The rows before i are through, and those after it wait. *)
InSequence(i) ==
  \A j \in Row : (j < i => pc[j] = "done") /\ (i < j => pc[j] = "queued")

LEMMA NoFault == ASSUME TypeOK, faults' = 0 PROVE ~Fault
BY DEF TypeOK, Fault

(* A row that moves is the one whose turn it is. *)
LEMMA Sequenced ==
  ASSUME IInv, Quiet, InTurn, NEW i \in Row, Active(i) \/ RowStart(i)
  PROVE  /\ InSequence(i) /\ main = "rows"
         /\ pc[i] # "restart" => \A j \in Row : pc[j] # "restart"
         /\ job.dryRun /\ pc[i] # "restart" => Open(current)
<1> USE DEF IInv, Quiet
<1>1. CASE Active(i)
  <2>1. \A j \in Row : j # i => /\ ~Active(j)
                                /\ j < i => pc[j] = "done"
                                /\ i < j => pc[j] = "queued"
    BY <1>1, Alone DEF InTurn
  <2>2. main = "rows"
    BY <1>1 DEF InTurn, InOrder, Active, TypeOK
  <2>3. pc[i] # "restart" => \A j \in Row : pc[j] # "restart"
    BY <2>1 DEF Active
  <2> QED
    BY <2>1, <2>2, <2>3, Rows DEF InSequence, InTurn
<1>2. CASE RowStart(i)
  <2>1. \A j \in Row : ~Active(j)
    BY <1>2, NoneActive
  <2>2. pc[i] = "queued" /\ \A j \in Row : j < i => pc[j] # "queued"
    BY <1>2 DEF RowStart
  <2>3. \A j \in Row : pc[j] \in {"new", "queued", "begin", "insert", "write", "commit", "undo",
                                  "restart", "done", "rejected"}
    BY DEF TypeOK
  <2>4. \A j \in Row : pc[j] \in {"queued", "done"}
    BY <2>1, <2>2, <2>3 DEF InTurn, InOrder, Active
  <2>5. InSequence(i)
    BY <2>2, <2>4 DEF InSequence, InOrder
  <2>6. main = "rows"
    BY <2>2 DEF InTurn, InOrder, TypeOK
  <2> QED
    BY <2>4, <2>5, <2>6 DEF InTurn
<1> QED
  BY <1>1, <1>2

(* The statement of the row whose turn it is meets the table.              *)
LEMMA InsertSees ==
  ASSUME IInv, Quiet, InTurn, NEW i \in Row, pc[i] \in {"insert", "write"}
  PROVE  /\ Seen(current) = Table
         /\ current = 0 => ~job.dryRun /\ ~OwnTransaction
         /\ current # 0 => Open(current) /\ (job.dryRun \/ OwnTransaction)
<1> USE DEF IInv
<1>1. CASE job.dryRun
  <2>1. current # 0
    BY <1>1 DEF Counted
  <2>2. Open(current)
    BY <1>1, Sequenced DEF Active
  <2> QED
    BY <1>1, <2>1, <2>2 DEF Table
<1>2. CASE OwnTransaction
  <2>1. ~job.dryRun
    BY <1>2 DEF OwnTransaction
  <2>2. Open(current) /\ current # 0
    BY <1>2 DEF InTurn, Open
  <2>3. Seen(current) = db
    BY <1>2, SeenClean DEF Isolated
  <2> QED
    BY <1>2, <2>1, <2>2, <2>3 DEF Table
<1>3. CASE ~job.dryRun /\ ~OwnTransaction
  <2>1. opened = 0
    BY <1>3 DEF Counted
  <2>2. current = 0
    BY <2>1, Settings
  <2> QED
    BY <1>3, <2>2, SeenNone DEF Table
<1> QED
  BY <1>1, <1>2, <1>3

(* The steps of the row whose turn it is keep the turns ... *)
LEMMA TurnStays ==
  ASSUME IInv, Quiet, InTurn, NEW i \in Row, InSequence(i), UNCHANGED <<job, main>>,
         \A j \in Row : j # i => pc'[j] = pc[j],
         pc'[i] # "rejected", Active(i)' => job.typed[i],
         Savepoint /\ pc'[i] \in {"insert", "write", "undo"} => saved'[i] = tx'[current'].writes,
         OwnTransaction /\ pc'[i] \in {"insert", "write", "undo"} => Open(current)',
         job.dryRun => Open(current)' \/ pc'[i] = "restart"
  PROVE  InTurn'
<1> USE DEF InSequence
<1>1. \A j \in Row : j # i => pc'[j] \in {"done", "queued"}
  BY Rows
<1>2. \A j, k \in Row : Active(j)' /\ j < k => job.typed'[j] /\ pc'[k] = "queued"
  BY <1>1, Rows DEF Active
<1> QED
  BY <1>1, <1>2 DEF InTurn, Savepoint, OwnTransaction, Active

(* ... and hand the table on to the next row. *)
LEMMA TellsOn ==
  ASSUME IInv, TableTells, ReportTells, NEW i \in Row, InSequence(i), UNCHANGED <<job, found>>,
         \A j \in Row : j # i => pc'[j] = pc[j] /\ err'[j] = err[j],
         pc'[i] \notin {"done", "restart"} /\ Unspoilt(i) => Table' = Sequel[i - 1],
         pc'[i] \in {"commit", "undo", "restart", "done"} /\ Unspoilt(i) =>
           err'[i] = RefusedInSequence(i),
         /\ pc'[i] = "done" /\ Unspoilt(i)
         /\ job.dryRun /\ ~Savepoint /\ err'[i] => ~job.typed[i]
         => Table' = Sequel[i]
  PROVE  TableTells' /\ ReportTells'
<1> USE DEF InSequence
<1>1. Sequel' = Sequel
  BY SequelStays
<1>2. ASSUME NEW j \in Row, j <= i, Unspoilt(j)' PROVE Unspoilt(j)
  <2>1. \A k \in 1 .. (j - 1) : k \in Row /\ k # i
    BY <1>2, Rows DEF Row
  <2> QED
    BY <1>2, <2>1 DEF Unspoilt, Savepoint
<1>3. \A j \in Row : RefusedInSequence(j)' = RefusedInSequence(j)
  BY <1>1, Zenon DEF RefusedInSequence, Duplicate
<1>4. ReportTells'
  <2> SUFFICES ASSUME NEW j \in Row, pc'[j] \in {"commit", "undo", "restart", "done"},
                      Unspoilt(j)'
               PROVE  err'[j] = RefusedInSequence(j)
    BY <1>3, Zenon DEF ReportTells
  <2>1. j <= i
    BY Rows
  <2>2. Unspoilt(j)
    BY <1>2, <2>1
  <2>3. CASE j = i
    BY <2>2, <2>3
  <2>4. CASE j # i
    BY <2>2, <2>4, Zenon DEF ReportTells
  <2> QED
    BY <2>3, <2>4
<1>5. TableTells'
  <2> SUFFICES ASSUME NEW j \in Row,
                      pc'[j] \in {"new", "queued", "begin", "insert", "write", "commit", "undo"},
                      \A k \in 1 .. (j - 1) : pc'[k] = "done", Unspoilt(j)'
               PROVE  Table' = Sequel[j - 1]
    BY <1>1 DEF TableTells
  <2>1. i <= j
    BY Rows
  <2>2. CASE j = i
    BY <1>2, <2>2, Rows
  <2>3. CASE i < j
    <3>1. i \in 1 .. (j - 1)
      BY <2>3, Rows
    <3>2. pc'[i] = "done"
      BY <3>1
    <3>3. j = i + 1
      <4>1. SUFFICES ASSUME i + 1 < j PROVE FALSE
        BY <2>3, Rows
      <4>2. i + 1 \in Row /\ i + 1 \in 1 .. (j - 1) /\ i + 1 # i /\ i < i + 1
        BY <4>1, Rows DEF Row
      <4> QED
        BY <4>2
    <3>4. job.dryRun /\ ~Savepoint => \A k \in 1 .. (j - 1) : err'[k] => ~job.typed[k]
      BY DEF Unspoilt, Savepoint
    <3>5. Unspoilt(i)
      <4>1. \A k \in 1 .. (i - 1) : k \in Row /\ k # i /\ k \in 1 .. (j - 1)
        BY <3>3, Rows DEF Row
      <4> QED
        BY <3>4, <4>1, Zenon DEF Unspoilt
    <3>6. j - 1 = i
      BY <3>3, Rows
    <3>7. job.dryRun /\ ~Savepoint /\ err'[i] => ~job.typed[i]
      BY <3>1, <3>4, Zenon
    <3>8. Table' = Sequel[i]
      BY <3>2, <3>5, <3>7
    <3> QED
      BY <3>6, <3>8
  <2> QED
    BY <2>1, <2>2, <2>3, Rows
<1> QED
  BY <1>4, <1>5

LEMMA RequestStartTells == IInv /\ IInv' /\ Tells /\ RequestStart => Tells'
<1> SUFFICES ASSUME IInv, IInv', Tells, RequestStart, Quiet'
             PROVE  (InTurn /\ TableTells /\ ReportTells)'
  BY DEF Tells
<1> USE DEF IInv
<1>1. /\ main = "start" /\ opened = 0 /\ current = 0 /\ \A i \in Row : pc[i] = "new"
      /\ UNCHANGED <<job, db, err, doc, saved, found, own>>
  BY Settings DEF RequestStart, InOrder, Counted
<1>2. /\ main' = "rows" /\ pc' = [i \in Row |-> "queued"] /\ faults' = faults
      /\ IF job.dryRun THEN Start ELSE UNCHANGED <<tx, opened, current>>
  BY NoFault DEF RequestStart, Quiet
<1>3. Quiet
  BY <1>1, <1>2 DEF Quiet, Limit
<1>4. \A i \in Row : pc'[i] = "queued"
  BY <1>2
<1>5. job.dryRun => Open(current)' /\ tx'[current'].writes = Clean
  <2>1. \A t \in Tx : ~Open(t)
    BY <1>1 DEF OneIsOpen
  <2>2. ASSUME job.dryRun PROVE Start /\ opened <= N
    BY <1>1, <1>2, <2>2, Rows
  <2> QED
    BY <2>1, <2>2, StartOpens, StartType, Settings DEF Open
<1>6. Table = found /\ Table' = found
  <2>1. db = found
    <3>1. 1 \in Row /\ \A j \in 1 .. (1 - 1) : FALSE
      BY Rows DEF Row
    <3>2. Unspoilt(1)
      BY <3>1 DEF Unspoilt
    <3>3. Table = Sequel[0]
      <4>1. 1 - 1 = 0 /\ \A j \in 1 .. (1 - 1) : pc[j] = "done"
        BY <3>1
      <4>2. TableTells
        BY <1>3 DEF Tells
      <4> QED
        BY <1>1, <3>1, <3>2, <4>1, <4>2 DEF TableTells
    <3>4. Table = db
      BY <1>1, SeenNone DEF Table
    <3> QED
      BY <3>3, <3>4, SequelUnfolds
  <2>2. job.dryRun => Seen(current)' = db'
    <3>1. job.dryRun => \A k \in Key : tx'[current'].writes[k] = NoWrite
      BY <1>5 DEF Clean
    <3>2. db' \in [Key -> Owner]
      BY DEF TypeOK
    <3> QED
      BY <3>1, <3>2 DEF Seen
  <2> QED
    BY <1>1, <2>1, <2>2, SeenNone DEF Table
<1>7. InTurn'
  BY <1>1, <1>2, <1>4, <1>5 DEF InTurn, Active, Savepoint, OwnTransaction
<1>8. TableTells'
  <2>1. Sequel'[0] = found
    BY <1>1, SequelStays, SequelUnfolds
  <2> SUFFICES ASSUME NEW i \in Row, \A j \in 1 .. (i - 1) : pc'[j] = "done"
               PROVE  i - 1 = 0
    BY <1>6, <2>1 DEF TableTells
  <2>2. 1 \in Row
    BY Rows DEF Row
  <2> QED
    BY <1>4, <2>2, Rows
<1>9. ReportTells'
  BY <1>4 DEF ReportTells
<1> QED
  BY <1>7, <1>8, <1>9

(* The row whose turn it is finds the table of the sequential import. *)
LEMMA TurnFinds ==
  ASSUME TableTells, NEW i \in Row, InSequence(i), Unspoilt(i),
         pc[i] \in {"queued", "begin", "insert", "write", "commit", "undo"}
  PROVE  Table = Sequel[i - 1]
<1>1. \A j \in 1 .. (i - 1) : pc[j] = "done"
  BY Rows DEF InSequence, Row
<1> QED
  BY <1>1 DEF TableTells

LEMMA QuietBefore ==
  ASSUME TypeOK, UNCHANGED job, Fault \/ faults' = faults, Quiet'
  PROVE  Quiet /\ faults' = faults /\ ~Fault
BY NoFault DEF Quiet, Limit

LEMMA RowStartTells ==
  ASSUME IInv, IInv', Tells, NEW i \in Row, RowStart(i) PROVE Tells'
<1> SUFFICES ASSUME Quiet' PROVE (InTurn /\ TableTells /\ ReportTells)'
  BY DEF Tells
<1> USE DEF IInv
<1>1. /\ pc[i] = "queued"
      /\ pc'[i] = IF job.typed[i] THEN "begin" ELSE "done"
      /\ err'[i] = ~job.typed[i]
      /\ UNCHANGED <<job, db, tx, opened, current, doc, saved, main, faults, found, own>>
  BY Zenon DEF RowStart, Goto, TypeOK
<1>2. \A j \in Row : j # i => pc'[j] = pc[j] /\ err'[j] = err[j]
  BY Zenon DEF RowStart, Goto, TypeOK
<1>3. Quiet /\ InTurn /\ TableTells /\ ReportTells
  BY <1>1, QuietBefore DEF Tells
<1>4. /\ InSequence(i) /\ main = "rows"
      /\ job.dryRun => Open(current)
  BY <1>1, <1>3, Sequenced
<1>5. InTurn'
  BY <1>1, <1>2, <1>3, <1>4, TurnStays DEF Active, Open
<1>6. Table' = Table
  BY <1>1 DEF Table, Seen
<1>7. Unspoilt(i) => Table' = Sequel[i - 1]
  BY <1>1, <1>3, <1>4, <1>6, TurnFinds
<1>8. ~job.typed[i] => err'[i] /\ RefusedInSequence(i) /\ Sequel[i] = Sequel[i - 1]
  BY <1>1, SequelUnfolds, Zenon DEF RefusedInSequence
<1>9. pc'[i] \in {"commit", "undo", "restart", "done"} => ~job.typed[i]
  BY <1>1
<1>10. RefusedInSequence(i) \in BOOLEAN
  BY Zenon DEF RefusedInSequence
<1>11. ~job.typed[i] => err'[i] = RefusedInSequence(i)
  BY <1>1, <1>8, <1>10, Zenon
<1> QED
  BY <1>1, <1>2, <1>3, <1>4, <1>5, <1>7, <1>8, <1>9, <1>11, TellsOn

LEMMA RowBeginTells ==
  ASSUME IInv, IInv', Tells, NEW i \in Row, RowBegin(i) PROVE Tells'
<1> SUFFICES ASSUME Quiet' PROVE (InTurn /\ TableTells /\ ReportTells)'
  BY DEF Tells
<1> USE DEF IInv
<1>1. /\ pc[i] = "begin" /\ UNCHANGED <<job, db, err, doc, found>>
      /\ Fault \/ faults' = faults
  BY DEF RowBegin
<1>2. /\ Quiet /\ faults' = faults /\ ~Fault /\ InTurn /\ TableTells /\ ReportTells
  BY <1>1, QuietBefore DEF Tells
<1>3. /\ InSequence(i) /\ main = "rows" /\ job.typed[i]
      /\ job.dryRun => Open(current)
  BY <1>1, <1>2, Sequenced DEF Active, InTurn
<1>4. /\ Goto(i, "insert") /\ main' = main
      /\ \/ /\ Savepoint /\ saved' = [saved EXCEPT ![i] = tx[current].writes]
            /\ UNCHANGED <<tx, opened, current>>
         \/ OwnTransaction /\ Start
         \/ ~Savepoint /\ ~OwnTransaction /\ UNCHANGED <<tx, opened, current>>
  BY <1>2, <1>3 DEF RowBegin, Savepoint
<1>5. pc'[i] = "insert" /\ \A j \in Row : j # i => pc'[j] = pc[j]
  BY <1>4 DEF Goto, TypeOK
<1>6. /\ Savepoint => saved'[i] = tx'[current'].writes /\ Open(current)'
      /\ OwnTransaction => Open(current)'
      /\ job.dryRun => Open(current)'
  <2>1. CASE Savepoint
    BY <1>1, <1>3, <1>4, <2>1 DEF TypeOK, Open, Savepoint, OwnTransaction
  <2>2. CASE OwnTransaction
    <3>1. opened < i
      BY <1>1, <2>2 DEF Counted
    <3>2. opened <= N
      BY <3>1, Settings, Rows
    <3>3. Open(current)'
      BY <1>4, <2>2, <3>2, StartType, Settings DEF Open, Savepoint, OwnTransaction
    <3> QED
      BY <2>2, <3>3 DEF Savepoint, OwnTransaction
  <2>3. CASE ~Savepoint /\ ~OwnTransaction
    BY <1>3, <1>4, <2>3 DEF Open
  <2> QED
    BY <2>1, <2>2, <2>3
<1>7. InTurn'
  BY <1>1, <1>2, <1>3, <1>4, <1>5, <1>6, TurnStays
<1>8. Table' = Table
  BY <1>1, <1>4 DEF Table, Seen, Savepoint, OwnTransaction
<1>9. Unspoilt(i) => Table' = Sequel[i - 1]
  BY <1>1, <1>2, <1>3, <1>8, TurnFinds
<1> QED
  BY <1>1, <1>2, <1>3, <1>5, <1>7, <1>9, TellsOn

LEMMA RowRestartTells ==
  ASSUME IInv, IInv', Tells, NEW i \in Row, RowRestart(i) PROVE Tells'
<1> SUFFICES ASSUME Quiet' PROVE (InTurn /\ TableTells /\ ReportTells)'
  BY DEF Tells
<1> USE DEF IInv
<1>1. /\ pc[i] = "restart" /\ UNCHANGED <<job, db, err, doc, saved, found, own>>
      /\ Fault \/ faults' = faults
  BY DEF RowRestart
<1>2. /\ Quiet /\ faults' = faults /\ ~Fault /\ InTurn /\ TableTells /\ ReportTells
  BY <1>1, QuietBefore DEF Tells
<1>3. InSequence(i) /\ job.typed[i] /\ err[i] /\ job.dryRun /\ ~Savepoint
  BY <1>1, <1>2, Sequenced DEF Active, InTurn, Where
<1>4. Start /\ Goto(i, "done") /\ main' = main
  BY <1>2 DEF RowRestart
<1>5. pc'[i] = "done" /\ \A j \in Row : j # i => pc'[j] = pc[j]
  BY <1>4 DEF Goto, TypeOK
<1>6. Open(current)'
  <2>1. opened <= i
    BY <1>1, <1>3 DEF Counted
  <2>2. opened <= N
    BY <2>1, Settings, Rows
  <2> QED
    BY <1>4, <2>2, StartType, Settings DEF Open
<1>7. InTurn'
  BY <1>1, <1>2, <1>3, <1>4, <1>5, <1>6, TurnStays DEF Active
<1>8. Unspoilt(i) => err'[i] = RefusedInSequence(i)
  BY <1>1, <1>2 DEF ReportTells
<1>9. ~(job.dryRun /\ ~Savepoint /\ err'[i] => ~job.typed[i])
  BY <1>1, <1>3
<1> QED
  BY <1>1, <1>2, <1>3, <1>5, <1>7, <1>8, <1>9, TellsOn

LEMMA RowFindTells ==
  ASSUME IInv, IInv', Tells, NEW i \in Row, RowFind(i) PROVE Tells'
<1> SUFFICES ASSUME Quiet' PROVE (InTurn /\ TableTells /\ ReportTells)'
  BY DEF Tells
<1> USE DEF IInv
<1>1. /\ pc[i] = "insert" /\ job.mode = "update" /\ ~err[i]
      /\ UNCHANGED <<job, db, tx, opened, current, saved, main, found, own>>
      /\ Fault \/ faults' = faults
  BY DEF RowFind, Where
<1>2. /\ Quiet /\ faults' = faults /\ ~Fault /\ InTurn /\ TableTells /\ ReportTells
  BY <1>1, QuietBefore DEF Tells
<1>3. /\ InSequence(i) /\ main = "rows" /\ job.typed[i]
      /\ job.dryRun => Open(current)
      /\ OwnTransaction => Open(current)
      /\ Savepoint => saved[i] = tx[current].writes
  BY <1>1, <1>2, Sequenced DEF Active, InTurn
<1>4. Seen(current) = Table /\ Usable
  BY <1>1, <1>2, InsertSees DEF Usable
<1>5. /\ IF Seen(current)[job.key[i]] = Absent THEN Imported(i) ELSE Goto(i, "write")
      /\ err' = err
  BY <1>2, <1>4 DEF RowFind
<1>6. /\ \A j \in Row : j # i => pc'[j] = pc[j] /\ err'[j] = err[j]
      /\ pc'[i] = IF Seen(current)[job.key[i]] # Absent
                    THEN "write"
                    ELSE IF OwnTransaction THEN "commit" ELSE "done"
  BY <1>5 DEF Imported, Goto, TypeOK
<1>7. Table' = Table
  BY <1>1 DEF Table, Seen
<1>8. Unspoilt(i) => Table' = Sequel[i - 1]
  BY <1>1, <1>2, <1>3, <1>7, TurnFinds
<1>9. Unspoilt(i) /\ pc'[i] # "write" => err'[i] = RefusedInSequence(i) /\ Table' = Sequel[i]
  <2> SUFFICES ASSUME Unspoilt(i), pc'[i] # "write"
               PROVE  err'[i] = RefusedInSequence(i) /\ Table' = Sequel[i]
    OBVIOUS
  <2>1. Seen(current)[job.key[i]] = Absent
    BY <1>6
  <2>2. Table = Sequel[i - 1]
    BY <1>7, <1>8
  <2>3. ~RefusedInSequence(i)
    BY <1>1, <1>3, Zenon DEF RefusedInSequence, Duplicate
  <2>4. Sequel[i] = Applied(Table, i)
    BY <2>2, <2>3, SequelUnfolds, Zenon
  <2>5. Applied(Table, i) = Table
    BY <1>1, <1>4, <2>1 DEF Applied
  <2>6. err'[i] = FALSE /\ RefusedInSequence(i) = FALSE
    <3>1. err[i] \in BOOLEAN
      BY Zenon DEF TypeOK
    <3>2. RefusedInSequence(i) \in BOOLEAN
      BY Zenon DEF RefusedInSequence
    <3> QED
      BY <1>1, <1>5, <2>3, <3>1, <3>2, Zenon
  <2> QED
    BY <1>7, <2>4, <2>5, <2>6
<1>10. job.dryRun => Open(current)'
  BY <1>1, <1>3 DEF Open
<1>11. OwnTransaction => Open(current)'
  BY <1>1, <1>3 DEF Open
<1>12. InTurn'
  BY <1>1, <1>2, <1>3, <1>6, <1>10, <1>11, TurnStays
<1> QED
  BY <1>1, <1>2, <1>3, <1>6, <1>8, <1>9, <1>12, TellsOn

LEMMA RowInsertTells ==
  ASSUME IInv, IInv', Tells, NEW i \in Row, RowInsert(i) PROVE Tells'
<1> SUFFICES ASSUME Quiet' PROVE (InTurn /\ TableTells /\ ReportTells)'
  BY DEF Tells
<1> USE DEF IInv
<1>1. /\ pc[i] = IF job.mode = "update" THEN "write" ELSE "insert"
      /\ ~err[i] /\ UNCHANGED <<job, opened, current, saved, main, found, own>>
      /\ Fault \/ faults' = faults
  BY DEF RowInsert, Where
<1>2. /\ Quiet /\ faults' = faults /\ ~Fault /\ InTurn /\ TableTells /\ ReportTells
  BY <1>1, QuietBefore DEF Tells
<1>3. /\ InSequence(i) /\ main = "rows" /\ job.typed[i]
      /\ job.dryRun => Open(current)
      /\ OwnTransaction => Open(current)
      /\ Savepoint => saved[i] = tx[current].writes
  BY <1>1, <1>2, Sequenced DEF Active, InTurn
<1>4. /\ Seen(current) = Table
      /\ current = 0 => ~job.dryRun /\ ~OwnTransaction
      /\ current # 0 => Open(current) /\ (job.dryRun \/ OwnTransaction)
  BY <1>1, <1>2, InsertSees
<1>5. Unspoilt(i) => Table = Sequel[i - 1]
  BY <1>1, <1>2, <1>3, TurnFinds
<1>6. \A j \in Row : j # i => pc'[j] = pc[j] /\ err'[j] = err[j]
  <2>1. \A j \in Row : j # i => pc'[j] = pc[j]
    BY DEF RowInsert, Imported, Refused, Goto, TypeOK
  <2>2. \A j \in Row : j # i => err'[j] = err[j]
    BY <1>1, Zenon DEF RowInsert, Refused, TypeOK
  <2> QED
    BY <2>1, <2>2
<1>0. /\ Usable /\ Results(i) = {i}
      /\ Applied(Seen(current), i) = [Seen(current) EXCEPT ![job.key[i]] = i]
  <2>1. Usable
    BY <1>4 DEF Usable
  <2> QED
    BY <1>1, <1>2, <2>1, LeavesItself DEF Quiet
<1>7. CASE Write(i) /\ Imported(i) /\ err' = err
  <2>0. /\ ~Duplicate(Seen(current), i)
        /\ current = 0 => db' = Applied(Seen(current), i)
        /\ current # 0 => WritesItself(i) /\ UNCHANGED db
    <3>1. current = 0 => Seen(current) = db
      BY SeenNone
    <3> QED
      BY <1>0, <1>7, <3>1 DEF Write, WritesItself
  <2>1. pc'[i] = IF OwnTransaction THEN "commit" ELSE "done"
    BY <1>7 DEF Imported, Goto, TypeOK
  <2>2. Unspoilt(i) => ~RefusedInSequence(i) /\ Sequel[i] = Applied(Table, i)
    BY <1>3, <1>4, <1>5, <2>0, SequelUnfolds, Zenon DEF RefusedInSequence
  <2>3. Unspoilt(i) => err'[i] = RefusedInSequence(i)
    <3>1. err[i] = FALSE
      BY <1>1, Zenon DEF TypeOK
    <3>2. RefusedInSequence(i) \in BOOLEAN
      BY Zenon DEF RefusedInSequence
    <3> QED
      BY <1>7, <2>2, <3>1, <3>2, Zenon
  <2>4. OwnTransaction => Table' = Table
    BY <1>1, <1>4, <2>0 DEF Table, OwnTransaction
  <2>5. ~OwnTransaction => Table' = Applied(Table, i)
    <3>1. CASE current = 0
      BY <1>1, <1>4, <2>0, <3>1 DEF Table
    <3>2. CASE current # 0
      <4>1. CASE job.dryRun
        BY <1>0, <1>1, <1>4, <2>0, <3>2, <4>1, SeenWritten DEF Table
      <4>2. CASE ~job.dryRun
        BY <1>4, <3>2, <4>2
      <4> QED
        BY <4>1, <4>2
    <3> QED
      BY <3>1, <3>2
  <2>6. job.dryRun => Open(current)'
    BY <1>1, <1>3, <1>4, <2>0, SeenWritten DEF Open
  <2>7. InTurn'
    BY <1>1, <1>2, <1>3, <1>6, <2>1, <2>6, TurnStays
  <2>8. pc'[i] \notin {"done", "restart"} /\ Unspoilt(i) => Table' = Sequel[i - 1]
    BY <1>5, <2>1, <2>4
  <2>9. pc'[i] = "done" /\ Unspoilt(i) => Table' = Sequel[i]
    BY <2>1, <2>2, <2>5
  <2> QED
    BY <1>1, <1>2, <1>3, <1>6, <2>3, <2>7, <2>8, <2>9, TellsOn
<1>8. CASE Duplicate(Seen(current), i) /\ Refused(i) /\ UNCHANGED <<db, tx>>
  <2>1. pc'[i] = IF job.dryRun \/ OwnTransaction THEN "undo" ELSE "done"
    BY <1>8 DEF Refused, Goto, TypeOK
  <2>2. Unspoilt(i) => RefusedInSequence(i) /\ Sequel[i] = Table
    BY <1>4, <1>5, <1>8, SequelUnfolds, Zenon DEF RefusedInSequence
  <2>3. Unspoilt(i) => err'[i] = RefusedInSequence(i)
    <3>1. err'[i] = TRUE
      BY <1>8, Zenon DEF Refused, TypeOK
    <3>2. RefusedInSequence(i) \in BOOLEAN
      BY Zenon DEF RefusedInSequence
    <3> QED
      BY <2>2, <3>1, <3>2, Zenon
  <2>4. Table' = Table
    BY <1>1, <1>8 DEF Table, Seen
  <2>5. /\ job.dryRun => Open(current)'
        /\ OwnTransaction => Open(current)'
        /\ Savepoint => saved'[i] = tx'[current'].writes
    BY <1>1, <1>3, <1>8 DEF Open
  <2>6. InTurn'
    BY <1>1, <1>2, <1>3, <1>6, <2>1, <2>5, TurnStays DEF Active
  <2> QED
    BY <1>1, <1>2, <1>3, <1>5, <1>6, <2>2, <2>3, <2>4, <2>6, TellsOn
<1> QED
  BY <1>0, <1>2, <1>7, <1>8 DEF RowInsert

LEMMA RowCommitTells ==
  ASSUME IInv, IInv', Tells, NEW i \in Row, RowCommit(i) PROVE Tells'
<1> SUFFICES ASSUME Quiet' PROVE (InTurn /\ TableTells /\ ReportTells)'
  BY DEF Tells
<1> USE DEF IInv
<1>1. /\ pc[i] = "commit" /\ ~err[i] /\ OwnTransaction /\ ~job.dryRun
      /\ UNCHANGED <<job, opened, current, err, doc, saved, found, own>>
      /\ Fault \/ faults' = faults
  BY DEF RowCommit, Where, OwnTransaction
<1>2. /\ Quiet /\ faults' = faults /\ ~Fault /\ InTurn /\ TableTells /\ ReportTells
  BY <1>1, QuietBefore DEF Tells
<1>3. InSequence(i)
  BY <1>1, <1>2, Sequenced DEF Active
<1>4. /\ Goto(i, "done") /\ db' = Seen(current) /\ main' = main
      /\ tx' = [tx EXCEPT ![current].state = "committed"]
  BY <1>2 DEF RowCommit
<1>5. pc'[i] = "done" /\ \A j \in Row : j # i => pc'[j] = pc[j]
  BY <1>4 DEF Goto, TypeOK
<1>6. Table = db /\ Table' = Applied(Table, i)
  BY <1>1, <1>4 DEF Isolated, Table
<1>7. Unspoilt(i) => err'[i] = RefusedInSequence(i)
  BY <1>1, <1>2 DEF ReportTells
<1>8. Unspoilt(i) => Table' = Sequel[i]
  <2>1. Unspoilt(i) => ~RefusedInSequence(i)
    BY <1>1, <1>7, Zenon
  <2>2. Unspoilt(i) => Table = Sequel[i - 1]
    BY <1>1, <1>2, <1>3, TurnFinds
  <2> QED
    BY <1>6, <2>1, <2>2, SequelUnfolds
<1>9. InTurn'
  BY <1>1, <1>2, <1>3, <1>4, <1>5, TurnStays DEF Active
<1> QED
  BY <1>1, <1>2, <1>3, <1>5, <1>7, <1>8, <1>9, TellsOn

(* To restore what is there changes nothing.                               *)
LEMMA UndoesNothing ==
  ASSUME TypeOK, Open(current), tx' = [tx EXCEPT ![current].writes = tx[current].writes]
  PROVE  tx' = tx
<1>1. current \in Tx /\ DOMAIN tx = Tx /\ tx = [t \in Tx |-> tx[t]]
  <2>1. current \in Tx
    BY Settings, Rows DEF Open, Tx
  <2>2. DOMAIN tx = Tx /\ tx = [t \in Tx |-> tx[t]]
    BY DEF TypeOK
  <2> QED
    BY <2>1, <2>2
<1>2. tx[current] = [state |-> tx[current].state, writes |-> tx[current].writes]
  BY <1>1 DEF TypeOK
<1>3. [tx[current] EXCEPT !.writes = tx[current].writes] = tx[current]
  BY <1>2
<1>4. tx' = [tx EXCEPT ![current] = tx[current]]
  BY <1>3
<1> QED
  BY <1>1, <1>4

LEMMA RowUndoTells ==
  ASSUME IInv, IInv', Tells, NEW i \in Row, RowUndo(i) PROVE Tells'
<1> SUFFICES ASSUME Quiet' PROVE (InTurn /\ TableTells /\ ReportTells)'
  BY DEF Tells
<1> USE DEF IInv
<1>1. /\ pc[i] = "undo" /\ err[i] /\ (job.dryRun \/ OwnTransaction)
      /\ UNCHANGED <<job, db, opened, current, err, doc, saved, found, own>>
      /\ Fault \/ faults' = faults
  BY DEF RowUndo, Where
<1>2. /\ Quiet /\ faults' = faults /\ ~Fault /\ InTurn /\ TableTells /\ ReportTells
  BY <1>1, QuietBefore DEF Tells
<1>3. /\ InSequence(i) /\ main = "rows" /\ job.typed[i] /\ Open(current)
      /\ Savepoint => saved[i] = tx[current].writes
  BY <1>1, <1>2, Sequenced DEF Active, InTurn
<1>4. /\ Goto(i, IF job.dryRun /\ ~Savepoint THEN "restart" ELSE "done") /\ main' = main
      /\ IF Savepoint THEN tx' = [tx EXCEPT ![current].writes = saved[i]] ELSE Abort(current)
  BY <1>2, <1>3 DEF RowUndo
<1>5. /\ pc'[i] = IF job.dryRun /\ ~Savepoint THEN "restart" ELSE "done"
      /\ \A j \in Row : j # i => pc'[j] = pc[j]
  BY <1>4 DEF Goto, TypeOK
<1>6. Savepoint => tx' = tx
  BY <1>3, <1>4, UndoesNothing
<1>7. Unspoilt(i) => err'[i] = RefusedInSequence(i)
  BY <1>1, <1>2 DEF ReportTells
<1>8. pc'[i] = "done" => Table' = Table
  BY <1>1, <1>5, <1>6 DEF Table, Seen, OwnTransaction
<1>9. pc'[i] = "done" /\ Unspoilt(i) => Table' = Sequel[i]
  <2>1. Unspoilt(i) => RefusedInSequence(i)
    BY <1>1, <1>7, Zenon
  <2>2. Unspoilt(i) => Table = Sequel[i - 1]
    BY <1>1, <1>2, <1>3, TurnFinds
  <2> QED
    BY <1>8, <2>1, <2>2, SequelUnfolds
<1>10. job.dryRun => Open(current)' \/ pc'[i] = "restart"
  BY <1>1, <1>3, <1>5, <1>6 DEF Open
<1>11. InTurn'
  BY <1>1, <1>2, <1>3, <1>4, <1>5, <1>10, TurnStays DEF Active
<1> QED
  BY <1>1, <1>2, <1>3, <1>5, <1>7, <1>9, <1>11, TellsOn

(* The request ends when all rows are reported. *)
LEMMA RequestEndTells ==
  ASSUME IInv, IInv', Tells, RequestBegin \/ RequestEnd \/ RequestBreak PROVE Tells'
<1> SUFFICES ASSUME Quiet' PROVE (InTurn /\ TableTells /\ ReportTells)'
  BY DEF Tells
<1> USE DEF IInv
<1>1. /\ UNCHANGED <<job, db, pc, err, doc, saved, found, own>>
      /\ Fault \/ faults' = faults
  BY DEF RequestBegin, RequestEnd, RequestBreak
<1>2. /\ Quiet /\ faults' = faults /\ ~Fault /\ InTurn /\ TableTells /\ ReportTells
  BY <1>1, QuietBefore DEF Tells
<1>3. /\ main' \in {"end", "answered"}
      /\ \A i \in Row : pc[i] = "done"
  BY <1>2 DEF RequestBegin, RequestEnd, RequestBreak, InTurn, InOrder
<1>4. InTurn'
  BY <1>1, <1>3 DEF InTurn, Active
<1>5. TableTells'
  BY <1>1, <1>3 DEF TableTells
<1>6. ReportTells'
  <2>1. Sequel' = Sequel
    BY <1>1, SequelStays
  <2>2. \A i \in Row : RefusedInSequence(i)' = RefusedInSequence(i)
    BY <1>1, <2>1, Zenon DEF RefusedInSequence, Duplicate
  <2>3. \A i \in Row : Unspoilt(i)' => Unspoilt(i)
    BY <1>1 DEF Unspoilt, Savepoint
  <2> QED
    BY <1>1, <1>2, <2>2, <2>3 DEF ReportTells
<1> QED
  BY <1>4, <1>5, <1>6

LEMMA InitTells == Init => Tells
<1> SUFFICES ASSUME Init PROVE Tells
  OBVIOUS
<1>1. /\ main = "start" /\ \A i \in Row : pc[i] = "new"
      /\ current = 0 /\ db = found /\ TypeOK
  BY InitInv DEF Init, IInv
<1>2. InTurn
  BY <1>1 DEF InTurn, Active
<1>3. Table = found
  BY <1>1, SeenNone DEF Table
<1>4. TableTells
  <2> SUFFICES ASSUME NEW i \in Row, \A j \in 1 .. (i - 1) : pc[j] = "done"
               PROVE  i - 1 = 0
    BY <1>3, SequelUnfolds DEF TableTells
  <2>1. 1 \in Row
    BY Rows DEF Row
  <2> QED
    BY <1>1, <2>1, Rows
<1>5. ReportTells
  BY <1>1 DEF ReportTells
<1> QED
  BY <1>2, <1>4, <1>5 DEF Tells

LEMMA StutterTells == Tells /\ UNCHANGED vars => Tells'
<1> SUFFICES ASSUME Tells, UNCHANGED vars, Quiet' PROVE (InTurn /\ TableTells /\ ReportTells)'
  BY DEF Tells
<1>1. Quiet
  BY DEF vars, Quiet, Limit
<1>2. InTurn'
  BY <1>1 DEF Tells, InTurn, vars, Active, Savepoint, OwnTransaction, Open
<1>3. Sequel' = Sequel
  BY SequelStays DEF vars
<1>4. Table' = Table /\ \A i \in Row : Unspoilt(i)' = Unspoilt(i)
  BY DEF vars, Table, Seen, Unspoilt, Savepoint
<1>5. \A i \in Row : RefusedInSequence(i)' = RefusedInSequence(i)
  BY <1>3, Zenon DEF RefusedInSequence, Duplicate, vars
<1> QED
  BY <1>1, <1>2, <1>3, <1>4, <1>5 DEF Tells, TableTells, ReportTells, vars

LEMMA TellsStep == IInv /\ IInv' /\ Tells /\ [Next]_vars => Tells'
<1> SUFFICES ASSUME IInv, IInv', Tells, [Next]_vars PROVE Tells'
  OBVIOUS
<1>1. CASE RequestStep
  BY <1>1, RequestStartTells, RequestEndTells DEF RequestStep
<1>2. ASSUME NEW i \in Row, RowStep(i) PROVE Tells'
  BY <1>2, RowStartTells, RowBeginTells, RowFindTells, RowInsertTells, RowCommitTells,
     RowUndoTells, RowRestartTells DEF RowStep
<1>3. CASE UNCHANGED vars
  BY <1>3, StutterTells
<1> QED
  BY <1>1, <1>2, <1>3 DEF Next

(* With rows one at a time and a database that does not fail, the report   *)
(* says of each row what a sequential import would have said, for files of *)
(* every length: the shared transaction, savepoints and undone rows do not *)
(* show.  A validation without savepoints says so until it undoes a row.   *)
THEOREM ReportTellsTheSequence == Spec => []ReportIsSequential
<1>1. IInv /\ Tells => ReportIsSequential
  BY DEF Tells, Quiet, ReportTells, ReportIsSequential, Unspoilt
<1>2. Spec => []Tells
  BY InitTells, TellsStep, Invariance, PTL DEF Spec
<1> QED
  BY <1>1, <1>2, Invariance, PTL
===============================================================================
