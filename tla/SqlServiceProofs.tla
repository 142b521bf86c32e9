--------------------------- MODULE SqlServiceProofs ---------------------------
(***************************************************************************)
(* Proofs about SqlService, for any number of rows, columns, values, calls *)
(* and connections: calls that overlap keep the promise of TablePromise,   *)
(* and a call that nobody disturbs does exactly what it says.              *)
(***************************************************************************)
EXTENDS SqlService, TLAPS

(* Only a call that is about to commit holds rows, each of them alone.     *)
Locks ==
  /\ writes = [r \in Request |-> writes[r]]
  /\ \A r \in Request : pc[r] # "commit" => writes[r] = NoWrites
  /\ \A q, r \in Request : q # r => DOMAIN writes[q] \cap DOMAIN writes[r] = {}

(* What a call answers is fixed by the way it has come.                    *)
AnswersOf(r) ==
  /\ pc[r] \in {"new", "find", "write"} => answer[r] = "none"
  /\ pc[r] = "find" => ReadsFirst(r)
  /\ pc[r] = "commit" => answer[r] \in {"none", "null"}
  /\ pc[r] = "commit" /\ answer[r] = "null" => ReadsFirst(r) /\ writes[r] = NoWrites
  /\ pc[r] = "abort" => answer[r] \in {"notFound", "error"}

Answers == \A r \in Request : AnswersOf(r)

(* What a call holds is what it may make of the rows as they are now, for  *)
(* nobody else changes them before it commits.                             *)
HoldsOf(r) ==
  /\ pc[r] = "write" /\ ReadsFirst(r) => found[r] \in call[r].ids
  /\ pc[r] = "commit" /\ answer[r] = "none" =>
       /\ DOMAIN writes[r] \subseteq call[r].ids
       /\ call[r].do = "create" => DOMAIN writes[r] = call[r].ids
       /\ ReadsFirst(r) => DOMAIN writes[r] \subseteq {found[r]}
       /\ \A id \in DOMAIN writes[r] :
            /\ Promise!Writable(call[r], rows[id])
            /\ writes[r][id] \in Promise!Written(call[r], rows[id])

Holds == \A r \in Request : HoldsOf(r)

(* The table once r has committed. *)
After(r) == [id \in Id |-> IF id \in DOMAIN writes[r] THEN writes[r][id] ELSE rows[id]]

(* A call that nobody has disturbed has read the row as it is, and will    *)
(* have done what it would have done alone.                                *)
UndisturbedOf(r) ==
  ~dirty[r] =>
    /\ pc[r] = "write" /\ ReadsFirst(r) =>
         found[r] \in Selected(r) /\ doc[r] = rows[found[r]]
    /\ pc[r] = "commit" /\ answer[r] = "none" =>
         /\ After(r) \in Serial(r)
         /\ call[r].do \in {"updateById", "updateOne"} => doc[r] = After(r)[found[r]]
    /\ pc[r] = "commit" /\ answer[r] = "null" => Selected(r) = {}

Undisturbed == \A r \in Request : UndisturbedOf(r)

IInv == TypeOK /\ Locks /\ Answers /\ Holds /\ Undisturbed
-----------------------------------------------------------------------------
(* Rows and statements *)

LEMMA NoRowType ==
  /\ NoRow \in Row /\ NoRow.life = "unborn"
  /\ DOMAIN NoWrites = {}
<1>1. (CHOOSE v \in Value : TRUE) \in Value
  BY ValueAssumption
<1> QED
  BY <1>1 DEF NoRow, Row, NoWrites

LEMMA CallType ==
  ASSUME TypeOK, NEW r \in Request
  PROVE  /\ call[r].do \in Command /\ call[r].ids \subseteq Id /\ call[r].set \subseteq Column
         /\ call[r].values \in [Column -> Value]
         /\ Created(call[r]) \in Row
<1>1. call[r] \in [do : Command, ids : SUBSET Id, set : SUBSET Column, values : [Column -> Value],
                   notFoundCode : BOOLEAN]
  BY CallAssumption DEF TypeOK
<1> QED
  BY <1>1 DEF Created, Row

LEMMA SetColumnsType ==
  ASSUME TypeOK, NEW r \in Request, NEW row \in Row, NEW set \in SUBSET Column
  PROVE  /\ SetColumns(row, call[r], set) =
              [life |-> row.life,
               cols |-> [k \in Column |-> IF k \in set THEN call[r].values[k] ELSE row.cols[k]]]
         /\ SetColumns(row, call[r], set) \in Row
         /\ SetColumns(row, call[r], set) = Promise!SetColumns(row, call[r], set)
<1> DEFINE cols == [k \in Column |-> IF k \in set THEN call[r].values[k] ELSE row.cols[k]]
           theirs == [k \in Column |-> IF k \notin set THEN row.cols[k]
                                       ELSE IF call[r].values[k] = None THEN row.cols[k] + 1
                                       ELSE call[r].values[k]]
<1>1. call[r].values \in [Column -> Value] /\ row.cols \in [Column -> Value]
      /\ row = [life |-> row.life, cols |-> row.cols] /\ row.life \in {"unborn", "live", "deleted"}
  BY CallType DEF Row
<1>2. cols \in [Column -> Value]
  BY <1>1
<1>3. theirs = cols
  <2>1. \A k \in Column : call[r].values[k] # None
    BY <1>1, NoneAssumption
  <2> QED
    BY <2>1
<1> HIDE DEF cols, theirs
<1>4. [row EXCEPT !.cols = cols] = [life |-> row.life, cols |-> cols]
  BY <1>1
<1>5. SetColumns(row, call[r], set) = [row EXCEPT !.cols = cols]
  BY DEF SetColumns, cols
<1>6. Promise!SetColumns(row, call[r], set) = [row EXCEPT !.cols = theirs]
  BY DEF Promise!SetColumns, theirs
<1>7. [life |-> row.life, cols |-> cols] \in Row
  BY <1>1, <1>2 DEF Row
<1> QED
  BY <1>3, <1>4, <1>5, <1>6, <1>7 DEF cols

LEMMA DeletedType ==
  ASSUME NEW row \in Row
  PROVE  Deleted(row) \in Row /\ Deleted(row).life = "deleted"
BY DEF Deleted, Row

(* The statements are told apart by what the call does. *)
LEMMA StatementOf ==
  ASSUME NEW r \in Request
  PROVE  /\ call[r].do = "create" => Statement(r) = InsertRows(r)
         /\ call[r].do \in {"updateById", "updateOne"} => Statement(r) = UpdateFound(r)
         /\ call[r].do = "updateMany" => Statement(r) = UpdateSelected(r)
         /\ call[r].do = "deleteOne" => Statement(r) = DestroyFound(r)
         /\ call[r].do = "deleteMany" => Statement(r) = DestroySelected(r)
BY DEF Statement

(* A statement writes rows that its call may write. *)
LEMMA StatementMay ==
  ASSUME TypeOK, Holds, NEW r \in Request, pc[r] = "write",
         call[r].do = "create" => \A id \in call[r].ids : rows[id].life = "unborn"
  PROVE  /\ DOMAIN Statement(r) \subseteq Id
         /\ Statement(r) \in [DOMAIN Statement(r) -> Row]
         /\ DOMAIN Statement(r) \subseteq call[r].ids
         /\ call[r].do = "create" => DOMAIN Statement(r) = call[r].ids
         /\ ReadsFirst(r) => DOMAIN Statement(r) \subseteq {found[r]}
         /\ \A id \in DOMAIN Statement(r) :
              /\ Promise!Writable(call[r], rows[id])
              /\ Statement(r)[id] \in Promise!Written(call[r], rows[id])
<1>1. /\ call[r].do \in Command /\ call[r].ids \subseteq Id /\ call[r].set \subseteq Column
      /\ Created(call[r]) \in Row
  BY CallType
<1>2. \A id \in Id : rows[id] \in Row
  BY DEF TypeOK
<1>3. CASE call[r].do = "create"
  <2>1. Statement(r) = [id \in call[r].ids |-> Created(call[r])]
    BY <1>3, StatementOf DEF InsertRows
  <2>2. ~ReadsFirst(r)
    BY <1>3 DEF ReadsFirst
  <2>3. \A row : Promise!Written(call[r], row) = {Created(call[r])}
    BY <1>3 DEF Promise!Written
  <2>4. \A id \in call[r].ids : Promise!Writable(call[r], rows[id])
    BY <1>3 DEF Promise!Writable
  <2> QED
    BY <1>1, <2>1, <2>2, <2>3, <2>4
<1>4. CASE call[r].do \in {"updateById", "updateOne"}
  <2> DEFINE ids == {found[r]} \cap {id \in Id : rows[id].life = "live" /\ ~Unchanged(r)}
             changed == {k \in call[r].set : doc[r].cols[k] # call[r].values[k]}
  <2>1. Statement(r) = [id \in ids |-> Saved(r, rows[id])]
    BY <1>4, StatementOf DEF UpdateFound
  <2>2. \A id \in ids : id \in Id /\ rows[id].life = "live" /\ id = found[r]
    OBVIOUS
  <2>3. ReadsFirst(r) /\ found[r] \in call[r].ids
    BY <1>4 DEF ReadsFirst, Holds, HoldsOf
  <2>4. changed \in SUBSET call[r].set /\ changed \in SUBSET Column
    BY <1>1
  <2> HIDE DEF ids
  <2>5. \A id \in ids : Saved(r, rows[id]) = SetColumns(rows[id], call[r], changed)
    BY DEF Saved
  <2> HIDE DEF changed
  <2>6. \A id \in ids : /\ Saved(r, rows[id]) \in Row
                        /\ Saved(r, rows[id]) = Promise!SetColumns(rows[id], call[r], changed)
    <3> SUFFICES ASSUME NEW id \in ids
                 PROVE  /\ Saved(r, rows[id]) \in Row
                        /\ Saved(r, rows[id]) = Promise!SetColumns(rows[id], call[r], changed)
      OBVIOUS
    <3>1. rows[id] \in Row
      BY <1>2, <2>2
    <3>2. /\ SetColumns(rows[id], call[r], changed) \in Row
          /\ SetColumns(rows[id], call[r], changed) = Promise!SetColumns(rows[id], call[r], changed)
      BY <2>4, <3>1, SetColumnsType
    <3> QED
      BY <2>5, <3>2
  <2>7. \A row : Promise!Written(call[r], row) =
                   {Promise!SetColumns(row, call[r], set) : set \in SUBSET call[r].set}
    BY <1>4 DEF Promise!Written
  <2>8. \A id \in ids : /\ Promise!Writable(call[r], rows[id])
                        /\ Saved(r, rows[id]) \in Promise!Written(call[r], rows[id])
    BY <1>4, <2>2, <2>4, <2>6, <2>7 DEF Promise!Writable
  <2> QED
    BY <1>4, <2>1, <2>2, <2>3, <2>6, <2>8
<1>5. CASE call[r].do = "updateMany"
  <2>1. Statement(r) = [id \in Selected(r) |-> SetColumns(rows[id], call[r], call[r].set)]
    BY <1>5, StatementOf DEF UpdateSelected
  <2>2. \A id \in Selected(r) : id \in call[r].ids /\ id \in Id /\ rows[id].life = "live"
    BY <1>1 DEF Selected
  <2>3. \A id \in Selected(r) :
          /\ SetColumns(rows[id], call[r], call[r].set) \in Row
          /\ SetColumns(rows[id], call[r], call[r].set)
               = Promise!SetColumns(rows[id], call[r], call[r].set)
    BY <1>1, <1>2, <2>2, SetColumnsType
  <2>4. \A row : Promise!Written(call[r], row) = {Promise!SetColumns(row, call[r], call[r].set)}
    BY <1>5 DEF Promise!Written
  <2>5. \A id \in Selected(r) : Promise!Writable(call[r], rows[id])
    BY <1>5, <2>2 DEF Promise!Writable
  <2> QED
    BY <1>5, <2>1, <2>2, <2>3, <2>4, <2>5 DEF ReadsFirst
<1>6. CASE call[r].do = "deleteOne"
  <2> DEFINE ids == {found[r]} \cap {id \in Id : rows[id].life = "live"}
  <2>1. Statement(r) = [id \in ids |-> Deleted(rows[id])]
    BY <1>6, StatementOf DEF DestroyFound
  <2>2. \A id \in ids : id \in Id /\ rows[id].life = "live" /\ id = found[r]
    OBVIOUS
  <2>3. ReadsFirst(r) /\ found[r] \in call[r].ids
    BY <1>6 DEF ReadsFirst, Holds, HoldsOf
  <2> HIDE DEF ids
  <2>4. \A id \in ids : Deleted(rows[id]) \in Row
    BY <1>2, <2>2, DeletedType
  <2>5. \A row : Promise!Written(call[r], row) = {Deleted(row)}
    BY <1>6 DEF Promise!Written, Deleted
  <2>6. \A id \in ids : Promise!Writable(call[r], rows[id])
    BY <1>6, <2>2 DEF Promise!Writable
  <2> QED
    BY <1>6, <2>1, <2>2, <2>3, <2>4, <2>5, <2>6
<1>7. CASE call[r].do = "deleteMany"
  <2>1. Statement(r) = [id \in Selected(r) |-> Deleted(rows[id])]
    BY <1>7, StatementOf DEF DestroySelected
  <2>2. \A id \in Selected(r) : id \in call[r].ids /\ id \in Id /\ rows[id].life = "live"
    BY <1>1 DEF Selected
  <2>3. \A id \in Selected(r) : Deleted(rows[id]) \in Row
    BY <1>2, <2>2, DeletedType
  <2>4. \A row : Promise!Written(call[r], row) = {Deleted(row)}
    BY <1>7 DEF Promise!Written, Deleted
  <2>5. \A id \in Selected(r) : Promise!Writable(call[r], rows[id])
    BY <1>7, <2>2 DEF Promise!Writable
  <2> QED
    BY <1>7, <2>1, <2>2, <2>3, <2>4, <2>5 DEF ReadsFirst
<1> QED
  BY <1>1, <1>3, <1>4, <1>5, <1>6, <1>7 DEF Command

(* What a call makes of the table when it is alone, command by command. *)
LEMMA SerialOf ==
  ASSUME NEW r \in Request
  PROVE  /\ call[r].do = "create" =>
              Serial(r) = {[id \in Id |-> IF id \in call[r].ids THEN Created(call[r]) ELSE rows[id]]}
         /\ call[r].do \in {"updateById", "updateOne"} =>
              Serial(r) = {[id \in Id |-> IF id \in {one} THEN SetColumns(rows[id], call[r], call[r].set)
                                                           ELSE rows[id]] : one \in Selected(r)}
         /\ call[r].do = "updateMany" =>
              Serial(r) = {[id \in Id |-> IF id \in Selected(r)
                                            THEN SetColumns(rows[id], call[r], call[r].set)
                                            ELSE rows[id]]}
         /\ call[r].do = "deleteOne" =>
              Serial(r) = {[id \in Id |-> IF id \in {one} THEN Deleted(rows[id]) ELSE rows[id]]
                             : one \in Selected(r)}
         /\ call[r].do = "deleteMany" =>
              Serial(r) = {[id \in Id |-> IF id \in Selected(r) THEN Deleted(rows[id]) ELSE rows[id]]}
BY DEF Serial

(* With what was read still there, writing the columns that differ is      *)
(* writing all of them.                                                    *)
LEMMA SavedAlone ==
  ASSUME TypeOK, NEW r \in Request, NEW id \in Id, doc[r] = rows[id]
  PROVE  /\ Saved(r, rows[id]) = SetColumns(rows[id], call[r], call[r].set)
         /\ Unchanged(r) => rows[id] = SetColumns(rows[id], call[r], call[r].set)
<1> DEFINE changed == {k \in call[r].set : doc[r].cols[k] # call[r].values[k]}
           all == [k \in Column |-> IF k \in call[r].set THEN call[r].values[k] ELSE rows[id].cols[k]]
           some == [k \in Column |-> IF k \in changed THEN call[r].values[k] ELSE rows[id].cols[k]]
<1>1. call[r].set \subseteq Column /\ rows[id] \in Row
  BY CallType DEF TypeOK
<1>2. changed \in SUBSET Column /\ call[r].set \in SUBSET Column
  BY <1>1
<1>3. Saved(r, rows[id]) = SetColumns(rows[id], call[r], changed)
  BY DEF Saved
<1>4. some = all
  BY DEF changed
<1>5. SetColumns(rows[id], call[r], changed) = [life |-> rows[id].life, cols |-> some]
  <2> HIDE DEF changed
  <2> QED
    BY <1>1, <1>2, SetColumnsType
<1>6. SetColumns(rows[id], call[r], call[r].set) = [life |-> rows[id].life, cols |-> all]
  BY <1>1, <1>2, SetColumnsType
<1>7. ASSUME Unchanged(r) PROVE all = rows[id].cols
  BY <1>1, <1>7 DEF Unchanged, Row
<1>8. rows[id] = [life |-> rows[id].life, cols |-> rows[id].cols]
  BY <1>1 DEF Row
<1> QED
  BY <1>3, <1>4, <1>5, <1>6, <1>7, <1>8

(* What the statement of an undisturbed call makes of the table. *)
LEMMA StatementAlone ==
  ASSUME TypeOK, Undisturbed, NEW r \in Request, pc[r] = "write", ~dirty[r],
         NEW after,
         after = [id \in Id |-> IF id \in DOMAIN Statement(r) THEN Statement(r)[id] ELSE rows[id]]
  PROVE  /\ after \in Serial(r)
         /\ call[r].do \in {"updateById", "updateOne"} =>
              SetColumns(doc[r], call[r], call[r].set) = after[found[r]]
<1>1. call[r].do \in Command
  BY CallType
<1>2. rows \in [Id -> Row]
  BY DEF TypeOK
<1>3. CASE call[r].do = "create"
  <2>1. Statement(r) = [id \in call[r].ids |-> Created(call[r])]
    BY <1>3, StatementOf DEF InsertRows
  <2>2. after = [id \in Id |-> IF id \in call[r].ids THEN Created(call[r]) ELSE rows[id]]
    BY <2>1
  <2> QED
    BY <1>3, <2>2, SerialOf
<1>4. CASE call[r].do \in {"updateById", "updateOne"}
  <2> DEFINE one == found[r]
             set == SetColumns(rows[one], call[r], call[r].set)
             ids == {one} \cap {id \in Id : rows[id].life = "live" /\ ~Unchanged(r)}
             mine == [id \in Id |-> IF id \in {one} THEN SetColumns(rows[id], call[r], call[r].set)
                                                    ELSE rows[id]]
  <2>1. Statement(r) = [id \in ids |-> Saved(r, rows[id])]
    BY <1>4, StatementOf DEF UpdateFound
  <2>2. one \in Selected(r) /\ doc[r] = rows[one]
    BY <1>4 DEF Undisturbed, UndisturbedOf, ReadsFirst
  <2>3. one \in Id /\ rows[one].life = "live"
    BY <2>2, CallType DEF Selected
  <2>4. Saved(r, rows[one]) = set /\ (Unchanged(r) => rows[one] = set)
    BY <2>2, <2>3, SavedAlone
  <2>5. ids = IF Unchanged(r) THEN {} ELSE {one}
    BY <2>3
  <2>6. \A id \in Id : after[id] = mine[id]
    <3> SUFFICES ASSUME NEW id \in Id PROVE after[id] = mine[id]
      OBVIOUS
    <3>1. after[id] = IF id \in ids THEN Saved(r, rows[id]) ELSE rows[id]
      BY <2>1
    <3>2. CASE id = one
      BY <2>4, <2>5, <3>1, <3>2
    <3>3. CASE id # one
      BY <2>5, <3>1, <3>3
    <3> QED
      BY <3>2, <3>3
  <2>7. after = mine
    BY <2>6
  <2>8. mine \in Serial(r)
    BY <1>4, <2>2, SerialOf
  <2>9. mine[one] = set
    BY <2>3
  <2> QED
    BY <2>2, <2>7, <2>8, <2>9
<1>5. CASE call[r].do = "updateMany"
  <2>1. Statement(r) = [id \in Selected(r) |-> SetColumns(rows[id], call[r], call[r].set)]
    BY <1>5, StatementOf DEF UpdateSelected
  <2>2. after = [id \in Id |-> IF id \in Selected(r) THEN SetColumns(rows[id], call[r], call[r].set)
                                                     ELSE rows[id]]
    BY <2>1
  <2> QED
    BY <1>5, <2>2, SerialOf
<1>6. CASE call[r].do = "deleteOne"
  <2> DEFINE one == found[r]
  <2>1. Statement(r) = [id \in {one} \cap {id \in Id : rows[id].life = "live"} |-> Deleted(rows[id])]
    BY <1>6, StatementOf DEF DestroyFound
  <2>2. one \in Selected(r)
    BY <1>6 DEF Undisturbed, UndisturbedOf, ReadsFirst
  <2>3. {one} \cap {id \in Id : rows[id].life = "live"} = {one}
    BY <2>2, CallType DEF Selected
  <2>4. after = [id \in Id |-> IF id \in {one} THEN Deleted(rows[id]) ELSE rows[id]]
    BY <2>1, <2>3
  <2> QED
    BY <1>6, <2>2, <2>4, SerialOf
<1>7. CASE call[r].do = "deleteMany"
  <2>1. Statement(r) = [id \in Selected(r) |-> Deleted(rows[id])]
    BY <1>7, StatementOf DEF DestroySelected
  <2>2. after = [id \in Id |-> IF id \in Selected(r) THEN Deleted(rows[id]) ELSE rows[id]]
    BY <2>1
  <2> QED
    BY <1>7, <2>2, SerialOf
<1> QED
  BY <1>1, <1>3, <1>4, <1>5, <1>6, <1>7 DEF Command
-----------------------------------------------------------------------------
(* The steps *)

LEMMA InitInv ==
  Init => IInv
<1> SUFFICES ASSUME Init PROVE IInv
  OBVIOUS
<1>1. NoRow \in Row /\ DOMAIN NoWrites = {} /\ [NoRow EXCEPT !.life = "live"] \in Row
  BY NoRowType DEF Row
<1>2. TypeOK
  <2>1. rows \in [Id -> Row] /\ doc \in [Request -> Row]
    BY <1>1 DEF Init
  <2>2. \A r \in Request : DOMAIN writes[r] \subseteq Id /\ writes[r] \in [DOMAIN writes[r] -> Row]
    BY DEF Init, NoWrites
  <2> QED
    BY <2>1, <2>2, MaxFaultAssumption DEF Init, TypeOK
<1> QED
  BY <1>1, <1>2 DEF Init, IInv, Locks, Answers, AnswersOf, Holds, HoldsOf, Undisturbed, UndisturbedOf

LEMMA SerialSame ==
  ASSUME NEW r \in Request, rows' = rows, call' = call
  PROVE  Serial(r)' = Serial(r) /\ Selected(r)' = Selected(r)
BY DEF Serial, Selected, SetColumns, Deleted, Created

(* A call that goes on, and leaves the committed rows alone. *)
LEMMA Goes ==
  ASSUME IInv, NEW r \in Request, UNCHANGED <<rows, setup, dirty>>,
         NEW where \in {"find", "write", "commit", "abort", "done"}, Goto(r, where),
         writes' \in [Request -> UNION {[ids -> Row] : ids \in SUBSET Id}],
         found' \in [Request -> Id \cup {None}],
         doc' \in [Request -> Row],
         answer' \in [Request -> {"none", "ok", "null", "notFound", "error", "unknown"}],
         Fault \/ faults' = faults,
         \A q \in Request : q # r => /\ writes'[q] = writes[q] /\ found'[q] = found[q]
                                     /\ doc'[q] = doc[q] /\ answer'[q] = answer[q],
         where # "commit" => writes'[r] = NoWrites,
         \A q \in Request : q # r => DOMAIN writes'[r] \cap DOMAIN writes[q] = {},
         AnswersOf(r)', HoldsOf(r)', UndisturbedOf(r)'
  PROVE  IInv'
<1> USE DEF IInv
<1>1. /\ pc'[r] = where /\ \A q \in Request : q # r => pc'[q] = pc[q]
      /\ pc' \in [Request -> {"new", "find", "write", "commit", "abort", "done"}]
  BY DEF TypeOK, Goto
<1>2. rows' = rows /\ call' = call /\ pool' = pool /\ dirty' = dirty
  BY DEF setup
<1>3. \A q \in Request : ReadsFirst(q)' <=> ReadsFirst(q)
  BY <1>2 DEF ReadsFirst
<1>4. TypeOK'
  <2>1. faults' \in 0 .. MaxFault
    BY MaxFaultAssumption DEF TypeOK, Fault
  <2>2. \A q \in Request : DOMAIN writes'[q] \subseteq Id /\ writes'[q] \in [DOMAIN writes'[q] -> Row]
    OBVIOUS
  <2>3. \A q \in Request : pc'[q] = "write" /\ ReadsFirst(q) => found'[q] \in Id
    <3>1. pc'[r] = "write" /\ ReadsFirst(r) => found'[r] \in Id
      BY <1>2, <1>3, CallType DEF HoldsOf
    <3> QED
      BY <1>1, <3>1 DEF TypeOK
  <2> QED
    BY <1>1, <1>2, <1>3, <2>1, <2>2, <2>3 DEF TypeOK
<1>5. Locks'
  BY <1>1 DEF Locks
<1>6. Answers'
  <2> SUFFICES ASSUME NEW q \in Request, q # r PROVE AnswersOf(q)'
    BY DEF Answers
  <2> QED
    BY <1>1, <1>3 DEF Answers, AnswersOf
<1>7. Holds'
  <2> SUFFICES ASSUME NEW q \in Request, q # r PROVE HoldsOf(q)'
    BY DEF Holds
  <2> QED
    BY <1>1, <1>2, <1>3 DEF Holds, HoldsOf
<1>8. Undisturbed'
  <2> SUFFICES ASSUME NEW q \in Request, q # r PROVE UndisturbedOf(q)'
    BY DEF Undisturbed
  <2>1. Serial(q)' = Serial(q) /\ Selected(q)' = Selected(q)
    BY <1>2, SerialSame
  <2>2. After(q)' = After(q)
    BY <1>2 DEF After
  <2> QED
    BY <1>1, <1>2, <1>3, <2>1, <2>2 DEF Undisturbed, UndisturbedOf
<1> QED
  BY <1>4, <1>5, <1>6, <1>7, <1>8

(* Of what they hold, calls that have not yet written hold nothing. *)
LEMMA Quiet ==
  ASSUME IInv, NEW r \in Request
  PROVE  /\ writes \in [Request -> UNION {[ids -> Row] : ids \in SUBSET Id}]
         /\ pc[r] # "commit" => writes[r] = NoWrites
         /\ \A q \in Request : q # r => DOMAIN writes[r] \cap DOMAIN writes[q] = {}
<1>1. \A q \in Request : writes[q] \in UNION {[ids -> Row] : ids \in SUBSET Id}
  BY DEF IInv, TypeOK
<1>2. writes \in [Request -> UNION {[ids -> Row] : ids \in SUBSET Id}]
  <2>1. writes = [q \in Request |-> writes[q]]
    BY DEF IInv, Locks
  <2> QED
    BY <1>1, <2>1
<1> QED
  BY <1>2 DEF IInv, Locks

LEMMA BeginInv ==
  ASSUME IInv, NEW r \in Request, Begin(r)
  PROVE  IInv'
<1>1. pc[r] = "new" /\ answer[r] = "none"
  BY DEF Begin, IInv, Answers, AnswersOf
<1>2. ReadsFirst(r)' <=> ReadsFirst(r)
  BY DEF Begin, setup, ReadsFirst
<1>3. UNCHANGED <<rows, setup, dirty, writes, found, doc>>
  BY DEF Begin
<1>4. ASSUME NEW first \in {"find", "write"}, (first = "find") <=> ReadsFirst(r),
             Goto(r, first), UNCHANGED <<answer, faults>>
      PROVE  IInv'
  <2>1. pc'[r] = first /\ answer'[r] = "none"
    BY <1>1, <1>4 DEF Goto, IInv, TypeOK
  <2>2. AnswersOf(r)' /\ HoldsOf(r)' /\ UndisturbedOf(r)'
    BY <1>2, <1>4, <2>1 DEF AnswersOf, HoldsOf, UndisturbedOf
  <2> QED
    BY <1>1, <1>3, <1>4, <2>2, Goes, Quiet DEF IInv, TypeOK
<1>5. CASE Fault /\ Goto(r, "done") /\ Respond(r, "error")
  <2>1. pc'[r] = "done"
    BY <1>5 DEF Goto, IInv, TypeOK
  <2>2. AnswersOf(r)' /\ HoldsOf(r)' /\ UndisturbedOf(r)'
    BY <2>1 DEF AnswersOf, HoldsOf, UndisturbedOf
  <2>3. /\ answer' \in [Request -> {"none", "ok", "null", "notFound", "error", "unknown"}]
        /\ \A q \in Request : q # r => answer'[q] = answer[q]
    BY <1>5 DEF Respond, IInv, TypeOK
  <2> QED
    BY <1>1, <1>3, <1>5, <2>2, <2>3, Goes, Quiet DEF IInv, TypeOK
<1> QED
  BY <1>4, <1>5 DEF Begin

LEMMA FindInv ==
  ASSUME IInv, NEW r \in Request, Find(r)
  PROVE  IInv'
<1>1. pc[r] = "find" /\ answer[r] = "none" /\ writes[r] = NoWrites
  BY DEF Find, IInv, Answers, AnswersOf, Locks
<1>2. (ReadsFirst(r)' <=> ReadsFirst(r)) /\ call' = call
  BY DEF Find, setup, ReadsFirst
<1>3. UNCHANGED <<rows, setup, writes, dirty>>
  BY DEF Find
<1>4. ASSUME NEW id \in Selected(r), found' = [found EXCEPT ![r] = id],
             doc' = [doc EXCEPT ![r] = rows[id]], Goto(r, "write"), UNCHANGED <<answer, faults>>
      PROVE  IInv'
  <2>1. id \in Id /\ id \in call[r].ids
    BY CallType DEF Selected, IInv
  <2>2. /\ pc'[r] = "write" /\ answer'[r] = "none" /\ found'[r] = id /\ doc'[r] = rows[id]
        /\ found' \in [Request -> Id \cup {None}] /\ doc' \in [Request -> Row]
    BY <1>1, <1>4, <2>1 DEF Goto, IInv, TypeOK
  <2>3. \A q \in Request : q # r => found'[q] = found[q] /\ doc'[q] = doc[q]
    BY <1>4 DEF IInv, TypeOK
  <2>4. Selected(r)' = Selected(r)
    BY <1>2, <1>3 DEF Selected
  <2>5. AnswersOf(r)' /\ HoldsOf(r)' /\ UndisturbedOf(r)'
    BY <1>2, <1>3, <2>1, <2>2, <2>4 DEF AnswersOf, HoldsOf, UndisturbedOf
  <2> QED
    BY <1>1, <1>3, <1>4, <2>2, <2>3, <2>5, Goes, Quiet DEF IInv, TypeOK
<1>5. ASSUME NEW why \in {"notFound", "error"}, Throw(r, why), UNCHANGED <<found, doc>>,
             Fault \/ faults' = faults
      PROVE  IInv'
  <2>1. pc'[r] = "abort" /\ answer'[r] = why
    BY <1>5 DEF Throw, Goto, Respond, IInv, TypeOK
  <2>2. AnswersOf(r)' /\ HoldsOf(r)' /\ UndisturbedOf(r)'
    BY <2>1 DEF AnswersOf, HoldsOf, UndisturbedOf
  <2>3. /\ answer' \in [Request -> {"none", "ok", "null", "notFound", "error", "unknown"}]
        /\ \A q \in Request : q # r => answer'[q] = answer[q]
    BY <1>5 DEF Throw, Respond, IInv, TypeOK
  <2>4. Goto(r, "abort")
    BY <1>5 DEF Throw
  <2> QED
    BY <1>1, <1>3, <1>5, <2>2, <2>3, <2>4, Goes, Quiet DEF IInv, TypeOK
<1>6. CASE /\ Selected(r) = {} /\ Goto(r, "commit") /\ Respond(r, "null")
           /\ UNCHANGED <<found, doc, faults>>
  <2>1. pc'[r] = "commit" /\ answer'[r] = "null"
    BY <1>6 DEF Goto, Respond, IInv, TypeOK
  <2>2. ReadsFirst(r)
    BY <1>1 DEF IInv, Answers, AnswersOf
  <2>3. Selected(r)' = Selected(r)
    BY <1>2, <1>3 DEF Selected
  <2>4. AnswersOf(r)' /\ HoldsOf(r)' /\ UndisturbedOf(r)'
    BY <1>1, <1>2, <1>3, <1>6, <2>1, <2>2, <2>3 DEF AnswersOf, HoldsOf, UndisturbedOf
  <2>5. /\ answer' \in [Request -> {"none", "ok", "null", "notFound", "error", "unknown"}]
        /\ \A q \in Request : q # r => answer'[q] = answer[q]
    BY <1>6 DEF Respond, IInv, TypeOK
  <2> QED
    BY <1>1, <1>3, <1>6, <2>4, <2>5, Goes, Quiet DEF IInv, TypeOK
<1> QED
  BY <1>4, <1>5, <1>6 DEF Find

LEMMA AbortInv ==
  ASSUME IInv, NEW r \in Request, Abort(r)
  PROVE  IInv'
<1>1. UNCHANGED <<rows, setup, found, doc, dirty>>
  BY DEF Abort
<1>2. pc'[r] = "done"
  BY DEF Abort, End, Goto, IInv, TypeOK
<1>3. AnswersOf(r)' /\ HoldsOf(r)' /\ UndisturbedOf(r)'
  BY <1>2 DEF AnswersOf, HoldsOf, UndisturbedOf
<1>4. /\ answer' \in [Request -> {"none", "ok", "null", "notFound", "error", "unknown"}]
      /\ \A q \in Request : q # r => answer'[q] = answer[q]
      /\ Fault \/ faults' = faults
  BY DEF Abort, Respond, IInv, TypeOK
<1>5. /\ writes' \in [Request -> UNION {[ids -> Row] : ids \in SUBSET Id}]
      /\ writes'[r] = NoWrites
      /\ \A q \in Request : q # r => writes'[q] = writes[q]
  <2>1. NoWrites \in UNION {[ids -> Row] : ids \in SUBSET Id}
    BY DEF NoWrites
  <2> QED
    BY <2>1, Quiet DEF Abort, End
<1>6. Goto(r, "done")
  BY DEF Abort, End
<1>7. \A q \in Request : q # r => DOMAIN writes'[r] \cap DOMAIN writes[q] = {}
  BY <1>5, NoRowType
<1> QED
  BY <1>1, <1>3, <1>4, <1>5, <1>6, <1>7, Goes DEF IInv, TypeOK

LEMMA WriteInv ==
  ASSUME IInv, NEW r \in Request, Write(r)
  PROVE  IInv'
<1>1. pc[r] = "write" /\ answer[r] = "none" /\ writes[r] = NoWrites
  BY DEF Write, IInv, Answers, AnswersOf, Locks
<1>2. UNCHANGED <<rows, setup, found, dirty>>
  BY DEF Write
<1>3. ReadsFirst(r)' <=> ReadsFirst(r)
  BY <1>2 DEF setup, ReadsFirst
<1>4. ASSUME ~Blocked(r),
             call[r].do = "create" => \A id \in call[r].ids : rows[id].life = "unborn",
             doc' = [doc EXCEPT ![r] = IF call[r].do \in {"updateById", "updateOne"}
                                         THEN SetColumns(@, call[r], call[r].set)
                                         ELSE @],
             writes' = [writes EXCEPT ![r] = Statement(r)],
             Goto(r, "commit"), UNCHANGED <<answer, faults>>
      PROVE  IInv'
  <2> DEFINE w == Statement(r)
  <2>1. /\ DOMAIN w \subseteq Id /\ w \in [DOMAIN w -> Row]
        /\ DOMAIN w \subseteq call[r].ids
        /\ call[r].do = "create" => DOMAIN w = call[r].ids
        /\ ReadsFirst(r) => DOMAIN w \subseteq {found[r]}
        /\ \A id \in DOMAIN w : /\ Promise!Writable(call[r], rows[id])
                                /\ w[id] \in Promise!Written(call[r], rows[id])
    BY <1>1, <1>4, StatementMay DEF IInv
  <2> HIDE DEF w
  <2>2. w \in UNION {[ids -> Row] : ids \in SUBSET Id}
    BY <2>1
  <2>3. /\ writes' \in [Request -> UNION {[ids -> Row] : ids \in SUBSET Id}]
        /\ writes'[r] = w /\ \A q \in Request : q # r => writes'[q] = writes[q]
    BY <1>4, <2>2, Quiet DEF w
  <2>4. \A q \in Request : q # r => DOMAIN writes'[r] \cap DOMAIN writes[q] = {}
    BY <1>4, <2>3 DEF Blocked, w
  <2>5. /\ doc' \in [Request -> Row] /\ \A q \in Request : q # r => doc'[q] = doc[q]
        /\ call[r].do \in {"updateById", "updateOne"} =>
             doc'[r] = SetColumns(doc[r], call[r], call[r].set)
    <3>1. SetColumns(doc[r], call[r], call[r].set) \in Row
      BY CallType, SetColumnsType DEF IInv, TypeOK
    <3> QED
      BY <1>4, <3>1 DEF IInv, TypeOK
  <2>6. pc'[r] = "commit" /\ answer'[r] = "none"
    BY <1>1, <1>4 DEF Goto, IInv, TypeOK
  <2>7. AnswersOf(r)'
    BY <2>6 DEF AnswersOf
  <2>8. HoldsOf(r)'
    BY <1>2, <1>3, <2>1, <2>3, <2>6 DEF HoldsOf, setup
  <2>9. UndisturbedOf(r)'
    <3> SUFFICES ASSUME ~dirty[r]
                 PROVE  /\ After(r)' \in Serial(r)'
                        /\ call[r].do \in {"updateById", "updateOne"} => doc'[r] = After(r)'[found[r]]
      BY <1>2, <2>6 DEF UndisturbedOf, setup
    <3>1. After(r)' = [id \in Id |-> IF id \in DOMAIN w THEN w[id] ELSE rows[id]]
      BY <1>2, <2>3 DEF After
    <3>2. /\ After(r)' \in Serial(r)
          /\ call[r].do \in {"updateById", "updateOne"} =>
               SetColumns(doc[r], call[r], call[r].set) = After(r)'[found[r]]
      <4> DEFINE after == [id \in Id |-> IF id \in DOMAIN w THEN w[id] ELSE rows[id]]
      <4>1. after = [id \in Id |-> IF id \in DOMAIN Statement(r) THEN Statement(r)[id] ELSE rows[id]]
        BY DEF w
      <4> HIDE DEF after
      <4>2. /\ after \in Serial(r)
            /\ call[r].do \in {"updateById", "updateOne"} =>
                 SetColumns(doc[r], call[r], call[r].set) = after[found[r]]
        BY <1>1, <4>1, StatementAlone DEF IInv
      <4> QED
        BY <3>1, <4>2 DEF after
    <3>3. Serial(r)' = Serial(r)
      BY <1>2, SerialSame DEF setup
    <3> QED
      BY <2>5, <3>2, <3>3
  <2> QED
    BY <1>2, <1>4, <2>3, <2>4, <2>5, <2>7, <2>8, <2>9, Goes DEF IInv, TypeOK
<1>5. ASSUME Throw(r, "error"), UNCHANGED <<writes, doc>>, Fault \/ faults' = faults
      PROVE  IInv'
  <2>1. pc'[r] = "abort" /\ answer'[r] = "error"
    BY <1>5 DEF Throw, Goto, Respond, IInv, TypeOK
  <2>2. AnswersOf(r)' /\ HoldsOf(r)' /\ UndisturbedOf(r)'
    BY <2>1 DEF AnswersOf, HoldsOf, UndisturbedOf
  <2>3. /\ answer' \in [Request -> {"none", "ok", "null", "notFound", "error", "unknown"}]
        /\ \A q \in Request : q # r => answer'[q] = answer[q]
    BY <1>5 DEF Throw, Respond, IInv, TypeOK
  <2>4. Goto(r, "abort")
    BY <1>5 DEF Throw
  <2> QED
    BY <1>1, <1>2, <1>5, <2>2, <2>3, <2>4, Goes, Quiet DEF IInv, TypeOK
<1> QED
  BY <1>4, <1>5 DEF Write

(* A commit changes rows that nobody else holds, and everybody who runs is *)
(* disturbed by it.                                                        *)
LEMMA CommitInv ==
  ASSUME IInv, NEW r \in Request, Commit(r)
  PROVE  IInv'
<1> DEFINE w == writes[r]
<1>1. pc[r] = "commit" /\ UNCHANGED <<setup, found, doc>> /\ Goto(r, "done")
  BY DEF Commit, End
<1>2. /\ pc' \in [Request -> {"new", "find", "write", "commit", "abort", "done"}]
      /\ pc'[r] = "done" /\ \A q \in Request : q # r => pc'[q] = pc[q]
  BY <1>1 DEF Goto, IInv, TypeOK
<1>3. /\ writes' \in [Request -> UNION {[ids -> Row] : ids \in SUBSET Id}]
      /\ writes'[r] = NoWrites
      /\ \A q \in Request : q # r => writes'[q] = writes[q]
  <2>1. NoWrites \in UNION {[ids -> Row] : ids \in SUBSET Id}
    BY DEF NoWrites
  <2> QED
    BY <2>1, Quiet DEF Commit, End
<1>4. /\ answer' \in [Request -> {"none", "ok", "null", "notFound", "error", "unknown"}]
      /\ \A q \in Request : q # r => answer'[q] = answer[q]
      /\ Fault \/ faults' = faults
  BY DEF Commit, Respond, IInv, TypeOK
<1>5. AnswersOf(r)' /\ HoldsOf(r)' /\ UndisturbedOf(r)'
  BY <1>2 DEF AnswersOf, HoldsOf, UndisturbedOf
<1>6. \A q \in Request : q # r => DOMAIN writes'[r] \cap DOMAIN writes[q] = {}
  BY <1>3, NoRowType
<1>7. CASE UNCHANGED <<rows, dirty>>
  BY <1>1, <1>3, <1>4, <1>5, <1>6, <1>7, Goes DEF IInv, TypeOK
<1>8. CASE Publish(r, w) /\ DOMAIN w = {}
  <2>1. rows' = rows
    BY <1>8 DEF Publish, IInv, TypeOK
  <2>2. dirty' = dirty
    BY <1>8, Zenon DEF Publish, IInv, TypeOK
  <2> QED
    BY <1>1, <1>3, <1>4, <1>5, <1>6, <2>1, <2>2, Goes DEF IInv, TypeOK
<1>9. CASE Publish(r, w) /\ DOMAIN w # {}
  <2>1. /\ rows' \in [Id -> Row]
        /\ \A id \in Id : id \notin DOMAIN w => rows'[id] = rows[id]
    BY <1>9 DEF Publish, IInv, TypeOK
  <2>2. dirty' \in [Request -> BOOLEAN]
    BY <1>9 DEF Publish, IInv, TypeOK
  <2>3. \A q \in Request : q # r /\ pc[q] \notin {"new", "done"} => dirty'[q]
    BY <1>9, Zenon DEF Publish, Running
  <2>4. call' = call /\ pool' = pool /\ found' = found /\ doc' = doc
    BY <1>1 DEF setup
  <2>5. \A q \in Request : ReadsFirst(q)' <=> ReadsFirst(q)
    BY <2>4 DEF ReadsFirst
  <2>6. TypeOK'
    <3>1. faults' \in 0 .. MaxFault
      BY <1>4, MaxFaultAssumption DEF Fault, IInv, TypeOK
    <3>2. \A q \in Request : DOMAIN writes'[q] \subseteq Id /\ writes'[q] \in [DOMAIN writes'[q] -> Row]
      BY <1>3
    <3>3. \A q \in Request : pc'[q] = "write" /\ ReadsFirst(q) => found[q] \in Id
      BY <1>2 DEF IInv, TypeOK
    <3> QED
      BY <1>2, <1>4, <2>1, <2>2, <2>4, <2>5, <3>1, <3>2, <3>3 DEF IInv, TypeOK
  <2>7. Locks'
    <3>1. \A q \in Request : pc'[q] # "commit" => writes'[q] = NoWrites
      BY <1>2, <1>3 DEF IInv, Locks
    <3> QED
      BY <1>3, <1>6, <3>1 DEF IInv, Locks
  <2>8. Answers'
    <3> SUFFICES ASSUME NEW q \in Request, q # r PROVE AnswersOf(q)'
      BY <1>5 DEF Answers
    <3> QED
      BY <1>2, <1>3, <1>4, <2>5 DEF IInv, Answers, AnswersOf
  <2>9. Holds'
    <3> SUFFICES ASSUME NEW q \in Request, q # r PROVE HoldsOf(q)'
      BY <1>5 DEF Holds
    <3>1. \A id \in DOMAIN writes[q] : id \in Id /\ rows'[id] = rows[id]
      BY <2>1 DEF IInv, TypeOK, Locks
    <3> QED
      BY <1>2, <1>3, <1>4, <2>4, <2>5, <3>1 DEF IInv, Holds, HoldsOf
  <2>10. Undisturbed'
    <3> SUFFICES ASSUME NEW q \in Request, q # r PROVE UndisturbedOf(q)'
      BY <1>5 DEF Undisturbed
    <3> QED
      BY <1>2, <2>3 DEF UndisturbedOf
  <2> QED
    BY <2>6, <2>7, <2>8, <2>9, <2>10 DEF IInv
<1> QED
  BY <1>7, <1>8, <1>9 DEF Commit

LEMMA StutterInv ==
  ASSUME IInv, UNCHANGED vars
  PROVE  IInv'
<1>1. /\ rows' = rows /\ call' = call /\ pc' = pc /\ writes' = writes /\ found' = found /\ doc' = doc
      /\ answer' = answer /\ pool' = pool /\ faults' = faults /\ dirty' = dirty
  BY DEF vars
<1>2. TypeOK' /\ Locks' /\ Answers' /\ Holds'
  BY <1>1 DEF IInv, TypeOK, Locks, Answers, AnswersOf, Holds, HoldsOf, ReadsFirst
<1>3. Undisturbed'
  <2> SUFFICES ASSUME NEW q \in Request PROVE UndisturbedOf(q)'
    BY DEF Undisturbed
  <2>1. Serial(q)' = Serial(q) /\ Selected(q)' = Selected(q)
    BY <1>1, SerialSame
  <2>2. After(q)' = After(q)
    BY <1>1 DEF After
  <2> QED
    BY <1>1, <2>1, <2>2 DEF IInv, Undisturbed, UndisturbedOf, ReadsFirst
<1> QED
  BY <1>2, <1>3 DEF IInv

LEMMA Inductive ==
  IInv /\ [Next]_vars => IInv'
<1> SUFFICES ASSUME IInv, [Next]_vars PROVE IInv'
  OBVIOUS
<1>1. CASE Next
  <2>1. PICK r \in Request : Step(r)
    BY <1>1 DEF Next
  <2> QED
    BY <2>1, BeginInv, FindInv, WriteInv, CommitInv, AbortInv DEF Step
<1>2. CASE UNCHANGED vars
  BY <1>2, StutterInv
<1> QED
  BY <1>1, <1>2

LEMMA Invariance ==
  Spec => []IInv
BY InitInv, Inductive, PTL DEF Spec
-----------------------------------------------------------------------------
(* What follows from the invariant *)

(* The variables stay within their types, and a call that is about to      *)
(* write a row it has read has one.                                        *)
THEOREM TypeCorrect ==
  Spec => []TypeOK
BY Invariance, PTL DEF IInv

(* Publish is After. *)
LEMMA Publishes ==
  ASSUME NEW r \in Request, Publish(r, writes[r])
  PROVE  rows' = After(r)
BY DEF Publish, After

LEMMA SerialStep ==
  IInv /\ [Next]_vars =>
    [\A r \in Request : Ends(r) /\ ~dirty[r] =>
       /\ answer'[r] = "ok" =>
            /\ rows' \in Serial(r)
            /\ call[r].do \in {"updateById", "updateOne"} => doc'[r] = rows'[found[r]]
       /\ answer'[r] = "null" => Selected(r) = {} /\ UNCHANGED rows]_vars
<1> SUFFICES ASSUME IInv, Next, NEW r \in Request, Ends(r), ~dirty[r]
             PROVE  /\ answer'[r] = "ok" =>
                         /\ rows' \in Serial(r)
                         /\ call[r].do \in {"updateById", "updateOne"} => doc'[r] = rows'[found[r]]
                    /\ answer'[r] = "null" => Selected(r) = {} /\ UNCHANGED rows
  OBVIOUS
<1>1. PICK q \in Request : Step(q)
  BY DEF Next
<1>2. q = r
  <2>1. \E where : Goto(q, where)
    BY <1>1 DEF Step, Begin, Find, Write, Commit, Abort, End, Throw
  <2> QED
    BY <2>1 DEF Goto, Ends, IInv, TypeOK
<1>3. CASE Begin(r)
  <2>1. answer'[r] = "error"
    BY <1>3 DEF Begin, Goto, Respond, Ends, IInv, TypeOK
  <2> QED
    BY <2>1
<1>4. CASE Find(r) \/ Write(r)
  BY <1>4 DEF Find, Write, Throw, Goto, Ends, IInv, TypeOK
<1>5. CASE Commit(r)
  <2>1. pc[r] = "commit" /\ answer[r] \in {"none", "null"} /\ doc' = doc
    BY <1>5 DEF Commit, IInv, Answers, AnswersOf
  <2>2. CASE /\ Publish(r, writes[r])
             /\ Respond(r, IF answer[r] = "null" THEN "null" ELSE "ok")
    <3>1. rows' = After(r)
      BY <2>2, Publishes
    <3>2. CASE answer[r] = "none"
      <4>1. answer'[r] = "ok"
        BY <2>2, <3>2 DEF Respond, IInv, TypeOK
      <4> QED
        BY <2>1, <3>1, <3>2, <4>1 DEF IInv, Undisturbed, UndisturbedOf
    <3>3. CASE answer[r] = "null"
      <4>1. answer'[r] = "null"
        BY <2>2, <3>3 DEF Respond, IInv, TypeOK
      <4>2. Selected(r) = {} /\ DOMAIN writes[r] = {}
        BY <2>1, <3>3, NoRowType DEF IInv, Answers, AnswersOf, Undisturbed, UndisturbedOf
      <4>3. rows' = rows
        BY <3>1, <4>2 DEF After, IInv, TypeOK
      <4> QED
        BY <4>1, <4>2, <4>3
    <3> QED
      BY <2>1, <3>2, <3>3
  <2>3. CASE Respond(r, "unknown")
    BY <2>3 DEF Respond, IInv, TypeOK
  <2> QED
    BY <1>5, <2>2, <2>3 DEF Commit
<1>6. CASE Abort(r)
  <2>1. answer'[r] \in {"notFound", "error"}
    BY <1>6 DEF Abort, Respond, IInv, TypeOK, Answers, AnswersOf
  <2> QED
    BY <2>1
<1> QED
  BY <1>1, <1>2, <1>3, <1>4, <1>5, <1>6 DEF Step

(* Between reading its row and writing it, a call of the generic service   *)
(* may be overtaken; when it was not, what it has made of the table and    *)
(* what it returns are those of a run of its own, and "no such row" is     *)
(* answered of a table without one.                                        *)
THEOREM UndisturbedIsSerial ==
  Spec => AloneIsSerial
<1>1. Spec => [][\A r \in Request : Ends(r) /\ ~dirty[r] =>
         /\ answer'[r] = "ok" =>
              /\ rows' \in Serial(r)
              /\ call[r].do \in {"updateById", "updateOne"} => doc'[r] = rows'[found[r]]
         /\ answer'[r] = "null" => Selected(r) = {} /\ UNCHANGED rows]_vars
  BY SerialStep, Invariance, PTL DEF Spec
<1> QED
  BY <1>1 DEF AloneIsSerial
-----------------------------------------------------------------------------
(* The implementation of TablePromise *)

(* A commit is the instant at which a call takes effect. *)
LEMMA CommitEffect ==
  ASSUME IInv, NEW r \in Request, pc[r] = "commit", Publish(r, writes[r])
  PROVE  Promise!Effect(r)
<1> DEFINE changed == {id \in Id : rows'[id] # rows[id]}
<1>1. answer[r] \in {"none", "null"}
  BY DEF IInv, Answers, AnswersOf
<1>2. /\ rows' = [id \in Id |-> rows'[id]]
      /\ \A id \in DOMAIN writes[r] : id \in Id /\ rows'[id] = writes[r][id]
      /\ changed \subseteq DOMAIN writes[r]
  BY DEF Publish, IInv, TypeOK
<1>3. CASE answer[r] = "null"
  <2>1. changed = {} /\ ReadsFirst(r)
    BY <1>2, <1>3, NoRowType DEF IInv, Answers, AnswersOf
  <2> QED
    BY <1>2, <2>1 DEF Promise!Effect, ReadsFirst
<1>4. CASE answer[r] = "none"
  <2>1. /\ DOMAIN writes[r] \subseteq call[r].ids
        /\ call[r].do = "create" => DOMAIN writes[r] = call[r].ids
        /\ ReadsFirst(r) => DOMAIN writes[r] \subseteq {found[r]}
        /\ \A id \in DOMAIN writes[r] :
             /\ Promise!Writable(call[r], rows[id])
             /\ writes[r][id] \in Promise!Written(call[r], rows[id])
    BY <1>4 DEF IInv, Holds, HoldsOf
  <2>2. changed \subseteq call[r].ids
    BY <1>2, <2>1
  <2>3. call[r].do \in {"updateById", "updateOne", "deleteOne"} =>
          \A id, other \in changed : id = other
    BY <1>2, <2>1 DEF ReadsFirst
  <2>4. call[r].do = "create" => changed = call[r].ids
    <3> SUFFICES ASSUME call[r].do = "create", NEW id \in call[r].ids
                 PROVE  id \in changed
      BY <2>2
    <3>1. id \in Id /\ rows'[id] = writes[r][id]
      BY <1>2, <2>1
    <3>2. rows[id].life = "unborn"
      BY <2>1 DEF Promise!Writable
    <3>3. writes[r][id] = Created(call[r])
      BY <2>1 DEF Promise!Written
    <3> QED
      BY <3>1, <3>2, <3>3 DEF Created
  <2>5. \A id \in changed : /\ Promise!Writable(call[r], rows[id])
                            /\ rows'[id] \in Promise!Written(call[r], rows[id])
    BY <1>2, <2>1
  <2> QED
    BY <1>2, <2>2, <2>3, <2>4, <2>5 DEF Promise!Effect
<1> QED
  BY <1>1, <1>3, <1>4

(* The outcome of a call whose pc changes; that of the others stays. *)
LEMMA OutcomeStep ==
  ASSUME IInv, NEW r \in Request, NEW where, Goto(r, where), pc[r] # "done",
         \A q \in Request : q # r => answer'[q] = answer[q]
  PROVE  /\ Outcome[r] = "pending"
         /\ where # "done" => Outcome' = Outcome
         /\ where = "done" => /\ answer'[r] \in {"ok", "null"} =>
                                   Outcome' = [Outcome EXCEPT ![r] = "ok"]
                              /\ answer'[r] \in {"notFound", "error"} =>
                                   Outcome' = [Outcome EXCEPT ![r] = "refused"]
                              /\ answer'[r] = "unknown" =>
                                   Outcome' = [Outcome EXCEPT ![r] = "unknown"]
<1>1. pc'[r] = where /\ \A q \in Request : q # r => pc'[q] = pc[q]
  BY DEF Goto, IInv, TypeOK
<1>2. Outcome[r] = "pending"
  BY DEF Outcome
<1>3. /\ Outcome' = [q \in Request |-> Outcome'[q]]
      /\ \A q \in Request : q # r => Outcome'[q] = Outcome[q]
  <2>1. Outcome' = [q \in Request |-> Outcome'[q]]
    BY DEF Outcome
  <2>2. ASSUME NEW q \in Request, q # r
        PROVE  Outcome'[q] = Outcome[q]
    BY <1>1, <2>2 DEF Outcome
  <2> QED
    BY <2>1, <2>2
<1>4. /\ where # "done" => Outcome'[r] = "pending"
      /\ where = "done" =>
           /\ answer'[r] \in {"ok", "null"} => Outcome'[r] = "ok"
           /\ answer'[r] \in {"notFound", "error"} => Outcome'[r] = "refused"
           /\ answer'[r] = "unknown" => Outcome'[r] = "unknown"
  BY <1>1 DEF Outcome
<1>5. Outcome = [q \in Request |-> Outcome[q]]
  BY DEF Outcome
<1> QED
  BY <1>2, <1>3, <1>4, <1>5

LEMMA InitPromise ==
  Init => Promise!Init
BY DEF Init, Promise!Init, Outcome

(* One call at a time takes a step: only a commit is seen in the table. *)
LEMMA StepPromise ==
  ASSUME IInv, NEW r \in Request, Step(r)
  PROVE  [Promise!Next]_(Promise!vars)
<1>1. call' = call
  BY DEF Step, Begin, Find, Write, Commit, Abort, setup
<1>2. Promise!Accept(r) \/ Promise!Refuse(r) \/ Promise!Lose(r) => Promise!Next
  BY <1>1 DEF Promise!Next
<1>3. ASSUME NEW where, where # "done", Goto(r, where), pc[r] # "done", rows' = rows,
             \A q \in Request : q # r => answer'[q] = answer[q]
      PROVE  UNCHANGED Promise!vars
  BY <1>1, <1>3, OutcomeStep DEF Promise!vars
<1>4. \A what : Respond(r, what) => /\ answer'[r] = what
                                    /\ \A q \in Request : q # r => answer'[q] = answer[q]
  BY DEF Respond, IInv, TypeOK
<1>5. CASE Begin(r)
  <2>1. pc[r] # "done" /\ rows' = rows
    BY <1>5 DEF Begin
  <2>2. CASE Goto(r, "find") /\ UNCHANGED <<answer, faults>>
    BY <1>3, <2>1, <2>2
  <2>3. CASE Goto(r, "write") /\ UNCHANGED <<answer, faults>>
    BY <1>3, <2>1, <2>3
  <2>4. CASE Goto(r, "done") /\ Respond(r, "error")
    <3>1. Outcome[r] = "pending" /\ Outcome' = [Outcome EXCEPT ![r] = "refused"]
      BY <1>4, <2>1, <2>4, OutcomeStep
    <3> QED
      BY <1>2, <2>1, <3>1 DEF Promise!Refuse, Promise!Answer
  <2> QED
    BY <1>5, <2>2, <2>3, <2>4 DEF Begin
<1>6. CASE Find(r)
  <2>1. pc[r] # "done" /\ rows' = rows
    BY <1>6 DEF Find
  <2>2. Goto(r, "write") \/ Goto(r, "commit") \/ Goto(r, "abort")
    BY <1>6 DEF Find, Throw
  <2>3. \A q \in Request : q # r => answer'[q] = answer[q]
    BY <1>4, <1>6 DEF Find, Throw
  <2> QED
    BY <1>3, <2>1, <2>2, <2>3
<1>7. CASE Write(r)
  <2>1. pc[r] # "done" /\ rows' = rows
    BY <1>7 DEF Write
  <2>2. Goto(r, "commit") \/ Goto(r, "abort")
    BY <1>7 DEF Write, Throw
  <2>3. \A q \in Request : q # r => answer'[q] = answer[q]
    BY <1>4, <1>7 DEF Write, Throw
  <2> QED
    BY <1>3, <2>1, <2>2, <2>3
<1>8. CASE Commit(r)
  <2>1. pc[r] = "commit" /\ Goto(r, "done")
    BY <1>8 DEF Commit, End
  <2>2. ASSUME NEW what \in {"ok", "null"}, Respond(r, what), Publish(r, writes[r])
        PROVE  Promise!Next
    <3>1. Outcome[r] = "pending" /\ Outcome' = [Outcome EXCEPT ![r] = "ok"]
      BY <1>4, <2>1, <2>2, OutcomeStep
    <3>2. Promise!Effect(r)
      BY <2>1, <2>2, CommitEffect
    <3> QED
      BY <1>2, <3>1, <3>2 DEF Promise!Accept, Promise!Answer
  <2>3. ASSUME Respond(r, "unknown"), Publish(r, writes[r]) \/ rows' = rows
        PROVE  Promise!Next
    <3>1. Outcome[r] = "pending" /\ Outcome' = [Outcome EXCEPT ![r] = "unknown"]
      BY <1>4, <2>1, <2>3, OutcomeStep
    <3>2. Promise!Effect(r) \/ rows' = rows
      BY <2>1, <2>3, CommitEffect
    <3> QED
      BY <1>2, <3>1, <3>2 DEF Promise!Lose, Promise!Answer
  <2> QED
    BY <1>8, <2>2, <2>3 DEF Commit
<1>9. CASE Abort(r)
  <2>1. pc[r] = "abort" /\ Goto(r, "done") /\ rows' = rows
    BY <1>9 DEF Abort, End
  <2>2. answer'[r] \in {"notFound", "error"} /\ \A q \in Request : q # r => answer'[q] = answer[q]
    BY <1>4, <1>9, <2>1 DEF Abort, IInv, Answers, AnswersOf
  <2>3. Outcome[r] = "pending" /\ Outcome' = [Outcome EXCEPT ![r] = "refused"]
    BY <2>1, <2>2, OutcomeStep
  <2> QED
    BY <1>2, <2>1, <2>3 DEF Promise!Refuse, Promise!Answer
<1> QED
  BY <1>5, <1>6, <1>7, <1>8, <1>9 DEF Step

LEMMA PromiseStep ==
  IInv /\ [Next]_vars => [Promise!Next]_(Promise!vars)
<1> SUFFICES ASSUME IInv, [Next]_vars PROVE [Promise!Next]_(Promise!vars)
  OBVIOUS
<1>1. CASE Next
  BY <1>1, StepPromise DEF Next
<1>2. CASE UNCHANGED vars
  BY <1>2 DEF vars, Promise!vars, Outcome
<1> QED
  BY <1>1, <1>2

(* Calls that overlap keep the promise of the table: each takes effect at  *)
(* one instant, whole or not at all, writes no row it does not name and no *)
(* column its DTO does not name; and what it answers agrees with that,     *)
(* but for a COMMIT whose fate the client cannot know.                     *)
THEOREM CallsKeepPromise ==
  Spec => KeepsPromise
<1>1. Spec => Promise!Init /\ [][Promise!Next]_(Promise!vars)
  BY InitPromise, PromiseStep, Invariance, PTL DEF Spec
<1> QED
  BY <1>1 DEF KeepsPromise, Promise!Spec
===============================================================================
