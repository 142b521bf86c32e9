------------------------------ MODULE MongoProofs ------------------------------
(***************************************************************************)
(* Proofs about what lives in MongoDB, for any number of documents, fields *)
(* and calls: calls of the generic service do at their commit what they    *)
(* would have done alone, and keep the promise of TablePromise; and what   *)
(* instances of the server that start make of the first administrator.     *)
(***************************************************************************)
EXTENDS MongoService, Bootstrap, FiniteSetTheorems, TLAPS

(* Open transactions hold different documents. *)
Locks ==
  /\ writes = [r \in Request |-> writes[r]]
  /\ \A q, r \in Request : q # r => DOMAIN writes[q] \cap DOMAIN writes[r] = {}

(* What a call answers is fixed by the way it has come. *)
AnswersOf(r) ==
  /\ pc[r] = "new" => answer[r] = "none" /\ writes[r] = NoWrites
  /\ pc[r] = "commit" => answer[r] \in {"none", "null"}
  /\ pc[r] = "commit" /\ answer[r] = "null" =>
       writes[r] = NoWrites /\ call[r].do \in {"updateOne", "deleteOne"}
  /\ pc[r] = "abort" => answer[r] \in {"notFound", "error"}

Answers == \A r \in Request : AnswersOf(r)

(* The documents a call writes are those that it selects when it commits,  *)
(* for nobody else can write them; but a call of many documents misses     *)
(* those that others have made meet its condition.                         *)
HoldsOf(r) ==
  pc[r] = "commit" /\ answer[r] = "none" =>
    /\ call[r].do = "create" => DOMAIN writes[r] = call[r].ids
    /\ call[r].do \in {"updateOne", "deleteOne"} => DOMAIN writes[r] \in Targets(r)
    /\ call[r].do \in {"updateMany", "deleteMany"} =>
         /\ DOMAIN writes[r] \subseteq Selected(r)
         /\ ~dirty[r] => DOMAIN writes[r] = Selected(r)
    /\ \A id \in DOMAIN writes[r] :
         /\ Promise!Writable(call[r], rows[id])
         /\ writes[r][id] = Written(r, rows[id])
         /\ DOMAIN writes[r] = {id} => doc[r] = writes[r][id]

Holds == \A r \in Request : HoldsOf(r)

IInv == TypeOK /\ Locks /\ Answers /\ Holds
-----------------------------------------------------------------------------
(* Documents and commands *)

LEMMA NoRowType ==
  /\ NoRow \in Row /\ NoRow.life = "unborn"
  /\ DOMAIN NoWrites = {}
BY DEF NoRow, Row, NoWrites

LEMMA CallType ==
  ASSUME TypeOK, NEW r \in Request
  PROVE  /\ call[r].do \in Command /\ call[r].ids \subseteq Id /\ call[r].set \subseteq Column
         /\ call[r].values \in [Column -> Nat \cup {Inc}]
         /\ call[r].do = "create" => Created(call[r]) \in Row
<1>1. call[r] \in Call
  BY DEF TypeOK
<1>2. call[r] \in [do : Command, ids : SUBSET Id, set : SUBSET Column,
                   values : [Column -> Nat \cup {Inc}], notFoundCode : BOOLEAN]
  BY <1>1, CallAssumption
<1>3. call[r].do = "create" => call[r].values \in [Column -> Nat]
  BY <1>1, CallAssumption
<1> QED
  BY <1>2, <1>3 DEF Created, Row

LEMMA SetColumnsType ==
  ASSUME TypeOK, NEW r \in Request, NEW row \in Row, NEW set
  PROVE  /\ SetColumns(row, call[r], set) \in Row
         /\ SetColumns(row, call[r], set) = Promise!SetColumns(row, call[r], set)
<1> DEFINE cols == [k \in Column |-> IF k \notin set THEN row.cols[k]
                                     ELSE IF call[r].values[k] = Inc THEN row.cols[k] + 1
                                     ELSE call[r].values[k]]
<1>1. call[r].values \in [Column -> Nat \cup {Inc}] /\ row.cols \in [Column -> Nat]
      /\ row = [life |-> row.life, cols |-> row.cols] /\ row.life \in {"unborn", "live", "deleted"}
  BY CallType DEF Row
<1>2. cols \in [Column -> Nat]
  BY <1>1
<1>3. SetColumns(row, call[r], set) = [row EXCEPT !.cols = cols]
  BY DEF SetColumns
<1>4. Promise!SetColumns(row, call[r], set) = [row EXCEPT !.cols = cols]
  BY DEF Promise!SetColumns
<1> HIDE DEF cols
<1>5. [row EXCEPT !.cols = cols] = [life |-> row.life, cols |-> cols]
  BY <1>1
<1> QED
  BY <1>1, <1>2, <1>3, <1>4, <1>5 DEF Row

(* What a call makes of a document it may write, command by command. *)
LEMMA WrittenType ==
  ASSUME TypeOK, NEW r \in Request, NEW row \in Row
  PROVE  /\ Written(r, row) \in Row
         /\ Written(r, row) \in Promise!Written(call[r], row)
<1>1. call[r].do \in Command /\ call[r].set \subseteq Column
  BY CallType
<1>2. CASE call[r].do = "create"
  <2>1. Written(r, row) = Created(call[r])
    BY <1>2 DEF Written
  <2>2. Promise!Written(call[r], row) = {Created(call[r])}
    BY <1>2 DEF Promise!Written
  <2> QED
    BY <1>2, <2>1, <2>2, CallType
<1>3. CASE call[r].do \in {"updateOne", "updateMany"}
  <2>1. Written(r, row) = SetColumns(row, call[r], call[r].set)
    BY <1>3 DEF Written
  <2>2. Promise!SetColumns(row, call[r], call[r].set) \in Promise!Written(call[r], row)
    BY <1>3 DEF Promise!Written
  <2> QED
    BY <2>1, <2>2, SetColumnsType
<1>4. CASE call[r].do \in {"deleteOne", "deleteMany"}
  <2>1. Written(r, row) = Deleted(row)
    BY <1>4 DEF Written
  <2>2. Promise!Written(call[r], row) = {Deleted(row)}
    BY <1>4 DEF Promise!Written, Deleted
  <2>3. Deleted(row) \in Row
    BY DEF Deleted, Row
  <2> QED
    BY <2>1, <2>2, <2>3
<1> QED
  BY <1>1, <1>2, <1>3, <1>4 DEF Command

(* The sets of documents that a command may write, one disjunct each. *)
LEMMA TargetsOf ==
  ASSUME TypeOK, NEW r \in Request
  PROVE  /\ call[r].do = "create" => Targets(r) = {call[r].ids}
         /\ call[r].do \in {"updateOne", "deleteOne"} => Targets(r) = {{id} : id \in Selected(r)}
         /\ call[r].do \in {"updateMany", "deleteMany"} => Targets(r) = {Selected(r)}
         /\ \A ids \in Targets(r) : ids \subseteq call[r].ids /\ ids \subseteq Id
         /\ Selected(r) \subseteq call[r].ids
         /\ \A ids \in Targets(r) : \A id \in ids : call[r].do # "create" => rows[id].life = "live"
<1>1. call[r].do \in Command /\ call[r].ids \subseteq Id
  BY CallType
<1>2. call[r].do = "create" => Targets(r) = {call[r].ids}
  BY DEF Targets
<1>3. call[r].do \in {"updateOne", "deleteOne"} => Targets(r) = {{id} : id \in Selected(r)}
  BY DEF Targets
<1>4. call[r].do \in {"updateMany", "deleteMany"} => Targets(r) = {Selected(r)}
  BY DEF Targets
<1> QED
  BY <1>1, <1>2, <1>3, <1>4 DEF Selected, Command

(* A set of documents has one member when Cardinality says so. *)
LEMMA OneDocument ==
  ASSUME NEW ids \in SUBSET Id
  PROVE  Cardinality(ids) = 1 <=> \E id \in ids : ids = {id}
<1>1. IsFiniteSet(ids)
  BY IdAssumption, FS_Subset
<1>2. (\E id : ids = {id}) <=> Cardinality(ids) = 1
  BY <1>1, FS_Singleton
<1> QED
  BY <1>2
-----------------------------------------------------------------------------
(* The steps *)

LEMMA InitInv ==
  Init => IInv
<1> SUFFICES ASSUME Init PROVE IInv
  OBVIOUS
<1>1. NoRow \in Row /\ DOMAIN NoWrites = {} /\ [NoRow EXCEPT !.life = "live"] \in Row
  BY NoRowType DEF Row
<1>2. TypeOK
  <2>1. rows \in [Id -> Row] /\ doc \in [Request -> Row]
    BY <1>1 DEF Init
  <2>2. \A r \in Request : DOMAIN writes[r] \subseteq Id /\ writes[r] \in [DOMAIN writes[r] -> Row]
    BY DEF Init, NoWrites
  <2> QED
    BY <2>1, <2>2, MaxFaultAssumption DEF Init, TypeOK
<1> QED
  BY <1>1, <1>2 DEF Init, IInv, Locks, Answers, AnswersOf, Holds, HoldsOf

LEMMA TargetsSame ==
  ASSUME NEW r \in Request, rows' = rows, call' = call
  PROVE  Selected(r)' = Selected(r) /\ Targets(r)' = Targets(r)
BY DEF Selected, Targets

LEMMA WrittenSame ==
  ASSUME NEW r \in Request, call' = call
  PROVE  \A row : Written(r, row)' = Written(r, row)
BY DEF Written, SetColumns, Deleted, Created

(* What the transactions have written, and that no two have written the    *)
(* same document.                                                          *)
LEMMA Open ==
  ASSUME IInv, NEW r \in Request
  PROVE  /\ writes \in [Request -> UNION {[ids -> Row] : ids \in SUBSET Id}]
         /\ \A q \in Request : q # r => DOMAIN writes[r] \cap DOMAIN writes[q] = {}
<1>1. \A q \in Request : writes[q] \in UNION {[ids -> Row] : ids \in SUBSET Id}
  BY DEF IInv, TypeOK
<1>2. writes = [q \in Request |-> writes[q]]
  BY DEF IInv, Locks
<1> QED
  BY <1>1, <1>2 DEF IInv, Locks

(* A transaction that is closed holds nothing, and the others what they    *)
(* held.                                                                   *)
LEMMA Released ==
  ASSUME IInv, NEW r \in Request, Release(r)
  PROVE  /\ writes' \in [Request -> UNION {[ids -> Row] : ids \in SUBSET Id}]
         /\ writes'[r] = NoWrites
         /\ \A q \in Request : q # r => /\ writes'[q] = writes[q]
                                        /\ DOMAIN writes'[r] \cap DOMAIN writes[q] = {}
<1>1. NoWrites \in UNION {[ids -> Row] : ids \in SUBSET Id} /\ DOMAIN NoWrites = {}
  BY DEF NoWrites
<1> QED
  BY <1>1, Open DEF Release

(* A call that goes on, and leaves the committed documents alone. *)
LEMMA Goes ==
  ASSUME IInv, NEW r \in Request, UNCHANGED <<rows, call, dirty>>,
         NEW where \in {"commit", "abort", "done"}, Goto(r, where),
         writes' \in [Request -> UNION {[ids -> Row] : ids \in SUBSET Id}],
         doc' \in [Request -> Row],
         answer' \in [Request -> {"none", "ok", "null", "notFound", "error", "unknown"}],
         Fault \/ faults' = faults,
         \A q \in Request : q # r => /\ writes'[q] = writes[q]
                                     /\ doc'[q] = doc[q] /\ answer'[q] = answer[q]
                                     /\ DOMAIN writes'[r] \cap DOMAIN writes[q] = {},
         where = "done" => answer'[r] # "none",
         AnswersOf(r)', HoldsOf(r)'
  PROVE  IInv'
<1> USE DEF IInv
<1>1. /\ pc'[r] = where /\ \A q \in Request : q # r => pc'[q] = pc[q]
      /\ pc' \in [Request -> {"new", "commit", "abort", "done"}]
  BY DEF TypeOK, Goto
<1>2. rows' = rows /\ call' = call /\ dirty' = dirty
  OBVIOUS
<1>3. TypeOK'
  <2>1. faults' \in 0 .. MaxFault
    BY MaxFaultAssumption DEF TypeOK, Fault
  <2>2. \A q \in Request : /\ DOMAIN writes'[q] \subseteq Id
                         /\ writes'[q] \in [DOMAIN writes'[q] -> Row]
    OBVIOUS
  <2>3. \A q \in Request : pc'[q] = "done" => answer'[q] # "none"
    BY <1>1 DEF TypeOK
  <2> QED
    BY <1>1, <1>2, <2>1, <2>2, <2>3 DEF TypeOK
<1>4. Locks'
  BY <1>1 DEF Locks
<1>5. Answers'
  <2> SUFFICES ASSUME NEW q \in Request, q # r PROVE AnswersOf(q)'
    BY DEF Answers
  <2> QED
    BY <1>1, <1>2 DEF Answers, AnswersOf
<1>6. Holds'
  <2> SUFFICES ASSUME NEW q \in Request, q # r PROVE HoldsOf(q)'
    BY DEF Holds
  <2>1. /\ HoldsOf(q) /\ pc'[q] = pc[q] /\ answer'[q] = answer[q]
        /\ writes'[q] = writes[q] /\ doc'[q] = doc[q]
    BY <1>1 DEF Holds
  <2>2. /\ Selected(q)' = Selected(q) /\ Targets(q)' = Targets(q)
        /\ \A row : Written(q, row)' = Written(q, row)
    BY <1>2, TargetsSame, WrittenSame
  <2>3. \A id \in DOMAIN writes[q] : Written(q, rows[id])' = Written(q, rows[id])
    BY <1>2 DEF Written, SetColumns, Deleted, Created
  <2> QED
    BY <1>2, <2>1, <2>2, <2>3 DEF HoldsOf, Promise!Writable
<1> QED
  BY <1>3, <1>4, <1>5, <1>6

(* The documents that a command writes as they will be. *)
LEMMA CommandWrites ==
  ASSUME IInv, NEW r \in Request, NEW ids \in Targets(r), ~Conflict(r, ids), pc[r] = "new",
         writes' = [writes EXCEPT ![r] = [id \in ids |-> Written(r, rows[id])]]
  PROVE  /\ writes' \in [Request -> UNION {[some -> Row] : some \in SUBSET Id}]
         /\ writes'[r] = [id \in ids |-> Written(r, rows[id])]
         /\ \A q \in Request : q # r => /\ writes'[q] = writes[q]
                                        /\ DOMAIN writes'[r] \cap DOMAIN writes[q] = {}
<1>1. ids \subseteq Id
  BY TargetsOf DEF IInv
<1>2. \A id \in ids : Written(r, rows[id]) \in Row
  <2> SUFFICES ASSUME NEW id \in ids PROVE Written(r, rows[id]) \in Row
    OBVIOUS
  <2>1. rows[id] \in Row
    BY <1>1 DEF IInv, TypeOK
  <2> QED
    BY <2>1, WrittenType DEF IInv
<1> DEFINE w == [id \in ids |-> Written(r, rows[id])]
<1>3. w \in UNION {[some -> Row] : some \in SUBSET Id} /\ DOMAIN w = ids
  BY <1>1, <1>2
<1>4. \A q \in Request : q # r => ids \cap DOMAIN writes[q] = {}
  BY DEF Conflict
<1>5. writes' = [writes EXCEPT ![r] = w]
  OBVIOUS
<1> HIDE DEF w
<1>6. /\ writes' \in [Request -> UNION {[some -> Row] : some \in SUBSET Id}]
      /\ writes'[r] = w /\ \A q \in Request : q # r => writes'[q] = writes[q]
  BY <1>3, <1>5, Open
<1> QED
  BY <1>3, <1>4, <1>6 DEF w

LEMMA RunInv ==
  ASSUME IInv, NEW r \in Request, Run(r)
  PROVE  IInv'
<1>1. pc[r] = "new" /\ answer[r] = "none" /\ writes[r] = NoWrites /\ UNCHANGED <<rows, call, dirty>>
  BY DEF Run, IInv, Answers, AnswersOf
<1>2. /\ Selected(r)' = Selected(r) /\ Targets(r)' = Targets(r)
      /\ \A row : Written(r, row)' = Written(r, row)
  BY <1>1, TargetsSame, WrittenSame
<1>3. ASSUME NEW ids \in Targets(r), ~Conflict(r, ids), Do(r, ids), UNCHANGED <<answer, faults>>
      PROVE  IInv'
  <2>1. /\ writes' \in [Request -> UNION {[some -> Row] : some \in SUBSET Id}]
        /\ writes'[r] = [id \in ids |-> Written(r, rows[id])]
        /\ \A q \in Request : q # r => /\ writes'[q] = writes[q]
                                       /\ DOMAIN writes'[r] \cap DOMAIN writes[q] = {}
    BY <1>1, <1>3, CommandWrites DEF Do
  <2>2. ids \subseteq Id
    BY TargetsOf DEF IInv
  <2>3. /\ doc' \in [Request -> Row]
        /\ \A q \in Request : q # r => doc'[q] = doc[q]
        /\ \A id : ids = {id} => doc'[r] = Written(r, rows[id])
    <3>1. doc' = [doc EXCEPT ![r] = IF Cardinality(ids) = 1
                                      THEN Written(r, rows[CHOOSE id \in ids : TRUE])
                                      ELSE @]
      BY <1>3 DEF Do
    <3>2. CASE Cardinality(ids) = 1
      <4>1. PICK one \in ids : ids = {one}
        BY <2>2, <3>2, OneDocument
      <4>2. (CHOOSE id \in ids : TRUE) = one
        BY <4>1
      <4>3. rows[one] \in Row
        BY <2>2 DEF IInv, TypeOK
      <4>4. Written(r, rows[one]) \in Row
        BY <4>3, WrittenType DEF IInv
      <4>5. doc' = [doc EXCEPT ![r] = Written(r, rows[one])]
        BY <3>1, <3>2, <4>2
      <4> QED
        BY <4>1, <4>4, <4>5 DEF IInv, TypeOK
    <3>3. CASE Cardinality(ids) # 1
      <4>1. \A id : ids # {id}
        BY <2>2, <3>3, OneDocument
      <4> QED
        BY <3>1, <3>3, <4>1 DEF IInv, TypeOK
    <3> QED
      BY <3>2, <3>3
  <2>4. pc'[r] = "commit" /\ answer'[r] = "none" /\ Goto(r, "commit")
    BY <1>1, <1>3 DEF Do, Goto, IInv, TypeOK
  <2>5. AnswersOf(r)'
    BY <2>4 DEF AnswersOf
  <2>6. \A id \in ids : Promise!Writable(call[r], rows[id])
    BY <1>3, TargetsOf DEF Do, Promise!Writable, IInv
  <2>7. /\ call[r].do = "create" => ids = call[r].ids
        /\ call[r].do \in {"updateMany", "deleteMany"} => ids = Selected(r)
    BY TargetsOf DEF IInv
  <2>8. \A id \in ids : Written(r, rows[id])' = Written(r, rows[id])
    BY <1>1 DEF Written, SetColumns, Deleted, Created
  <2>9. DOMAIN writes'[r] = ids /\ \A id \in ids : writes'[r][id] = Written(r, rows[id])
    BY <2>1
  <2>10. HoldsOf(r)'
    <3>1. \A id \in ids : Promise!Writable(call[r], rows[id])'
      BY <1>1, <2>6 DEF Promise!Writable
    <3> QED
      BY <1>1, <1>2, <2>3, <2>4, <2>7, <2>8, <2>9, <3>1 DEF HoldsOf
  <2> QED
    BY <1>1, <1>3, <2>1, <2>3, <2>4, <2>5, <2>10, Goes DEF IInv, TypeOK
<1>4. CASE /\ Targets(r) = {} /\ Goto(r, "commit") /\ Respond(r, "null")
           /\ UNCHANGED <<writes, doc, faults>>
  <2>1. pc'[r] = "commit" /\ answer'[r] = "null"
    BY <1>4 DEF Goto, Respond, IInv, TypeOK
  <2>2. call[r].do \in {"updateOne", "deleteOne"}
    BY <1>4, CallType, TargetsOf DEF IInv, Command
  <2>3. AnswersOf(r)' /\ HoldsOf(r)'
    BY <1>1, <1>4, <2>1, <2>2 DEF AnswersOf, HoldsOf
  <2>4. /\ answer' \in [Request -> {"none", "ok", "null", "notFound", "error", "unknown"}]
        /\ \A q \in Request : q # r => answer'[q] = answer[q]
    BY <1>4 DEF Respond, IInv, TypeOK
  <2> QED
    BY <1>1, <1>4, <2>3, <2>4, Goes, Open DEF IInv, TypeOK
<1>5. ASSUME NEW why \in {"notFound", "error"}, Throw(r, why), UNCHANGED doc,
             Fault \/ faults' = faults,
             \/ UNCHANGED writes
             \/ \E ids \in Targets(r) :
                  /\ ~Conflict(r, ids)
                  /\ writes' = [writes EXCEPT ![r] = [id \in ids |-> Written(r, rows[id])]]
      PROVE  IInv'
  <2>1. pc'[r] = "abort" /\ answer'[r] = why /\ Goto(r, "abort")
    BY <1>5 DEF Throw, Goto, Respond, IInv, TypeOK
  <2>2. AnswersOf(r)' /\ HoldsOf(r)'
    BY <2>1 DEF AnswersOf, HoldsOf
  <2>3. /\ answer' \in [Request -> {"none", "ok", "null", "notFound", "error", "unknown"}]
        /\ \A q \in Request : q # r => answer'[q] = answer[q]
    BY <1>5 DEF Throw, Respond, IInv, TypeOK
  <2>4. /\ writes' \in [Request -> UNION {[some -> Row] : some \in SUBSET Id}]
        /\ \A q \in Request : q # r => /\ writes'[q] = writes[q]
                                       /\ DOMAIN writes'[r] \cap DOMAIN writes[q] = {}
    BY <1>1, <1>5, CommandWrites, Open
  <2> QED
    BY <1>1, <1>5, <2>1, <2>2, <2>3, <2>4, Goes DEF IInv, TypeOK
<1> QED
  BY <1>3, <1>4, <1>5 DEF Run

LEMMA AbortInv ==
  ASSUME IInv, NEW r \in Request, Abort(r)
  PROVE  IInv'
<1>1. pc[r] = "abort" /\ UNCHANGED <<rows, call, dirty, doc, answer>> /\ Goto(r, "done")
  BY DEF Abort
<1>2. pc'[r] = "done" /\ answer'[r] # "none"
  BY <1>1 DEF Goto, IInv, TypeOK, Answers, AnswersOf
<1>3. AnswersOf(r)' /\ HoldsOf(r)'
  BY <1>2 DEF AnswersOf, HoldsOf
<1>4. /\ writes' \in [Request -> UNION {[some -> Row] : some \in SUBSET Id}]
      /\ \A q \in Request : q # r => /\ writes'[q] = writes[q]
                                     /\ DOMAIN writes'[r] \cap DOMAIN writes[q] = {}
      /\ Fault \/ faults' = faults
  BY Open, Released DEF Abort
<1> QED
  BY <1>1, <1>2, <1>3, <1>4, Goes DEF IInv, TypeOK

LEMMA ReapInv ==
  ASSUME IInv, NEW r \in Request, Reap(r)
  PROVE  IInv'
<1>1. pc[r] = "done" /\ UNCHANGED <<rows, call, dirty, doc, answer, pc, faults>> /\ Release(r)
  BY DEF Reap
<1>2. pc'[r] = "done" /\ answer'[r] # "none" /\ Goto(r, "done")
  BY <1>1 DEF Goto, IInv, TypeOK
<1>3. AnswersOf(r)' /\ HoldsOf(r)'
  BY <1>2 DEF AnswersOf, HoldsOf
<1> QED
  BY <1>1, <1>2, <1>3, Released, Goes DEF IInv, TypeOK

(* A commit changes documents that no other open transaction has written,  *)
(* and everybody who has run a command is disturbed by it.                 *)
LEMMA CommitInv ==
  ASSUME IInv, NEW r \in Request, Commit(r)
  PROVE  IInv'
<1>1. pc[r] = "commit" /\ UNCHANGED <<call, doc>> /\ Goto(r, "done")
  BY DEF Commit
<1>2. /\ pc' \in [Request -> {"new", "commit", "abort", "done"}]
      /\ pc'[r] = "done" /\ \A q \in Request : q # r => pc'[q] = pc[q]
  BY <1>1 DEF Goto, IInv, TypeOK
<1>3. /\ answer' \in [Request -> {"none", "ok", "null", "notFound", "error", "unknown"}]
      /\ answer'[r] # "none"
      /\ \A q \in Request : q # r => answer'[q] = answer[q]
      /\ Fault \/ faults' = faults
  BY DEF Commit, Respond, IInv, TypeOK
<1>4. AnswersOf(r)' /\ HoldsOf(r)'
  BY <1>2 DEF AnswersOf, HoldsOf
<1>5. CASE UNCHANGED <<rows, writes, dirty>>
  BY <1>1, <1>3, <1>4, <1>5, Open, Goes DEF IInv, TypeOK
<1>6. CASE Publish(r) /\ Release(r)
  <2>1. /\ writes' \in [Request -> UNION {[some -> Row] : some \in SUBSET Id}]
        /\ writes'[r] = NoWrites
        /\ \A q \in Request : q # r => /\ writes'[q] = writes[q]
                                       /\ DOMAIN writes'[r] \cap DOMAIN writes[q] = {}
    BY <1>6, Released
  <2>2. /\ rows' \in [Id -> Row]
        /\ \A id \in Id : id \notin DOMAIN writes[r] => rows'[id] = rows[id]
    BY <1>6 DEF Publish, IInv, TypeOK
  <2>3. dirty' \in [Request -> BOOLEAN]
    BY <1>6 DEF Publish, IInv, TypeOK
  <2>4. ASSUME NEW q \in Request, q # r, pc[q] # "new", ~dirty'[q]
        PROVE  ~dirty[q] /\ DOMAIN writes[r] = {}
    BY <1>6, <2>4, Zenon DEF Publish
  <2>5. TypeOK'
    <3>1. faults' \in 0 .. MaxFault
      BY <1>3, MaxFaultAssumption DEF Fault, IInv, TypeOK
    <3>2. \A q \in Request : /\ DOMAIN writes'[q] \subseteq Id
                           /\ writes'[q] \in [DOMAIN writes'[q] -> Row]
      BY <2>1
    <3>3. \A q \in Request : pc'[q] = "done" => answer'[q] # "none"
      BY <1>2, <1>3 DEF IInv, TypeOK
    <3> QED
      BY <1>1, <1>2, <1>3, <2>2, <2>3, <3>1, <3>2, <3>3 DEF IInv, TypeOK
  <2>6. Locks'
    BY <2>1 DEF IInv, Locks
  <2>7. Answers'
    <3> SUFFICES ASSUME NEW q \in Request, q # r PROVE AnswersOf(q)'
      BY <1>4 DEF Answers
    <3> QED
      BY <1>1, <1>2, <1>3, <2>1 DEF IInv, Answers, AnswersOf
  <2>8. Holds'
    <3> SUFFICES ASSUME NEW q \in Request, q # r, pc[q] = "commit", answer[q] = "none"
                 PROVE  HoldsOf(q)'
      BY <1>2, <1>3, <1>4 DEF Holds, HoldsOf
    <3>1. HoldsOf(q) /\ writes'[q] = writes[q] /\ call'[q] = call[q] /\ doc'[q] = doc[q]
      BY <1>1, <2>1 DEF IInv, Holds
    <3>2. \A id \in DOMAIN writes[q] : id \in Id /\ rows'[id] = rows[id]
      BY <2>2 DEF IInv, TypeOK, Locks
    <3>3. \A id \in DOMAIN writes[q] : Written(q, rows[id])' = Written(q, rows[id])
      BY <1>1, <3>2 DEF Written, SetColumns, Deleted, Created
    <3>4. \A id \in DOMAIN writes[q] : Promise!Writable(call[q], rows[id])'
      BY <1>1, <3>1, <3>2 DEF Promise!Writable, HoldsOf
    <3>5. \A id \in DOMAIN writes[q] : id \in Selected(q) => id \in Selected(q)'
      BY <1>1, <3>2 DEF Selected
    <3>6. call[q].do \in {"updateOne", "deleteOne"} => DOMAIN writes[q] \in Targets(q)'
      <4> SUFFICES ASSUME call[q].do \in {"updateOne", "deleteOne"}
                   PROVE  DOMAIN writes[q] \in Targets(q)'
        OBVIOUS
      <4>1. DOMAIN writes[q] \in Targets(q)
        BY <3>1 DEF HoldsOf
      <4>2. PICK one \in Selected(q) : DOMAIN writes[q] = {one}
        BY <4>1, TargetsOf DEF IInv
      <4>3. one \in Selected(q)'
        BY <3>5, <4>2
      <4>4. Targets(q)' = {{id} : id \in Selected(q)'}
        BY <1>1 DEF Targets
      <4> QED
        BY <4>2, <4>3, <4>4
    <3>7. DOMAIN writes[r] = {} => Selected(q)' = Selected(q)
      <4> SUFFICES ASSUME DOMAIN writes[r] = {} PROVE Selected(q)' = Selected(q)
        OBVIOUS
      <4>1. rows' = rows
        BY <2>2 DEF IInv, TypeOK
      <4> QED
        BY <1>1, <4>1, TargetsSame
    <3>8. ~dirty'[q] => ~dirty[q] /\ DOMAIN writes[r] = {}
      BY <2>4
    <3> QED
      BY <1>1, <1>2, <1>3, <3>1, <3>3, <3>4, <3>5, <3>6, <3>7, <3>8 DEF HoldsOf
  <2> QED
    BY <2>5, <2>6, <2>7, <2>8 DEF IInv
<1> QED
  BY <1>5, <1>6 DEF Commit

LEMMA StutterInv ==
  ASSUME IInv, UNCHANGED vars
  PROVE  IInv'
<1>1. /\ rows' = rows /\ call' = call /\ pc' = pc /\ writes' = writes /\ doc' = doc
      /\ answer' = answer /\ faults' = faults /\ dirty' = dirty
  BY DEF vars
<1>2. TypeOK' /\ Locks' /\ Answers'
  BY <1>1 DEF IInv, TypeOK, Locks, Answers, AnswersOf
<1>3. Holds'
  <2> SUFFICES ASSUME NEW q \in Request PROVE HoldsOf(q)'
    BY DEF Holds
  <2>1. Selected(q)' = Selected(q) /\ Targets(q)' = Targets(q)
    BY <1>1, TargetsSame
  <2>2. \A id \in DOMAIN writes[q] : Written(q, rows[id])' = Written(q, rows[id])
    BY <1>1 DEF Written, SetColumns, Deleted, Created
  <2> QED
    BY <1>1, <2>1, <2>2 DEF IInv, Holds, HoldsOf, Promise!Writable
<1> QED
  BY <1>2, <1>3 DEF IInv

LEMMA Inductive ==
  IInv /\ [Next]_vars => IInv'
<1> SUFFICES ASSUME IInv, [Next]_vars PROVE IInv'
  OBVIOUS
<1>1. CASE Next
  BY <1>1, RunInv, CommitInv, AbortInv, ReapInv DEF Next, Step
<1>2. CASE UNCHANGED vars
  BY <1>2, StutterInv
<1> QED
  BY <1>1, <1>2

LEMMA Invariance ==
  Spec => []IInv
BY InitInv, Inductive, PTL DEF Spec
-----------------------------------------------------------------------------
(* What follows from the invariant *)

(* Whatever overlaps, documents hold values, and a call that has ended has *)
(* an answer.                                                              *)
THEOREM TypeCorrect ==
  Spec => []TypeOK
BY Invariance, PTL DEF IInv

(* What a commit makes of the documents is what the command would make of  *)
(* them now.                                                               *)
LEMMA PublishesWritten ==
  ASSUME IInv, NEW r \in Request, pc[r] = "commit", answer[r] = "none", Publish(r)
  PROVE  /\ rows' = [id \in Id |-> IF id \in DOMAIN writes[r] THEN Written(r, rows[id])
                                                              ELSE rows[id]]
         /\ \A id \in DOMAIN writes[r] : DOMAIN writes[r] = {id} => doc[r] = rows'[id]
<1>1. rows' = [id \in Id |-> IF id \in DOMAIN writes[r] THEN writes[r][id] ELSE rows[id]]
  BY DEF Publish
<1>2. \A id \in DOMAIN writes[r] : /\ id \in Id /\ writes[r][id] = Written(r, rows[id])
                                   /\ DOMAIN writes[r] = {id} => doc[r] = writes[r][id]
  BY DEF IInv, TypeOK, Holds, HoldsOf
<1> QED
  BY <1>1, <1>2

LEMMA SerialStep ==
  IInv /\ [Next]_vars =>
    [\A r \in Request : Succeeds(r) /\ answer'[r] = "ok" =>
       \/ /\ call[r].do \in {"create", "updateOne", "deleteOne"} \/ ~dirty[r]
          /\ \E ids \in (IF call[r].do = "create" THEN {call[r].ids} ELSE Targets(r)) :
               /\ rows' = [id \in Id |-> IF id \in ids THEN Written(r, rows[id]) ELSE rows[id]]
               /\ Cardinality(ids) = 1 => \A id \in ids : doc'[r] = rows'[id]
       \/ call[r].do \in {"updateMany", "deleteMany"} /\ dirty[r]]_vars
<1> SUFFICES ASSUME IInv, Next, NEW r \in Request, Succeeds(r), answer'[r] = "ok",
                    ~(call[r].do \in {"updateMany", "deleteMany"} /\ dirty[r])
             PROVE  /\ call[r].do \in {"create", "updateOne", "deleteOne"} \/ ~dirty[r]
                    /\ \E ids \in (IF call[r].do = "create" THEN {call[r].ids} ELSE Targets(r)) :
                         /\ rows' = [id \in Id |-> IF id \in ids THEN Written(r, rows[id])
                                                                 ELSE rows[id]]
                         /\ Cardinality(ids) = 1 => \A id \in ids : doc'[r] = rows'[id]
  OBVIOUS
<1>1. PICK q \in Request : Step(q)
  BY DEF Next
<1>2. pc[r] = "commit" /\ pc'[r] = "done"
  BY DEF Succeeds
<1>3. q = r
  <2>1. UNCHANGED pc \/ \E where : Goto(q, where)
    BY <1>1 DEF Step, Run, Do, Commit, Abort, Reap, Throw
  <2> QED
    BY <1>2, <2>1 DEF Goto, IInv, TypeOK
<1>4. Commit(r)
  BY <1>1, <1>2, <1>3 DEF Step, Run, Abort, Reap
<1>5. Publish(r) /\ answer[r] = "none" /\ doc' = doc
  BY <1>2, <1>4 DEF Commit, Respond, IInv, TypeOK, Answers, AnswersOf
<1>6. call[r].do \in Command
  BY CallType DEF IInv
<1>7. DOMAIN writes[r] \in (IF call[r].do = "create" THEN {call[r].ids} ELSE Targets(r))
  <2>1. HoldsOf(r)
    BY DEF IInv, Holds
  <2> QED
    BY <1>2, <1>5, <1>6, <2>1, TargetsOf DEF HoldsOf, Command, IInv
<1>8. Cardinality(DOMAIN writes[r]) = 1 => \A id \in DOMAIN writes[r] : doc'[r] = rows'[id]
  <2> SUFFICES ASSUME Cardinality(DOMAIN writes[r]) = 1, NEW id \in DOMAIN writes[r]
               PROVE  doc'[r] = rows'[id]
    OBVIOUS
  <2>1. DOMAIN writes[r] \in SUBSET Id
    BY DEF IInv, TypeOK
  <2>2. DOMAIN writes[r] = {id}
    BY <2>1, OneDocument
  <2> QED
    BY <1>2, <1>5, <2>2, PublishesWritten
<1> QED
  BY <1>2, <1>5, <1>6, <1>7, <1>8, PublishesWritten DEF Command

(* However the calls of one document at a time overlap, each of them does  *)
(* at its commit what it would have done alone at that moment and answers  *)
(* the document as it has made it, so that no $inc is lost; a call of many *)
(* documents does so unless another call has committed since its command.  *)
THEOREM CommandsAreSerial ==
  Spec => CallsAreSerial
<1>1. Spec => [][\A r \in Request : Succeeds(r) /\ answer'[r] = "ok" =>
       \/ /\ call[r].do \in {"create", "updateOne", "deleteOne"} \/ ~dirty[r]
          /\ \E ids \in (IF call[r].do = "create" THEN {call[r].ids} ELSE Targets(r)) :
               /\ rows' = [id \in Id |-> IF id \in ids THEN Written(r, rows[id]) ELSE rows[id]]
               /\ Cardinality(ids) = 1 => \A id \in ids : doc'[r] = rows'[id]
       \/ call[r].do \in {"updateMany", "deleteMany"} /\ dirty[r]]_vars
  BY SerialStep, Invariance, PTL DEF Spec
<1> QED
  BY <1>1, PTL DEF CallsAreSerial
-----------------------------------------------------------------------------
(* The implementation of TablePromise *)

(* A commit is the instant at which a call takes effect. *)
LEMMA CommitEffect ==
  ASSUME IInv, NEW r \in Request, pc[r] = "commit", Publish(r)
  PROVE  Promise!Effect(r)
<1> DEFINE changed == {id \in Id : rows'[id] # rows[id]}
<1>1. answer[r] \in {"none", "null"}
  BY DEF IInv, Answers, AnswersOf
<1>2. /\ rows' = [id \in Id |-> rows'[id]]
      /\ \A id \in DOMAIN writes[r] : id \in Id /\ rows'[id] = writes[r][id]
      /\ changed \subseteq DOMAIN writes[r]
  BY DEF Publish, IInv, TypeOK
<1>3. CASE answer[r] = "null"
  <2>1. changed = {} /\ call[r].do \in {"updateOne", "deleteOne"}
    BY <1>2, <1>3, NoRowType DEF IInv, Answers, AnswersOf
  <2> QED
    BY <1>2, <2>1 DEF Promise!Effect
<1>4. CASE answer[r] = "none"
  <2>1. HoldsOf(r)
    BY DEF IInv, Holds
  <2>2. \A id \in DOMAIN writes[r] : /\ Promise!Writable(call[r], rows[id])
                                     /\ writes[r][id] = Written(r, rows[id])
                                     /\ Written(r, rows[id]) \in Promise!Written(call[r], rows[id])
    <3> SUFFICES ASSUME NEW id \in DOMAIN writes[r]
                 PROVE  /\ Promise!Writable(call[r], rows[id])
                        /\ writes[r][id] = Written(r, rows[id])
                        /\ Written(r, rows[id]) \in Promise!Written(call[r], rows[id])
      OBVIOUS
    <3>1. rows[id] \in Row
      BY <1>2 DEF IInv, TypeOK
    <3> QED
      BY <1>4, <2>1, <3>1, WrittenType DEF HoldsOf, IInv
  <2>3. DOMAIN writes[r] \subseteq call[r].ids
    BY <1>4, <2>1, CallType, TargetsOf DEF HoldsOf, IInv, Command
  <2>4. call[r].do \in {"updateById", "updateOne", "deleteOne"} =>
          \A id, other \in changed : id = other
    <3> SUFFICES ASSUME call[r].do \in {"updateOne", "deleteOne"}
                 PROVE  \A id, other \in changed : id = other
      BY CallType DEF Command, IInv
    <3>1. DOMAIN writes[r] \in Targets(r)
      BY <1>4, <2>1 DEF HoldsOf
    <3>2. PICK one \in Selected(r) : DOMAIN writes[r] = {one}
      BY <3>1, TargetsOf DEF IInv
    <3> QED
      BY <1>2, <3>2
  <2>5. call[r].do = "create" => changed = call[r].ids
    <3> SUFFICES ASSUME call[r].do = "create", NEW id \in call[r].ids
                 PROVE  id \in changed
      BY <1>2, <2>3
    <3>1. id \in DOMAIN writes[r]
      BY <1>4, <2>1 DEF HoldsOf
    <3>2. id \in Id /\ rows'[id] = Written(r, rows[id]) /\ rows[id].life = "unborn"
      BY <1>2, <2>2, <3>1 DEF Promise!Writable
    <3>3. Written(r, rows[id]) = Created(call[r])
      BY DEF Written
    <3> QED
      BY <3>2, <3>3 DEF Created
  <2>6. \A id \in changed : /\ Promise!Writable(call[r], rows[id])
                            /\ rows'[id] \in Promise!Written(call[r], rows[id])
    BY <1>2, <2>2
  <2>7. changed \subseteq call[r].ids
    BY <1>2, <2>3
  <2> QED
    BY <1>2, <2>4, <2>5, <2>6, <2>7 DEF Promise!Effect
<1> QED
  BY <1>1, <1>3, <1>4

(* The outcome of a call whose pc changes; that of the others stays. *)
LEMMA OutcomeStep ==
  ASSUME IInv, NEW r \in Request, NEW where, Goto(r, where), pc[r] # "done",
         \A q \in Request : q # r => answer'[q] = answer[q]
  PROVE  /\ Outcome[r] = "pending"
         /\ where # "done" => Outcome' = Outcome
         /\ where = "done" => /\ answer'[r] \in {"ok", "null"} =>
                                   Outcome' = [Outcome EXCEPT ![r] = "ok"]
                              /\ answer'[r] \in {"notFound", "error"} =>
                                   Outcome' = [Outcome EXCEPT ![r] = "refused"]
                              /\ answer'[r] = "unknown" =>
                                   Outcome' = [Outcome EXCEPT ![r] = "unknown"]
<1>1. pc'[r] = where /\ \A q \in Request : q # r => pc'[q] = pc[q]
  BY DEF Goto, IInv, TypeOK
<1>2. Outcome[r] = "pending" /\ Outcome = [q \in Request |-> Outcome[q]]
  BY DEF Outcome
<1>3. /\ Outcome' = [q \in Request |-> Outcome'[q]]
      /\ \A q \in Request : q # r => Outcome'[q] = Outcome[q]
  <2>1. Outcome' = [q \in Request |-> Outcome'[q]]
    BY DEF Outcome
  <2>2. ASSUME NEW q \in Request, q # r
        PROVE  Outcome'[q] = Outcome[q]
    BY <1>1, <2>2 DEF Outcome
  <2> QED
    BY <2>1, <2>2
<1>4. /\ where # "done" => Outcome'[r] = "pending"
      /\ where = "done" =>
           /\ answer'[r] \in {"ok", "null"} => Outcome'[r] = "ok"
           /\ answer'[r] \in {"notFound", "error"} => Outcome'[r] = "refused"
           /\ answer'[r] = "unknown" => Outcome'[r] = "unknown"
  BY <1>1 DEF Outcome
<1> QED
  BY <1>2, <1>3, <1>4

LEMMA InitPromise ==
  Init => Promise!Init
BY DEF Init, Promise!Init, Outcome

(* One call at a time takes a step: commands and aborts are not seen, and  *)
(* neither is the server when it aborts what nobody ends.                  *)
LEMMA StepPromise ==
  ASSUME IInv, NEW r \in Request, Step(r)
  PROVE  [Promise!Next]_(Promise!vars)
<1>1. call' = call
  BY DEF Step, Run, Commit, Abort, Reap
<1>2. Promise!Accept(r) \/ Promise!Refuse(r) \/ Promise!Lose(r) => Promise!Next
  BY <1>1 DEF Promise!Next
<1>3. \A what : Respond(r, what) => /\ answer'[r] = what
                                    /\ \A q \in Request : q # r => answer'[q] = answer[q]
  BY DEF Respond, IInv, TypeOK
<1>4. CASE Run(r)
  <2>1. pc[r] # "done" /\ rows' = rows
    BY <1>4 DEF Run
  <2>2. Goto(r, "commit") \/ Goto(r, "abort")
    BY <1>4 DEF Run, Do, Throw
  <2>3. \A q \in Request : q # r => answer'[q] = answer[q]
    BY <1>3, <1>4 DEF Run, Throw
  <2>4. Outcome' = Outcome
    BY <2>1, <2>2, <2>3, OutcomeStep
  <2> QED
    BY <1>1, <2>1, <2>4 DEF Promise!vars
<1>5. CASE Commit(r)
  <2>1. pc[r] = "commit" /\ Goto(r, "done")
    BY <1>5 DEF Commit
  <2>2. ASSUME NEW what \in {"ok", "null"}, Respond(r, what), Publish(r)
        PROVE  Promise!Next
    <3>1. Outcome[r] = "pending" /\ Outcome' = [Outcome EXCEPT ![r] = "ok"]
      BY <1>3, <2>1, <2>2, OutcomeStep
    <3>2. Promise!Effect(r)
      BY <2>1, <2>2, CommitEffect
    <3> QED
      BY <1>2, <3>1, <3>2 DEF Promise!Accept, Promise!Answer
  <2>3. ASSUME Respond(r, "unknown"), Publish(r) \/ rows' = rows
        PROVE  Promise!Next
    <3>1. Outcome[r] = "pending" /\ Outcome' = [Outcome EXCEPT ![r] = "unknown"]
      BY <1>3, <2>1, <2>3, OutcomeStep
    <3>2. Promise!Effect(r) \/ rows' = rows
      BY <2>1, <2>3, CommitEffect
    <3> QED
      BY <1>2, <3>1, <3>2 DEF Promise!Lose, Promise!Answer
  <2> QED
    BY <1>5, <2>2, <2>3 DEF Commit
<1>6. CASE Abort(r)
  <2>1. pc[r] = "abort" /\ Goto(r, "done") /\ rows' = rows /\ answer' = answer
    BY <1>6 DEF Abort
  <2>2. answer'[r] \in {"notFound", "error"} /\ \A q \in Request : q # r => answer'[q] = answer[q]
    BY <2>1 DEF IInv, Answers, AnswersOf
  <2>3. Outcome[r] = "pending" /\ Outcome' = [Outcome EXCEPT ![r] = "refused"]
    BY <2>1, <2>2, OutcomeStep
  <2> QED
    BY <1>2, <2>1, <2>3 DEF Promise!Refuse, Promise!Answer
<1>7. CASE Reap(r)
  BY <1>1, <1>7 DEF Reap, Promise!vars, Outcome
<1> QED
  BY <1>4, <1>5, <1>6, <1>7 DEF Step

LEMMA PromiseStep ==
  IInv /\ [Next]_vars => [Promise!Next]_(Promise!vars)
<1> SUFFICES ASSUME IInv, [Next]_vars PROVE [Promise!Next]_(Promise!vars)
  OBVIOUS
<1>1. CASE Next
  BY <1>1, StepPromise DEF Next
<1>2. CASE UNCHANGED vars
  BY <1>2 DEF vars, Promise!vars, Outcome
<1> QED
  BY <1>1, <1>2

(* A call that is refused has changed nothing, and one that is not takes   *)
(* effect at its commit as a whole, even when its transaction was left     *)
(* open and others were refused because of it: the calls implement         *)
(* TablePromise, as those of the SQL repository do.                        *)
THEOREM CallsKeepPromise ==
  Spec => KeepsPromise
<1>1. Spec => Promise!Init /\ [][Promise!Next]_(Promise!vars)
  BY InitPromise, PromiseStep, Invariance, PTL DEF Spec
<1> QED
  BY <1>1 DEF KeepsPromise, Promise!Spec
-----------------------------------------------------------------------------
(* The first administrator *)

(* Users and settings are documents too: how instances of the server       *)
(* create the first administrator, for any number of instances, crashes    *)
(* and edits.                                                              *)

LEMMA BootInitType == BootInit => BootTypeOK
<1> SUFFICES ASSUME BootInit PROVE BootTypeOK
  OBVIOUS
<1>1. crashes \in 0 .. MaxCrash /\ edits \in 0 .. MaxEdit
  BY BoundAssumption DEF BootInit
<1>2. admin \in BOOLEAN
  BY Zenon DEF BootInit
<1>3. /\ boot \in [Instance -> {"down", "read", "create", "store", "up"}]
      /\ setting \in {"absent", "unset", "set"}
  BY DEF BootInit
<1> QED
  BY <1>1, <1>2, <1>3, Zenon DEF BootTypeOK

LEMMA BootTypeStep == BootTypeOK /\ [BootNext]_bootVars => BootTypeOK'
<1> SUFFICES ASSUME BootTypeOK, [BootNext]_bootVars PROVE BootTypeOK'
  OBVIOUS
<1>1. ASSUME NEW i \in Instance, Boot(i) PROVE BootTypeOK'
  BY <1>1 DEF BootTypeOK, Boot, Start, GetSettingValue, CreateAdmin, SetSettingValue, Proceed
<1>2. ASSUME NEW i \in Instance, Crash(i) PROVE BootTypeOK'
  BY <1>2, BoundAssumption DEF BootTypeOK, Crash, Proceed
<1>3. CASE SetSetting \/ EditUser
  <2>1. edits' \in 0 .. MaxEdit /\ UNCHANGED <<boot, crashes>>
    BY <1>3, BoundAssumption DEF BootTypeOK, SetSetting, EditUser, Edit
  <2>2. admin' \in BOOLEAN /\ setting' \in {"absent", "unset", "set"}
    BY <1>3, Zenon DEF BootTypeOK, SetSetting, EditUser
  <2> QED
    BY <2>1, <2>2, Zenon DEF BootTypeOK
<1>4. CASE UNCHANGED bootVars
  BY <1>4 DEF BootTypeOK, bootVars
<1> QED
  BY <1>1, <1>2, <1>3, <1>4 DEF BootNext

(* INIT_DATA is only ever absent or holds a value that was validated, and  *)
(* the counters of the model stay within their bounds.                     *)
LEMMA BootTypeCorrect == BootSpec => []BootTypeOK
BY BootInitType, BootTypeStep, PTL DEF BootSpec

(* Before any edit the setting is stored only by an instance that has      *)
(* created the user, or has found the setting stored.                      *)
Untouched ==
  edits = 0 =>
    /\ setting \in {"absent", "set"}
    /\ setting = "set" => admin
    /\ \A i \in Instance : boot[i] = "store" => admin
    /\ \A i \in Instance : boot[i] = "up" => setting = "set"

LEMMA UntouchedStep == BootTypeOK /\ Untouched /\ [BootNext]_bootVars => Untouched'
<1> SUFFICES ASSUME BootTypeOK, Untouched, [BootNext]_bootVars, edits' = 0 PROVE Untouched'
  BY DEF Untouched
<1> USE DEF BootTypeOK, Untouched, Proceed
<1>1. ASSUME NEW i \in Instance, Start(i) PROVE Untouched'
  BY <1>1 DEF Start
<1>2. ASSUME NEW i \in Instance, GetSettingValue(i) PROVE Untouched'
  BY <1>2 DEF GetSettingValue
<1>3. ASSUME NEW i \in Instance, CreateAdmin(i) PROVE Untouched'
  BY <1>3 DEF CreateAdmin
<1>4. ASSUME NEW i \in Instance, SetSettingValue(i) PROVE Untouched'
  BY <1>4 DEF SetSettingValue
<1>5. ASSUME NEW i \in Instance, Crash(i) PROVE Untouched'
  BY <1>5 DEF Crash
<1>6. ~(SetSetting \/ EditUser)
  BY BoundAssumption DEF SetSetting, EditUser, Edit
<1>7. CASE UNCHANGED bootVars
  BY <1>7 DEF bootVars
<1> QED
  BY <1>1, <1>2, <1>3, <1>4, <1>5, <1>6, <1>7 DEF BootNext, Boot

(* As long as nobody has edited them by hand, instances serve requests     *)
(* only when user and setting are both there.                              *)
THEOREM Initialised == BootSpec => []UpMeansInitialised
<1>1. BootInit => Untouched
  BY DEF BootInit, Untouched
<1>2. Untouched => UpMeansInitialised
  BY DEF Untouched, UpMeansInitialised
<1> QED
  BY <1>1, <1>2, UntouchedStep, BootTypeCorrect, PTL DEF BootSpec

LEMMA TornStep == BootTypeOK /\ TornOnlyByCrash /\ [BootNext]_bootVars => TornOnlyByCrash'
<1> SUFFICES ASSUME BootTypeOK, TornOnlyByCrash, [BootNext]_bootVars, crashes' = 0, edits' = 0
             PROVE  ~Torn'
  BY BootTypeStep, BoundAssumption DEF BootTypeOK, TornOnlyByCrash
<1> USE DEF BootTypeOK, TornOnlyByCrash, Torn, Proceed
<1>1. ASSUME NEW i \in Instance, Start(i) PROVE ~Torn'
  BY <1>1 DEF Start
<1>2. ASSUME NEW i \in Instance, GetSettingValue(i) PROVE ~Torn'
  BY <1>2 DEF GetSettingValue
<1>3. ASSUME NEW i \in Instance, CreateAdmin(i) PROVE ~Torn'
  <2>1. CASE admin
    <3>1. boot' = [boot EXCEPT ![i] = "down"] /\ boot[i] = "create"
      BY <1>3, <2>1 DEF CreateAdmin
    <3>2. \A j \in Instance : boot'[j] # "store" => boot[j] # "store"
      BY <3>1
    <3>3. UNCHANGED <<admin, setting, crashes, edits>>
      BY <1>3, <2>1, Zenon DEF CreateAdmin
    <3>4. Torn' => Torn
      BY <3>2, <3>3
    <3> QED
      BY <3>3, <3>4
  <2>2. CASE ~admin
    BY <1>3, <2>2 DEF CreateAdmin
  <2> QED
    BY <2>1, <2>2
<1>4. ASSUME NEW i \in Instance, SetSettingValue(i) PROVE ~Torn'
  BY <1>4 DEF SetSettingValue
<1>5. ASSUME NEW i \in Instance PROVE ~Crash(i)
  BY BoundAssumption DEF Crash
<1>6. ~(SetSetting \/ EditUser)
  BY BoundAssumption DEF SetSetting, EditUser, Edit
<1>7. CASE UNCHANGED bootVars
  BY <1>7 DEF bootVars
<1> QED
  BY <1>1, <1>2, <1>3, <1>4, <1>5, <1>6, <1>7 DEF BootNext, Boot

(* Instances that start together never leave the user without the setting: *)
(* only a crash between the two writes, or an edit, does.                  *)
THEOREM OnlyCrashesTear == BootSpec => []TornOnlyByCrash
<1>1. BootInit => TornOnlyByCrash
  BY DEF BootInit, TornOnlyByCrash, Torn
<1> QED
  BY <1>1, TornStep, BootTypeCorrect, PTL DEF BootSpec
=============================================================================
