--------------------------- MODULE JudgeNodesProofs ---------------------------
(***************************************************************************)
(* Theorems about JudgeNodes, for every set of nodes, requests, rows and   *)
(* bodies: type correctness, the bound on the load of a node, atomicity of *)
(* undisturbed load calls, and what a health check leaves behind.          *)
(***************************************************************************)
EXTENDS JudgeNodes, TLAPS

(* The constant patches and the row that is not there yet. *)
LEMMA ConstantRows ==
  /\ NoPatch \in Patch
  /\ NoPatch.status = "online" /\ NoPatch.load = 0 /\ NoPatch.cap = 0
  /\ SetOffline \in Patch /\ SetOffline.set = {"status"} /\ SetOffline.status = "offline"
  /\ Unborn \in Row /\ Unborn.life = "unborn" /\ Unborn.load = 0 /\ Unborn.cap = 0
<1>1. "online" \in Status /\ "offline" \in Status
  BY DEF Status, JudgeNodeStatus
<1>2. NoPatch \in Patch
  BY <1>1 DEF NoPatch, Patch
<1>3. NoPatch.status = "online" /\ NoPatch.load = 0 /\ NoPatch.cap = 0
  BY DEF NoPatch
<1>4. SetOffline \in Patch /\ SetOffline.set = {"status"} /\ SetOffline.status = "offline"
  BY <1>1, <1>2 DEF SetOffline, Patch, Column
<1>5. Unborn \in Row /\ Unborn.life = "unborn" /\ Unborn.load = 0 /\ Unborn.cap = 0
  BY <1>1 DEF Unborn, Row
<1> QED
  BY <1>2, <1>3, <1>4, <1>5

(* A patch is applied column by column. *)
LEMMA PatchedRow ==
  ASSUME NEW row \in Row, NEW p \in Patch
  PROVE  /\ Patched(row, p) \in Row
         /\ Patched(row, p).life = row.life
         /\ Patched(row, p).status = IF "status" \in p.set THEN p.status ELSE row.status
         /\ Patched(row, p).load = IF "load" \in p.set THEN p.load ELSE row.load
         /\ Patched(row, p).cap = IF "cap" \in p.set THEN p.cap ELSE row.cap
  BY DEF Patched, Row, Patch

(* Cutting a patch down keeps the columns of the set and clears the rest. *)
LEMMA OnlyPatch ==
  ASSUME NEW p \in Patch, NEW set \in SUBSET Column
  PROVE  /\ Only(p, set) \in Patch
         /\ Only(p, set).set = set
         /\ Only(p, set).status = IF "status" \in set THEN p.status ELSE "online"
         /\ Only(p, set).load = IF "load" \in set THEN p.load ELSE 0
         /\ Only(p, set).cap = IF "cap" \in set THEN p.cap ELSE 0
<1> DEFINE q == [p EXCEPT !.set = set]
<1>1. /\ q \in Patch /\ q.set = set
      /\ q.status = p.status /\ q.load = p.load /\ q.cap = p.cap
  BY DEF Patch
<1>2. /\ Patched(NoPatch, q) \in Patch
      /\ Patched(NoPatch, q).status = IF "status" \in set THEN p.status ELSE "online"
      /\ Patched(NoPatch, q).load = IF "load" \in set THEN p.load ELSE 0
      /\ Patched(NoPatch, q).cap = IF "cap" \in set THEN p.cap ELSE 0
  <2> HIDE DEF q
  <2> QED
    BY <1>1, ConstantRows DEF Patched, Patch
<1>3. Only(p, set) = [Patched(NoPatch, q) EXCEPT !.set = set]
  BY DEF Only
<1> HIDE DEF q
<1> QED
  BY <1>2, <1>3 DEF Patch

LEMMA LargerBound ==
  ASSUME NEW a \in Int, NEW b \in Int
  PROVE  /\ Larger(a, b) \in Int /\ a <= Larger(a, b) /\ b <= Larger(a, b)
         /\ a >= 0 => Larger(a, b) \in Nat
  BY DEF Larger

(* The first ceiling of a node is natural and bounds its load and limit. *)
LEMMA CeilingBound ==
  ASSUME NEW a \in Int, NEW b \in Int
  PROVE  /\ Larger(0, Larger(a, b)) \in Nat
         /\ a <= Larger(0, Larger(a, b)) /\ b <= Larger(0, Larger(a, b))
  BY DEF Larger

(* The largest value a body sets bounds the load and the limit it sets. *)
LEMMA LargestBound ==
  ASSUME NEW p \in Patch
  PROVE  /\ Largest(p) \in Int
         /\ "load" \in p.set => p.load <= Largest(p)
         /\ "cap" \in p.set => p.cap <= Largest(p)
<1>1. p.set \in SUBSET Column /\ p.load \in Int /\ p.cap \in Int
  BY DEF Patch
<1>2. /\ Only(p, p.set).load \in Int
      /\ Only(p, p.set).cap \in Int
      /\ "load" \in p.set => Only(p, p.set).load = p.load
      /\ "cap" \in p.set => Only(p, p.set).cap = p.cap
  BY <1>1, OnlyPatch
<1> QED
  BY <1>2, LargerBound DEF Largest

LEMMA LoadPatchType ==
  ASSUME TypeOK, NEW n \in Node, NEW load \in Int
  PROVE  /\ LoadPatch(n, load) \in Patch
         /\ LoadPatch(n, load).set = {"status", "load"}
         /\ LoadPatch(n, load).status = nodes[n].status
         /\ LoadPatch(n, load).load = load
<1>1. nodes[n].status \in Status
  BY DEF TypeOK, Row
<1> QED
  BY <1>1, ConstantRows DEF LoadPatch, Patch, Column

(* The requests a step of the body of Next belongs to. *)
LEMMA StartCases ==
  ASSUME NEW r \in Request, Start(r)
  PROVE  \/ \E n \in Node : IncrementLoad(r, n) \/ DecrementLoad(r, n) \/ DeleteNode(r, n)
         \/ \E n \in Node, p \in Body : UpdateById(r, n, p) \/ UpdateNodeStatus(r, n, p)
         \/ \E n \in Node, row \in NewRow : CreateNode(r, n, row)
         \/ CheckAndUpdateOfflineNodes(r)
  BY DEF Start
-----------------------------------------------------------------------------
(* What the two bookkeeping operators preserve. *)
LEMMA WriteRowType ==
  ASSUME TypeOK, NEW r \in Request, NEW n \in Node, NEW row \in Row, NEW set,
         WriteRow(r, n, row, set)
  PROVE  /\ nodes' \in [Node -> Row]
         /\ dirty' \in [Request -> BOOLEAN]
         /\ excused' \in [Request -> SUBSET Node]
<1>1. nodes' \in [Node -> Row]
  BY DEF TypeOK, WriteRow
<1>2. dirty' \in [Request -> BOOLEAN]
  BY Zenon DEF TypeOK, WriteRow
<1>3. excused' \in [Request -> SUBSET Node]
  BY DEF TypeOK, WriteRow
<1> QED
  BY <1>1, <1>2, <1>3

LEMMA RaiseType ==
  ASSUME TypeOK, NEW n \in Node, NEW value \in Int, Raise(n, value)
  PROVE  /\ ceiling' \in [Node -> Nat]
         /\ value <= ceiling'[n]
         /\ \A m \in Node : ceiling[m] <= ceiling'[m]
<1>1. /\ Larger(ceiling[n], value) \in Nat
      /\ ceiling[n] <= Larger(ceiling[n], value)
      /\ value <= Larger(ceiling[n], value)
  BY LargerBound DEF TypeOK
<1>2. \A m \in Node : ceiling'[m] = IF m = n THEN Larger(ceiling[n], value) ELSE ceiling[m]
  BY DEF TypeOK, Raise
<1>3. ceiling' \in [Node -> Nat]
  BY <1>1 DEF TypeOK, Raise
<1> QED
  BY <1>1, <1>2, <1>3 DEF TypeOK

LEMMA InitType == Init => TypeOK
<1> SUFFICES ASSUME Init PROVE TypeOK
  OBVIOUS
<1>1. nodes \in [Node -> Row]
  BY ConstantRows, NewRowAssumption DEF Init
<1>2. ceiling \in [Node -> Nat]
  <2>1. \A n \in Node : nodes[n].load \in Int /\ nodes[n].cap \in Int
    BY <1>1 DEF Row
  <2>2. \A n \in Node : Larger(0, Larger(nodes[n].load, nodes[n].cap)) \in Nat
    BY <2>1, CeilingBound
  <2> QED
    BY <2>2 DEF Init
<1> QED
  BY <1>1, <1>2, ConstantRows DEF Init, TypeOK, Kind

LEMMA AwaitWriteType ==
  ASSUME TypeOK, NEW r \in Request, NEW k \in Kind, NEW n \in Node, NEW p \in Patch,
         k = "decrement" => p.load >= 0, AwaitWrite(r, k, n, p)
  PROVE  TypeOK'
  BY DEF TypeOK, AwaitWrite

LEMMA AnswerType ==
  ASSUME TypeOK, NEW r \in Request, NEW k \in Kind, NEW a \in {"done", "failed"},
         Answer(r, k, a), UNCHANGED <<nodes, fresh, target, patch, todo, history>>
  PROVE  TypeOK'
  BY DEF TypeOK, Answer, history

LEMMA TypeStep == TypeOK /\ [Next]_vars => TypeOK'
<1> SUFFICES ASSUME TypeOK, [Next]_vars PROVE TypeOK'
  OBVIOUS
<1>a. Kind = {"none", "increment", "decrement", "update", "command", "scan"}
  BY DEF Kind
<1>r. \A n \in Node : nodes[n] \in Row /\ nodes[n].load \in Int /\ nodes[n].cap \in Int
  BY DEF TypeOK, Row
<1>1. ASSUME NEW r \in Request, NEW n \in Node, IncrementLoad(r, n) PROVE TypeOK'
  <2>1. nodes[n].load + 1 \in Int
    BY <1>r
  <2>2. LoadPatch(n, nodes[n].load + 1) \in Patch
    BY <2>1, LoadPatchType
  <2> QED
    BY <1>a, <1>1, <2>2, AwaitWriteType, AnswerType DEF IncrementLoad
<1>2. ASSUME NEW r \in Request, NEW n \in Node, DecrementLoad(r, n) PROVE TypeOK'
  <2>1. Larger(0, nodes[n].load - 1) \in Nat
    BY <1>r DEF Larger
  <2>2. /\ LoadPatch(n, Larger(0, nodes[n].load - 1)) \in Patch
        /\ LoadPatch(n, Larger(0, nodes[n].load - 1)).load >= 0
    BY <2>1, LoadPatchType
  <2> QED
    BY <1>a, <1>2, <2>2, AwaitWriteType, AnswerType DEF DecrementLoad
<1>3. ASSUME NEW r \in Request, NEW n \in Node, DeleteNode(r, n) PROVE TypeOK'
  <2>1. [nodes[n] EXCEPT !.life = "deleted"] \in Row
    BY <1>r DEF Row
  <2>2. WriteRow(r, n, [nodes[n] EXCEPT !.life = "deleted"], {})
    BY <1>3 DEF DeleteNode
  <2> QED
    BY <1>a, <1>3, <2>1, <2>2, WriteRowType DEF TypeOK, DeleteNode, Answer
<1>4. ASSUME NEW r \in Request, NEW n \in Node, NEW p \in Body, UpdateById(r, n, p)
      PROVE TypeOK'
  <2>1. p \in Patch /\ Changed(n, p) \in SUBSET Column
    BY BodyAssumption DEF Changed, Patch
  <2>2. Only(p, Changed(n, p)) \in Patch
    BY <2>1, OnlyPatch
  <2> QED
    BY <1>a, <1>4, <2>2, AwaitWriteType, AnswerType DEF UpdateById
<1>5. ASSUME NEW r \in Request, NEW n \in Node, NEW p \in Body, UpdateNodeStatus(r, n, p)
      PROVE TypeOK'
  <2>1. p \in Patch /\ Patched(nodes[n], p) \in Row /\ Largest(p) \in Int
    BY <1>r, BodyAssumption, PatchedRow, LargestBound
  <2>2. CASE Live(n)
    BY <1>a, <1>5, <2>1, <2>2, WriteRowType, RaiseType DEF TypeOK, UpdateNodeStatus, Answer
  <2>3. CASE ~Live(n)
    BY <1>a, <1>5, <2>3, AnswerType DEF UpdateNodeStatus
  <2> QED
    BY <2>2, <2>3
<1>6. ASSUME NEW r \in Request, NEW n \in Node, NEW row \in NewRow, CreateNode(r, n, row)
      PROVE TypeOK'
  <2>1. row \in Row /\ row.load \in Int /\ row.cap \in Int
    BY NewRowAssumption DEF Row
  <2>2. Larger(row.load, row.cap) \in Int
    BY <2>1, LargerBound
  <2> QED
    BY <1>a, <1>6, <2>1, <2>2, WriteRowType, RaiseType DEF TypeOK, CreateNode, Answer
<1>7. ASSUME NEW r \in Request, CheckAndUpdateOfflineNodes(r) PROVE TypeOK'
  BY <1>a, <1>7 DEF TypeOK, CheckAndUpdateOfflineNodes, history
<1>8. ASSUME NEW r \in Request, WritePatch(r) PROVE TypeOK'
  <2>1. target[r] \in Node /\ patch[r] \in Patch
    BY <1>8 DEF TypeOK, WritePatch
  <2>2. Patched(nodes[target[r]], patch[r]) \in Row /\ Largest(patch[r]) \in Int
    BY <1>r, <2>1, PatchedRow, LargestBound
  <2>3. CASE Live(target[r])
    <3>1. WriteRow(r, target[r], Patched(nodes[target[r]], patch[r]), patch[r].set)
      BY <1>8, <2>3 DEF WritePatch
    <3>2. ceiling' \in [Node -> Nat]
      <4>1. CASE kind[r] = "update"
        BY <1>8, <2>1, <2>2, <2>3, <4>1, RaiseType DEF WritePatch
      <4>2. CASE kind[r] # "update"
        BY <1>8, <2>3, <4>2 DEF WritePatch, TypeOK
      <4> QED
        BY <4>1, <4>2
    <3> QED
      BY <1>8, <2>1, <2>2, <2>3, <3>1, <3>2, WriteRowType, ConstantRows DEF TypeOK, WritePatch
  <2>4. CASE ~Live(target[r])
    BY <1>8, <2>4, ConstantRows DEF TypeOK, WritePatch, history
  <2> QED
    BY <2>3, <2>4
<1>9. ASSUME NEW r \in Request, ScanCheck(r) PROVE TypeOK'
  <2>1. PICK n \in todo[r] : ScanCheck(r)!2!(n)
    BY <1>9 DEF ScanCheck
  <2>2. n \in Node
    BY <2>1 DEF TypeOK
  <2> QED
    BY <1>9, <2>1, <2>2 DEF TypeOK, ScanCheck
<1>10. ASSUME NEW r \in Request, ScanSetOffline(r) PROVE TypeOK'
  <2>1. target[r] \in Node
    BY <1>10 DEF TypeOK, ScanSetOffline
  <2>2. Patched(nodes[target[r]], SetOffline) \in Row
    BY <1>r, <2>1, PatchedRow, ConstantRows
  <2> QED
    BY <1>10, <2>1, <2>2, WriteRowType DEF TypeOK, ScanSetOffline, history
<1>11. ASSUME NEW r \in Request, ScanEnd(r) PROVE TypeOK'
  BY <1>11 DEF TypeOK, ScanEnd, history
<1>12. ASSUME NEW n \in Node, UpdateHeartbeat(n) \/ HeartbeatExpires(n) PROVE TypeOK'
  BY <1>12 DEF TypeOK, UpdateHeartbeat, HeartbeatExpires, local, history
<1>13. CASE UNCHANGED vars
  BY <1>13 DEF TypeOK, vars
<1> QED
  BY <1>1, <1>2, <1>3, <1>4, <1>5, <1>6, <1>7, <1>8, <1>9, <1>10, <1>11, <1>12, <1>13, StartCases
     DEF Next, Continue

(* Every variable keeps its type, a request that is about to write has a   *)
(* node to write, and a decrement never writes a negative load, whatever   *)
(* an administrator has set the load to before.                            *)
THEOREM TypeCorrect == Spec => []TypeOK
  BY InitType, TypeStep, PTL DEF Spec
-----------------------------------------------------------------------------
(* The bound on the load.  It is not inductive: it needs that the limits   *)
(* are bounded too, and that a load which a pending load call is about to  *)
(* write was computed below the limit of its node.                         *)
CapBelowCeiling == \A n \in Node : nodes[n].cap <= ceiling[n]

PendingBelowCeiling ==
  \A r \in Request : pc[r] = "write" /\ kind[r] # "update" =>
    /\ patch[r].set = {"status", "load"}
    /\ patch[r].load <= ceiling[target[r]]

LoadInv == LoadBelowCeiling /\ CapBelowCeiling /\ PendingBelowCeiling

LEMMA InitLoadInv == Init => LoadInv
<1> SUFFICES ASSUME Init PROVE LoadInv
  OBVIOUS
<1>1. \A n \in Node : nodes[n].load \in Int /\ nodes[n].cap \in Int
  BY InitType DEF TypeOK, Row
<1>2. \A n \in Node : nodes[n].load <= ceiling[n] /\ nodes[n].cap <= ceiling[n]
  <2>1. \A n \in Node : ceiling[n] = Larger(0, Larger(nodes[n].load, nodes[n].cap))
    BY DEF Init
  <2> QED
    BY <1>1, <2>1, CeilingBound
<1> QED
  BY <1>2 DEF Init, LoadInv, LoadBelowCeiling, CapBelowCeiling, PendingBelowCeiling

(* A step keeps the bound when the rows stay below the new ceilings, the   *)
(* ceilings do not sink, and no load call has just come to its write.      *)
LEMMA RaisedLoadInv ==
  ASSUME TypeOK, TypeOK', LoadInv,
         \A n \in Node : /\ ceiling[n] <= ceiling'[n]
                        /\ nodes'[n].load <= ceiling'[n]
                        /\ nodes'[n].cap <= ceiling'[n],
         \A r \in Request : pc'[r] = "write" /\ kind'[r] # "update" =>
            pc[r] = "write" /\ kind'[r] = kind[r] /\ patch'[r] = patch[r] /\ target'[r] = target[r]
  PROVE  LoadInv'
<1>1. LoadBelowCeiling' /\ CapBelowCeiling'
  BY DEF LoadBelowCeiling, CapBelowCeiling
<1>2. ASSUME NEW r \in Request, pc'[r] = "write", kind'[r] # "update"
      PROVE  patch'[r].set = {"status", "load"} /\ patch'[r].load <= ceiling'[target'[r]]
  <2>1. /\ patch[r].set = {"status", "load"} /\ patch[r].load <= ceiling[target[r]]
        /\ patch'[r] = patch[r] /\ target'[r] = target[r] /\ target[r] \in Node
    BY <1>2 DEF LoadInv, PendingBelowCeiling, TypeOK
  <2>2. /\ patch[r].load \in Int /\ ceiling[target[r]] \in Nat /\ ceiling'[target[r]] \in Nat
        /\ ceiling[target[r]] <= ceiling'[target[r]]
    BY <2>1 DEF TypeOK, Patch
  <2> QED
    BY <2>1, <2>2
<1> QED
  BY <1>1, <1>2 DEF LoadInv, PendingBelowCeiling

LEMMA LoadStep == TypeOK /\ TypeOK' /\ LoadInv /\ [Next]_vars => LoadInv'
<1> SUFFICES ASSUME TypeOK, TypeOK', LoadInv, [Next]_vars PROVE LoadInv'
  OBVIOUS
<1>r. \A n \in Node : /\ nodes[n] \in Row /\ nodes[n].load \in Int /\ nodes[n].cap \in Int
                     /\ ceiling[n] \in Nat /\ ceiling'[n] \in Nat
                     /\ nodes[n].load <= ceiling[n] /\ nodes[n].cap <= ceiling[n]
  BY DEF TypeOK, Row, LoadInv, LoadBelowCeiling, CapBelowCeiling
<1>w. ASSUME NEW r \in Request, NEW n \in Node, NEW k \in Kind, NEW load \in Int,
             load <= ceiling[n], AwaitWrite(r, k, n, LoadPatch(n, load))
      PROVE  LoadInv'
  <2>1. LoadPatch(n, load).set = {"status", "load"} /\ LoadPatch(n, load).load = load
    BY <1>w, LoadPatchType
  <2> QED
    BY <1>w, <2>1 DEF AwaitWrite, TypeOK, LoadInv, LoadBelowCeiling, CapBelowCeiling,
                      PendingBelowCeiling
<1>f. ASSUME NEW r \in Request, NEW k, NEW a \in {"done", "failed"}, Answer(r, k, a),
             UNCHANGED <<nodes, target, patch, ceiling>>
      PROVE  LoadInv'
  <2>1. \A q \in Request : pc'[q] = "write" => pc[q] = "write" /\ kind'[q] = kind[q]
    BY <1>f DEF TypeOK, Answer
  <2> QED
    BY <1>f, <1>r, <2>1, RaisedLoadInv
<1>1. ASSUME NEW r \in Request, NEW n \in Node, IncrementLoad(r, n) PROVE LoadInv'
  <2>1. CASE Live(n) /\ nodes[n].load + 1 <= nodes[n].cap
    <3>1. nodes[n].load + 1 \in Int /\ nodes[n].load + 1 <= ceiling[n]
      BY <1>r, <2>1
    <3>2. AwaitWrite(r, "increment", n, LoadPatch(n, nodes[n].load + 1))
      BY <1>1, <1>r, <2>1 DEF IncrementLoad
    <3>3. "increment" \in Kind
      BY DEF Kind
    <3> QED
      BY <1>w, <3>1, <3>2, <3>3
  <2>2. CASE ~(Live(n) /\ nodes[n].load + 1 <= nodes[n].cap)
    BY <1>1, <1>f, <1>r, <2>2 DEF IncrementLoad, history
  <2> QED
    BY <2>1, <2>2
<1>2. ASSUME NEW r \in Request, NEW n \in Node, DecrementLoad(r, n) PROVE LoadInv'
  <2>1. CASE Live(n)
    <3>1. Larger(0, nodes[n].load - 1) \in Int /\ Larger(0, nodes[n].load - 1) <= ceiling[n]
      BY <1>r DEF Larger
    <3> QED
      BY <1>2, <1>w, <2>1, <3>1 DEF DecrementLoad, Kind
  <2>2. CASE ~Live(n)
    BY <1>2, <1>f, <2>2 DEF DecrementLoad, history
  <2> QED
    BY <2>1, <2>2
<1>3. ASSUME NEW r \in Request, NEW n \in Node, DeleteNode(r, n) PROVE LoadInv'
  <2>1. \A m \in Node : nodes'[m].load = nodes[m].load /\ nodes'[m].cap = nodes[m].cap
    BY <1>3, <1>r DEF DeleteNode, WriteRow, TypeOK, Row
  <2>2. \A q \in Request : pc'[q] = "write" => pc[q] = "write" /\ kind'[q] = kind[q]
    BY <1>3 DEF DeleteNode, Answer, TypeOK
  <2> QED
    BY <1>3, <1>r, <2>1, <2>2, RaisedLoadInv DEF DeleteNode
<1>4. ASSUME NEW r \in Request, NEW n \in Node, NEW p \in Body, UpdateById(r, n, p)
      PROVE LoadInv'
  <2>1. \A q \in Request : pc'[q] = "write" /\ kind'[q] # "update" =>
          pc[q] = "write" /\ kind'[q] = kind[q] /\ patch'[q] = patch[q] /\ target'[q] = target[q]
    BY <1>4 DEF UpdateById, AwaitWrite, Answer, TypeOK
  <2>2. UNCHANGED <<nodes, ceiling>>
    BY <1>4 DEF UpdateById, AwaitWrite, history
  <2> QED
    BY <1>r, <2>1, <2>2, RaisedLoadInv
<1>5. ASSUME NEW r \in Request, NEW n \in Node, NEW p \in Body, UpdateNodeStatus(r, n, p)
      PROVE LoadInv'
  <2>1. CASE Live(n)
    <3>0. p \in Patch /\ Largest(p) \in Int
      BY BodyAssumption, LargestBound
    <3>1. /\ nodes' = [nodes EXCEPT ![n] = Patched(nodes[n], p)]
          /\ Raise(n, Largest(p)) /\ Answer(r, "command", "done")
          /\ UNCHANGED <<target, patch>>
      BY <1>5, <2>1 DEF UpdateNodeStatus, WriteRow
    <3>2. \A q \in Request : pc'[q] = "write" => pc[q] = "write" /\ kind'[q] = kind[q]
      BY <3>1 DEF Answer, TypeOK
    <3>3. Largest(p) <= ceiling'[n] /\ \A m \in Node : ceiling[m] <= ceiling'[m]
      BY <3>0, <3>1, RaiseType
    <3>4. /\ Patched(nodes[n], p).load <= ceiling'[n]
          /\ Patched(nodes[n], p).cap <= ceiling'[n]
      BY <1>r, <3>0, <3>3, PatchedRow, LargestBound DEF Patch
    <3>5. \A m \in Node : nodes'[m].load <= ceiling'[m] /\ nodes'[m].cap <= ceiling'[m]
      BY <1>r, <3>1, <3>3, <3>4 DEF TypeOK
    <3> QED
      BY <3>1, <3>2, <3>3, <3>5, RaisedLoadInv
  <2>2. CASE ~Live(n)
    BY <1>5, <1>f, <2>2 DEF UpdateNodeStatus, history
  <2> QED
    BY <2>1, <2>2
<1>6. ASSUME NEW r \in Request, NEW n \in Node, NEW row \in NewRow, CreateNode(r, n, row)
      PROVE LoadInv'
  <2>0. row.load \in Int /\ row.cap \in Int
    BY NewRowAssumption DEF Row
  <2>1. /\ nodes' = [nodes EXCEPT ![n] = row] /\ Raise(n, Larger(row.load, row.cap))
        /\ Answer(r, "command", "done") /\ UNCHANGED <<target, patch>>
    BY <1>6 DEF CreateNode, WriteRow
  <2>2. \A q \in Request : pc'[q] = "write" => pc[q] = "write" /\ kind'[q] = kind[q]
    BY <2>1 DEF Answer, TypeOK
  <2>3. /\ Larger(row.load, row.cap) \in Int
        /\ row.load <= Larger(row.load, row.cap) /\ row.cap <= Larger(row.load, row.cap)
    BY <2>0, LargerBound
  <2>4. /\ Larger(row.load, row.cap) <= ceiling'[n]
        /\ \A m \in Node : ceiling[m] <= ceiling'[m]
    BY <2>1, <2>3, RaiseType
  <2>5. \A m \in Node : nodes'[m].load <= ceiling'[m] /\ nodes'[m].cap <= ceiling'[m]
    BY <1>r, <2>0, <2>1, <2>3, <2>4 DEF TypeOK
  <2> QED
    BY <2>1, <2>2, <2>4, <2>5, RaisedLoadInv
<1>7. ASSUME NEW r \in Request, CheckAndUpdateOfflineNodes(r) PROVE LoadInv'
  <2>1. \A q \in Request : pc'[q] = "write" => pc[q] = "write" /\ kind'[q] = kind[q]
    BY <1>7 DEF CheckAndUpdateOfflineNodes, TypeOK
  <2> QED
    BY <1>7, <1>r, <2>1, RaisedLoadInv DEF CheckAndUpdateOfflineNodes, history
<1>8. ASSUME NEW r \in Request, WritePatch(r) PROVE LoadInv'
  <2>1. target[r] \in Node /\ patch[r] \in Patch /\ pc[r] = "write"
    BY <1>8 DEF TypeOK, WritePatch
  <2>2. \A q \in Request : pc'[q] = "write" =>
          /\ pc[q] = "write" /\ kind'[q] = kind[q]
          /\ patch'[q] = patch[q] /\ target'[q] = target[q]
    BY <1>8 DEF WritePatch, TypeOK
  <2>3. CASE Live(target[r])
    <3>1. nodes' = [nodes EXCEPT ![target[r]] = Patched(nodes[target[r]], patch[r])]
      BY <1>8, <2>3 DEF WritePatch, WriteRow
    <3>2. /\ \A m \in Node : ceiling[m] <= ceiling'[m]
          /\ Patched(nodes[target[r]], patch[r]).load <= ceiling'[target[r]]
          /\ Patched(nodes[target[r]], patch[r]).cap <= ceiling'[target[r]]
      <4>1. CASE kind[r] = "update"
        <5>1. Raise(target[r], Largest(patch[r])) /\ Largest(patch[r]) \in Int
          BY <1>8, <2>1, <2>3, <4>1, LargestBound DEF WritePatch
        <5>2. /\ Largest(patch[r]) <= ceiling'[target[r]]
              /\ \A m \in Node : ceiling[m] <= ceiling'[m]
          BY <2>1, <5>1, RaiseType
        <5> QED
          BY <1>r, <2>1, <5>1, <5>2, PatchedRow, LargestBound DEF Patch
      <4>2. CASE kind[r] # "update"
        <5>1. UNCHANGED ceiling
          BY <1>8, <2>3, <4>2 DEF WritePatch
        <5>2. patch[r].set = {"status", "load"} /\ patch[r].load <= ceiling[target[r]]
          BY <2>1, <4>2 DEF LoadInv, PendingBelowCeiling
        <5> QED
          BY <1>r, <2>1, <5>1, <5>2, PatchedRow
      <4> QED
        BY <4>1, <4>2
    <3>3. \A m \in Node : nodes'[m].load <= ceiling'[m] /\ nodes'[m].cap <= ceiling'[m]
      BY <1>r, <2>1, <3>1, <3>2 DEF TypeOK
    <3> QED
      BY <2>2, <3>2, <3>3, RaisedLoadInv
  <2>4. CASE ~Live(target[r])
    BY <1>8, <1>r, <2>2, <2>4, RaisedLoadInv DEF WritePatch, history
  <2> QED
    BY <2>3, <2>4
<1>9. ASSUME NEW r \in Request, ScanCheck(r) PROVE LoadInv'
  <2>1. PICK n \in todo[r] : ScanCheck(r)!2!(n)
    BY <1>9 DEF ScanCheck
  <2>2. \A q \in Request : pc'[q] = "write" =>
          pc[q] = "write" /\ kind'[q] = kind[q] /\ target'[q] = target[q]
    BY <1>9, <2>1 DEF ScanCheck, TypeOK
  <2>3. UNCHANGED <<nodes, patch, ceiling>>
    BY <1>9 DEF ScanCheck
  <2>4. \A m \in Node : /\ ceiling[m] <= ceiling'[m]
                       /\ nodes'[m].load <= ceiling'[m]
                       /\ nodes'[m].cap <= ceiling'[m]
    BY <1>r, <2>3
  <2>5. \A q \in Request : pc'[q] = "write" /\ kind'[q] # "update" =>
          pc[q] = "write" /\ kind'[q] = kind[q] /\ patch'[q] = patch[q] /\ target'[q] = target[q]
    BY <2>2, <2>3
  <2> QED
    BY <2>4, <2>5, RaisedLoadInv
<1>10. ASSUME NEW r \in Request, ScanSetOffline(r) PROVE LoadInv'
  <2>1. target[r] \in Node
    BY <1>10 DEF TypeOK, ScanSetOffline
  <2>2. \A m \in Node : nodes'[m].load = nodes[m].load /\ nodes'[m].cap = nodes[m].cap
    <3>1. /\ Patched(nodes[target[r]], SetOffline).load = nodes[target[r]].load
          /\ Patched(nodes[target[r]], SetOffline).cap = nodes[target[r]].cap
      <4>1. "load" \notin SetOffline.set /\ "cap" \notin SetOffline.set
        BY ConstantRows
      <4> QED
        BY <1>r, <2>1, <4>1, PatchedRow, ConstantRows
    <3>2. \/ UNCHANGED nodes
          \/ nodes' = [nodes EXCEPT ![target[r]] = Patched(nodes[target[r]], SetOffline)]
      BY <1>10 DEF ScanSetOffline, WriteRow
    <3> QED
      BY <2>1, <3>1, <3>2 DEF TypeOK
  <2>3. \A q \in Request : pc'[q] = "write" =>
          pc[q] = "write" /\ kind'[q] = kind[q] /\ target'[q] = target[q]
    BY <1>10 DEF ScanSetOffline, TypeOK
  <2> QED
    BY <1>10, <1>r, <2>2, <2>3, RaisedLoadInv DEF ScanSetOffline, history
<1>11. ASSUME NEW r \in Request, ScanEnd(r) PROVE LoadInv'
  <2>1. \A q \in Request : pc'[q] = "write" => pc[q] = "write"
    BY <1>11 DEF ScanEnd, TypeOK
  <2> QED
    BY <1>11, <1>r, <2>1, RaisedLoadInv DEF ScanEnd, history
<1>12. ASSUME NEW n \in Node, UpdateHeartbeat(n) \/ HeartbeatExpires(n) PROVE LoadInv'
  BY <1>12, <1>r, RaisedLoadInv DEF UpdateHeartbeat, HeartbeatExpires, local, history
<1>13. CASE UNCHANGED vars
  BY <1>13, <1>r, RaisedLoadInv DEF vars
<1> QED
  BY <1>1, <1>2, <1>3, <1>4, <1>5, <1>6, <1>7, <1>8, <1>9, <1>10, <1>11, <1>12, <1>13, StartCases
     DEF Next, Continue

(* However requests interleave, the load of a node never exceeds every     *)
(* limit and every load that was ever configured for it by hand, unless it *)
(* is zero.                                                                *)
THEOREM LoadBounded == Spec => []LoadBelowCeiling
<1>1. Init => TypeOK /\ LoadInv
  BY InitType, InitLoadInv
<1>2. TypeOK /\ LoadInv /\ [Next]_vars => (TypeOK /\ LoadInv)'
  BY TypeStep, LoadStep
<1>3. LoadInv => LoadBelowCeiling
  BY DEF LoadInv
<1> QED
  BY <1>1, <1>2, <1>3, PTL DEF Spec
-----------------------------------------------------------------------------
(* A load call that is about to write, and whose node nobody else has      *)
(* written since it was read, still has the row in front of it that its    *)
(* patch was computed from.                                                *)
PatchIsCurrent(q) ==
  pc[q] = "write" /\ kind[q] \in {"increment", "decrement"} /\ ~dirty[q] =>
    /\ patch[q] = LoadPatch(target[q], Moved(kind[q], nodes[target[q]]).load)
    /\ kind[q] = "increment" => nodes[target[q]].load + 1 <= nodes[target[q]].cap

AtomicInv == \A q \in Request : PatchIsCurrent(q)

(* Request q is as much about to write as it was, and nothing new. *)
StillWriting(q) ==
  pc'[q] = "write" =>
    pc[q] = "write" /\ kind'[q] = kind[q] /\ target'[q] = target[q] /\ patch'[q] = patch[q]

LEMMA MovedLoad ==
  ASSUME NEW k, NEW row \in Row
  PROVE  Moved(k, row).load = IF k = "increment" THEN row.load + 1 ELSE Larger(0, row.load - 1)
  BY DEF Moved, Row

LEMMA QuietAtomic ==
  ASSUME TypeOK, AtomicInv, UNCHANGED <<nodes, dirty>>, \A q \in Request : StillWriting(q)
  PROVE  AtomicInv'
  BY DEF AtomicInv, PatchIsCurrent, StillWriting, LoadPatch, Moved

LEMMA WriteAtomic ==
  ASSUME TypeOK, AtomicInv, NEW r \in Request, NEW n \in Node, NEW row \in Row, NEW set,
         WriteRow(r, n, row, set), pc'[r] # "write", \A q \in Request : StillWriting(q)
  PROVE  AtomicInv'
<1> SUFFICES ASSUME NEW q \in Request, pc'[q] = "write", ~dirty'[q]
             PROVE  PatchIsCurrent(q)'
  BY DEF AtomicInv, PatchIsCurrent
<1>1. q # r /\ StillWriting(q)
  OBVIOUS
<1>2. ~dirty[q] /\ target[q] # n
  BY <1>1 DEF WriteRow, StillWriting
<1>3. nodes'[target[q]] = nodes[target[q]]
  BY <1>2 DEF WriteRow, TypeOK
<1>4. pc[q] = "write" /\ kind'[q] = kind[q] /\ target'[q] = target[q] /\ patch'[q] = patch[q]
  BY <1>1 DEF StillWriting
<1>5. LoadPatch(target[q], Moved(kind[q], nodes[target[q]]).load)'
        = LoadPatch(target[q], Moved(kind[q], nodes[target[q]]).load)
  BY <1>3, <1>4 DEF LoadPatch, Moved
<1>6. PatchIsCurrent(q)
  BY DEF AtomicInv
<1> QED
  BY <1>2, <1>3, <1>4, <1>5, <1>6 DEF PatchIsCurrent

LEMMA AwaitAtomic ==
  ASSUME TypeOK, AtomicInv, NEW r \in Request, NEW n \in Node, NEW k \in {"increment", "decrement"},
         AwaitWrite(r, k, n, LoadPatch(n, Moved(k, nodes[n]).load)),
         k = "increment" => nodes[n].load + 1 <= nodes[n].cap
  PROVE  AtomicInv'
<1>1. PatchIsCurrent(r)'
  BY DEF AwaitWrite, TypeOK, PatchIsCurrent, LoadPatch, Moved
<1>2. ASSUME NEW q \in Request, q # r PROVE PatchIsCurrent(q)'
  BY <1>2 DEF AwaitWrite, TypeOK, AtomicInv, PatchIsCurrent, LoadPatch, Moved
<1> QED
  BY <1>1, <1>2 DEF AtomicInv

LEMMA AtomicStep == TypeOK /\ AtomicInv /\ [Next]_vars => AtomicInv'
<1> SUFFICES ASSUME TypeOK, AtomicInv, [Next]_vars PROVE AtomicInv'
  OBVIOUS
<1>r. \A n \in Node : nodes[n] \in Row
  BY DEF TypeOK
<1>1. ASSUME NEW r \in Request, NEW n \in Node, IncrementLoad(r, n) PROVE AtomicInv'
  <2>1. CASE Live(n) /\ nodes[n].load + 1 <= nodes[n].cap
    <3>1. AwaitWrite(r, "increment", n, LoadPatch(n, Moved("increment", nodes[n]).load))
      BY <1>1, <1>r, <2>1, MovedLoad DEF IncrementLoad, Row
    <3> QED
      BY <2>1, <3>1, AwaitAtomic
  <2>2. CASE ~(Live(n) /\ nodes[n].load + 1 <= nodes[n].cap)
    BY <1>1, <1>r, <2>2, QuietAtomic DEF IncrementLoad, Answer, history, StillWriting, TypeOK, Row
  <2> QED
    BY <2>1, <2>2
<1>2. ASSUME NEW r \in Request, NEW n \in Node, DecrementLoad(r, n) PROVE AtomicInv'
  <2>1. CASE Live(n)
    <3>1. AwaitWrite(r, "decrement", n, LoadPatch(n, Moved("decrement", nodes[n]).load))
      BY <1>2, <1>r, <2>1, MovedLoad DEF DecrementLoad
    <3> QED
      BY <3>1, AwaitAtomic
  <2>2. CASE ~Live(n)
    BY <1>2, <2>2, QuietAtomic DEF DecrementLoad, Answer, history, StillWriting, TypeOK
  <2> QED
    BY <2>1, <2>2
<1>3. ASSUME NEW r \in Request, NEW n \in Node, DeleteNode(r, n) PROVE AtomicInv'
  <2>1. [nodes[n] EXCEPT !.life = "deleted"] \in Row
    BY <1>r DEF Row
  <2>2. pc'[r] # "write" /\ \A q \in Request : StillWriting(q)
    BY <1>3 DEF DeleteNode, Answer, StillWriting, TypeOK
  <2> QED
    BY <1>3, <2>1, <2>2, WriteAtomic DEF DeleteNode
<1>4. ASSUME NEW r \in Request, NEW n \in Node, NEW p \in Body, UpdateById(r, n, p)
      PROVE  AtomicInv'
  <2>1. UNCHANGED <<nodes, dirty>>
    BY <1>4 DEF UpdateById, AwaitWrite, history
  <2>2. \A q \in Request : StillWriting(q) \/ kind'[q] = "update"
    BY <1>4 DEF UpdateById, AwaitWrite, Answer, StillWriting, TypeOK
  <2> QED
    BY <2>1, <2>2 DEF AtomicInv, PatchIsCurrent, StillWriting, LoadPatch, Moved
<1>5. ASSUME NEW r \in Request, NEW n \in Node, NEW p \in Body, UpdateNodeStatus(r, n, p)
      PROVE  AtomicInv'
  <2>1. pc'[r] # "write" /\ \A q \in Request : StillWriting(q)
    BY <1>5 DEF UpdateNodeStatus, Answer, StillWriting, TypeOK
  <2>2. CASE Live(n)
    <3>1. Patched(nodes[n], p) \in Row
      BY <1>r, BodyAssumption, PatchedRow
    <3> QED
      BY <1>5, <2>1, <2>2, <3>1, WriteAtomic DEF UpdateNodeStatus
  <2>3. CASE ~Live(n)
    BY <1>5, <2>1, <2>3, QuietAtomic DEF UpdateNodeStatus, history
  <2> QED
    BY <2>2, <2>3
<1>6. ASSUME NEW r \in Request, NEW n \in Node, NEW row \in NewRow, CreateNode(r, n, row)
      PROVE  AtomicInv'
  <2>1. pc'[r] # "write" /\ \A q \in Request : StillWriting(q)
    BY <1>6 DEF CreateNode, Answer, StillWriting, TypeOK
  <2>2. row \in Row
    BY NewRowAssumption
  <2> QED
    BY <1>6, <2>1, <2>2, WriteAtomic DEF CreateNode
<1>7. ASSUME NEW r \in Request, CheckAndUpdateOfflineNodes(r) PROVE AtomicInv'
  BY <1>7, QuietAtomic DEF CheckAndUpdateOfflineNodes, history, StillWriting, TypeOK
<1>8. ASSUME NEW r \in Request, WritePatch(r) PROVE AtomicInv'
  <2>1. target[r] \in Node /\ patch[r] \in Patch
    BY <1>8 DEF TypeOK, WritePatch
  <2>2. pc'[r] # "write" /\ \A q \in Request : StillWriting(q)
    BY <1>8 DEF WritePatch, StillWriting, TypeOK
  <2>3. CASE Live(target[r])
    BY <1>8, <1>r, <2>1, <2>2, <2>3, WriteAtomic, PatchedRow DEF WritePatch
  <2>4. CASE ~Live(target[r])
    BY <1>8, <2>2, <2>4, QuietAtomic DEF WritePatch, history
  <2> QED
    BY <2>3, <2>4
<1>9. ASSUME NEW r \in Request, ScanCheck(r) \/ ScanEnd(r) PROVE AtomicInv'
  <2>1. UNCHANGED <<nodes, dirty>>
    BY <1>9 DEF ScanCheck, ScanEnd, history
  <2>2. \A q \in Request : StillWriting(q)
    BY <1>9 DEF ScanCheck, ScanEnd, StillWriting, TypeOK
  <2> QED
    BY <2>1, <2>2, QuietAtomic
<1>10. ASSUME NEW r \in Request, ScanSetOffline(r) PROVE AtomicInv'
  <2>1. target[r] \in Node
    BY <1>10 DEF TypeOK, ScanSetOffline
  <2>2. pc'[r] # "write" /\ \A q \in Request : StillWriting(q)
    BY <1>10 DEF ScanSetOffline, StillWriting, TypeOK
  <2>3. CASE Live(target[r])
    BY <1>10, <1>r, <2>1, <2>2, <2>3, WriteAtomic, PatchedRow, ConstantRows DEF ScanSetOffline
  <2>4. CASE ~Live(target[r])
    BY <1>10, <2>2, <2>4, QuietAtomic DEF ScanSetOffline, history
  <2> QED
    BY <2>3, <2>4
<1>11. ASSUME NEW n \in Node, UpdateHeartbeat(n) \/ HeartbeatExpires(n) PROVE AtomicInv'
  BY <1>11, QuietAtomic DEF UpdateHeartbeat, HeartbeatExpires, local, history, StillWriting
<1>12. CASE UNCHANGED vars
  BY <1>12, QuietAtomic DEF vars, StillWriting
<1> QED
  BY <1>1, <1>2, <1>3, <1>4, <1>5, <1>6, <1>7, <1>8, <1>9, <1>10, <1>11, <1>12, StartCases
     DEF Next, Continue

(* The patch that a load call writes is what Moved does to its node. *)
LEMMA LoadCallActs ==
  ASSUME TypeOK, AtomicInv, NEW r \in Request, LoadCall(r), ~dirty[r]
  PROVE  ActsAtomically(r)
<1> DEFINE n == target[r]
<1>1. /\ n \in Node /\ nodes[n] \in Row /\ patch[r] \in Patch
      /\ kind[r] \in {"increment", "decrement"} /\ PatchIsCurrent(r) /\ pc[r] = "write"
  BY DEF LoadCall, WritePatch, TypeOK, AtomicInv
<1>2. nodes' = [nodes EXCEPT ![n] = Patched(nodes[n], patch[r])]
  BY DEF LoadCall, WritePatch, WriteRow
<1>3. patch[r] = LoadPatch(n, Moved(kind[r], nodes[n]).load)
  BY <1>1 DEF PatchIsCurrent
<1>4. /\ patch[r].set = {"status", "load"} /\ patch[r].status = nodes[n].status
      /\ patch[r].load = Moved(kind[r], nodes[n]).load
  BY <1>3 DEF LoadPatch, NoPatch
<1>5. Patched(nodes[n], patch[r]) = Moved(kind[r], nodes[n])
  BY <1>1, <1>4 DEF Patched, Moved, Row
<1>6. kind[r] = "increment" => nodes'[n].load <= nodes[n].cap
  BY <1>1, <1>2, <1>5, MovedLoad DEF PatchIsCurrent, TypeOK
<1> QED
  BY <1>2, <1>5, <1>6 DEF ActsAtomically

(* A load call that nobody disturbs between its read and its write moves   *)
(* the load by one, within the limit (a decrement takes a negative load to *)
(* zero), and changes nothing else.                                        *)
THEOREM UncontendedCallsAreAtomic == Spec => UncontendedLoadCallIsAtomic
<1>1. Init => AtomicInv
  BY DEF Init, AtomicInv, PatchIsCurrent
<1>2. TypeOK /\ AtomicInv =>
        [\A r \in Request : LoadCall(r) /\ ~dirty[r] => ActsAtomically(r)]_vars
  BY LoadCallActs
<1> QED
  BY <1>1, <1>2, InitType, TypeStep, AtomicStep, PTL DEF Spec, UncontendedLoadCallIsAtomic
-----------------------------------------------------------------------------
(* Health check q answers for node n: n is not online, or it is still to   *)
(* be looked at or to be written, or it is excused.                        *)
Answers(q, n) ==
  Live(n) /\ nodes[n].status = "online" =>
    n \in todo[q] \cup excused[q] \/ (pc[q] = "offline" /\ target[q] = n)

Sweeps(q) == kind[q] = "scan" /\ pc[q] # "failed" => \A n \in Node : Answers(q, n)

(* No health check stands before the write of a load call or of an update. *)
SweepInv ==
  /\ \A q \in Request : Sweeps(q)
  /\ \A q \in Request : pc[q] = "write" => kind[q] # "scan"

LEMMA SweepInvImplies == SweepInv => ScanSweeps
BY DEF SweepInv, Sweeps, Answers, ScanSweeps

(* Request q is no health check, or one that has not moved. *)
Aside(q) ==
  kind'[q] # "scan" \/ UNCHANGED <<kind[q], pc[q], todo[q], target[q]>>

LEMMA QuietSweep ==
  ASSUME SweepInv, UNCHANGED <<nodes, excused>>, \A q \in Request : Aside(q),
         \A q \in Request : pc'[q] = "write" => kind'[q] # "scan"
  PROVE  SweepInv'
  BY DEF SweepInv, Sweeps, Answers, Aside, Live

(* A write sets no node online without excusing it.  Its writer is no      *)
(* health check, or one that has set a node offline.                       *)
LEMMA WriteSweep ==
  ASSUME TypeOK, SweepInv, NEW r \in Request, NEW n \in Node, NEW row \in Row, NEW set,
         WriteRow(r, n, row, set),
         \A q \in Request \ {r} : Aside(q),
         \A q \in Request : pc'[q] = "write" => kind'[q] # "scan",
         \/ row.life # "live" \/ row.status # "online"
         \/ "status" \in set
         \/ nodes[n].life = "live" /\ nodes[n].status = "online",
         \/ kind'[r] # "scan"
         \/ /\ kind[r] = "scan" /\ pc[r] = "offline" /\ target[r] = n
            /\ row.status # "online" /\ todo'[r] = todo[r]
  PROVE  SweepInv'
<1>1. /\ nodes'[n] = row
      /\ \A m \in Node \ {n} : nodes'[m] = nodes[m]
  BY DEF WriteRow, TypeOK
<1>2. \A q \in Request : excused[q] \subseteq excused'[q]
  BY DEF WriteRow, TypeOK
<1>3. ASSUME NEW q \in Request, q # r, kind'[q] = "scan", pc'[q] # "failed",
             NEW m \in Node
      PROVE  Answers(q, m)'
  <2>1. Answers(q, m) /\ UNCHANGED <<kind[q], pc[q], todo[q], target[q]>>
    BY <1>3 DEF Aside, SweepInv, Sweeps
  <2>2. CASE m # n
    BY <1>1, <1>2, <2>1, <2>2 DEF Answers, Live
  <2>3. CASE m = n /\ row.life = "live" /\ row.status = "online" /\ "status" \in set
    <3>1. n \in excused'[q]
      BY <1>3, <2>1, <2>3 DEF WriteRow
    <3> QED
      BY <2>3, <3>1 DEF Answers
  <2>4. CASE m = n /\ (row.life # "live" \/ row.status # "online")
    BY <1>1, <2>4 DEF Answers, Live
  <2>5. CASE m = n /\ nodes[n].life = "live" /\ nodes[n].status = "online"
    BY <1>2, <2>1, <2>5 DEF Answers, Live
  <2> QED
    BY <2>2, <2>3, <2>4, <2>5
<1>4. ASSUME kind'[r] = "scan", pc'[r] # "failed", NEW m \in Node PROVE Answers(r, m)'
  <2>1. Answers(r, m)
    BY <1>4 DEF SweepInv, Sweeps
  <2>2. CASE m = n
    BY <1>1, <1>4, <2>2 DEF Answers, Live
  <2>3. CASE m # n
    BY <1>1, <1>2, <1>4, <2>1, <2>3 DEF Answers, Live
  <2> QED
    BY <2>2, <2>3
<1> QED
  BY <1>3, <1>4 DEF SweepInv, Sweeps

LEMMA AwaitSweep ==
  ASSUME TypeOK, SweepInv, NEW r \in Request, NEW n \in Node, NEW k \in Kind \ {"scan"}, NEW p,
         AwaitWrite(r, k, n, p)
  PROVE  SweepInv'
<1>1. \A q \in Request : Aside(q)
  BY DEF AwaitWrite, Aside, TypeOK
<1>2. \A q \in Request : pc'[q] = "write" => kind'[q] # "scan"
  BY DEF AwaitWrite, SweepInv, TypeOK
<1> QED
  BY <1>1, <1>2, QuietSweep DEF AwaitWrite

(* A request that is answered at once. *)
LEMMA AnswerSweep ==
  ASSUME TypeOK, SweepInv, NEW r \in Request, NEW k \in Kind \ {"scan"},
         NEW a \in {"done", "failed"}, Answer(r, k, a), UNCHANGED <<target, todo>>
  PROVE  /\ \A q \in Request : Aside(q)
         /\ \A q \in Request : pc'[q] = "write" => kind'[q] # "scan"
         /\ kind'[r] # "scan"
  BY DEF Answer, Aside, SweepInv, TypeOK

LEMMA SweepStep == TypeOK /\ SweepInv /\ [Next]_vars => SweepInv'
<1> SUFFICES ASSUME TypeOK, SweepInv, [Next]_vars PROVE SweepInv'
  OBVIOUS
<1>r. \A n \in Node : nodes[n] \in Row
  BY DEF TypeOK
<1>k. {"increment", "decrement", "update", "command"} \subseteq Kind \ {"scan"}
  BY DEF Kind
<1>1. ASSUME NEW r \in Request, NEW n \in Node, IncrementLoad(r, n) PROVE SweepInv'
  BY <1>1, <1>k, AwaitSweep, AnswerSweep, QuietSweep DEF IncrementLoad, history
<1>2. ASSUME NEW r \in Request, NEW n \in Node, DecrementLoad(r, n) PROVE SweepInv'
  BY <1>2, <1>k, AwaitSweep, AnswerSweep, QuietSweep DEF DecrementLoad, history
<1>3. ASSUME NEW r \in Request, NEW n \in Node, DeleteNode(r, n) PROVE SweepInv'
  <2>1. [nodes[n] EXCEPT !.life = "deleted"] \in Row
        /\ [nodes[n] EXCEPT !.life = "deleted"].life # "live"
    BY <1>r DEF Row
  <2> QED
    BY <1>3, <1>k, <2>1, AnswerSweep, WriteSweep DEF DeleteNode
<1>4. ASSUME NEW r \in Request, NEW n \in Node, NEW p \in Body, UpdateById(r, n, p)
      PROVE  SweepInv'
  BY <1>4, <1>k, AwaitSweep, AnswerSweep, QuietSweep DEF UpdateById, history
<1>p. ASSUME NEW n \in Node, NEW p \in Patch, Live(n)
      PROVE  /\ Patched(nodes[n], p) \in Row
             /\ \/ Patched(nodes[n], p).status # "online"
                \/ "status" \in p.set
                \/ nodes[n].life = "live" /\ nodes[n].status = "online"
  BY <1>p, <1>r, PatchedRow DEF Live
<1>5. ASSUME NEW r \in Request, NEW n \in Node, NEW p \in Body, UpdateNodeStatus(r, n, p)
      PROVE  SweepInv'
  <2>1. CASE Live(n)
    BY <1>5, <1>k, <1>p, <2>1, AnswerSweep, WriteSweep, BodyAssumption DEF UpdateNodeStatus
  <2>2. CASE ~Live(n)
    BY <1>5, <1>k, <2>2, AnswerSweep, QuietSweep DEF UpdateNodeStatus, history
  <2> QED
    BY <2>1, <2>2
<1>6. ASSUME NEW r \in Request, NEW n \in Node, NEW row \in NewRow, CreateNode(r, n, row)
      PROVE  SweepInv'
  <2>1. row \in Row /\ "status" \in Column
    BY NewRowAssumption DEF Column
  <2> QED
    BY <1>6, <1>k, <2>1, AnswerSweep, WriteSweep DEF CreateNode
<1>7. ASSUME NEW r \in Request, CheckAndUpdateOfflineNodes(r) PROVE SweepInv'
  <2>1. \A q \in Request \ {r} : UNCHANGED <<kind[q], pc[q], todo[q], target[q]>>
    BY <1>7 DEF CheckAndUpdateOfflineNodes, TypeOK
  <2>2. Sweeps(r)' /\ pc'[r] # "write"
    BY <1>7 DEF CheckAndUpdateOfflineNodes, TypeOK, Sweeps, Answers, Live
  <2>3. UNCHANGED <<nodes, excused>>
    BY <1>7 DEF CheckAndUpdateOfflineNodes, history
  <2> QED
    BY <2>1, <2>2, <2>3 DEF SweepInv, Sweeps, Answers, Live
<1>8. ASSUME NEW r \in Request, WritePatch(r) PROVE SweepInv'
  <2>1. target[r] \in Node /\ patch[r] \in Patch /\ kind[r] # "scan" /\ UNCHANGED <<kind, todo>>
    BY <1>8 DEF TypeOK, WritePatch, SweepInv
  <2>2. \A q \in Request : Aside(q)
    BY <1>8, <2>1 DEF WritePatch, Aside, TypeOK
  <2>3. \A q \in Request : pc'[q] = "write" => kind'[q] # "scan"
    BY <1>8, <2>1 DEF WritePatch, TypeOK, SweepInv
  <2>4. CASE Live(target[r])
    BY <1>8, <1>p, <2>1, <2>2, <2>3, <2>4, WriteSweep DEF WritePatch
  <2>5. CASE ~Live(target[r])
    BY <1>8, <2>2, <2>3, <2>5, QuietSweep DEF WritePatch, history
  <2> QED
    BY <2>4, <2>5
<1>9. ASSUME NEW r \in Request, ScanCheck(r) PROVE SweepInv'
  <2>1. PICK n \in todo[r] : ScanCheck(r)!2!(n)
    BY <1>9 DEF ScanCheck
  <2>2. /\ n \in Node /\ pc[r] = "scan" /\ UNCHANGED <<nodes, kind>>
        /\ todo'[r] = todo[r] \ {n}
        /\ excused'[r] = IF fresh[n] THEN excused[r] \cup {n} ELSE excused[r]
        /\ pc'[r] # "write" /\ pc[r] # "offline"
    BY <1>9, <2>1 DEF ScanCheck, TypeOK
  <2>3. ~IsNodeOnline(n) => pc'[r] = "offline" /\ target'[r] = n
    BY <2>1 DEF TypeOK
  <2>4. \A q \in Request \ {r} :
          UNCHANGED <<kind[q], pc[q], todo[q], target[q], excused[q]>>
    BY <1>9, <2>1 DEF ScanCheck, TypeOK
  <2>5. Sweeps(r)'
    <3>1. ASSUME kind[r] = "scan", NEW m \in Node PROVE Answers(r, m)'
      <4>1. Answers(r, m)
        BY <2>2, <3>1 DEF SweepInv, Sweeps
      <4>2. CASE m # n
        BY <2>2, <4>1, <4>2 DEF Answers, Live
      <4>3. CASE m = n /\ fresh[n]
        BY <2>2, <4>3 DEF Answers
      <4>4. CASE m = n /\ ~fresh[n]
        BY <2>3, <4>4 DEF Answers, IsNodeOnline
      <4> QED
        BY <4>2, <4>3, <4>4
    <3> QED
      BY <2>2, <3>1 DEF Sweeps
  <2> QED
    BY <2>2, <2>4, <2>5 DEF SweepInv, Sweeps, Answers, Live
<1>10. ASSUME NEW r \in Request, ScanSetOffline(r) PROVE SweepInv'
  <2>1. target[r] \in Node /\ pc[r] = "offline" /\ UNCHANGED <<kind, todo>> /\ pc'[r] # "write"
    BY <1>10 DEF TypeOK, ScanSetOffline
  <2>2. \A q \in Request \ {r} : Aside(q)
    BY <1>10 DEF ScanSetOffline, Aside, TypeOK
  <2>3. \A q \in Request : pc'[q] = "write" => kind'[q] # "scan"
    BY <1>10 DEF ScanSetOffline, TypeOK, SweepInv
  <2>4. CASE Live(target[r])
    <3>1. /\ Patched(nodes[target[r]], SetOffline) \in Row
          /\ Patched(nodes[target[r]], SetOffline).status # "online"
      BY <1>r, <2>1, PatchedRow, ConstantRows
    <3> QED
      BY <1>10, <2>1, <2>2, <2>3, <2>4, <3>1, WriteSweep DEF ScanSetOffline
  <2>5. CASE ~Live(target[r])
    <3>1. UNCHANGED <<nodes, excused>> /\ pc'[r] = "failed"
      BY <1>10, <2>1, <2>5 DEF ScanSetOffline, history, TypeOK
    <3> QED
      BY <2>2, <2>3, <3>1 DEF SweepInv, Sweeps, Answers, Aside, Live
  <2> QED
    BY <2>4, <2>5
<1>11. ASSUME NEW r \in Request, ScanEnd(r) PROVE SweepInv'
  BY <1>11 DEF ScanEnd, history, TypeOK, SweepInv, Sweeps, Answers, Live
<1>12. CASE UNCHANGED <<nodes, pc, kind, target, todo, excused>>
  BY <1>12, QuietSweep DEF Aside, SweepInv
<1> QED
  BY <1>1, <1>2, <1>3, <1>4, <1>5, <1>6, <1>7, <1>8, <1>9, <1>10, <1>11, <1>12, StartCases
     DEF Next, Continue, UpdateHeartbeat, HeartbeatExpires, local, history, vars

(* A health check leaves no node online that it has dealt with, unless it  *)
(* found the node fresh or somebody has set it online since.               *)
THEOREM ScansSweep == Spec => []ScanSweeps
<1>1. Init => SweepInv
  BY DEF Init, SweepInv, Sweeps
<1> QED
  BY <1>1, InitType, TypeStep, SweepStep, SweepInvImplies, PTL DEF Spec
=============================================================================
