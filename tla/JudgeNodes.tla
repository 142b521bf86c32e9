------------------------------ MODULE JudgeNodes ------------------------------
(***************************************************************************)
(* The table of judge nodes and the requests that read and write it        *)
(* (modules/judge-nodes).  Node.js runs one handler at a time, but every   *)
(* `await` of a database call lets other handlers (and other instances of  *)
(* the server) run: a request is therefore one action per database         *)
(* statement that it waits for.  A request identifier serves one request.  *)
(*                                                                         *)
(* increment/decrement, updateById and the health check read a row, wait,  *)
(* and write what they computed from it; all other commands are a single   *)
(* UPDATE, INSERT or DELETE.                                               *)
(***************************************************************************)
EXTENDS Integers, FiniteSets

CONSTANTS
  Node,             \* identifiers of judge nodes, each given to one row
  Request,          \* numbers of requests, in the order of their arrival
  NewRow,           \* the rows that an administrator creates
  Body,             \* the columns that an administrator sets, to what they take
  None              \* no node

ASSUME RequestAssumption == Request \subseteq Nat
ASSUME NoneAssumption == None \notin Node

VARIABLES
  nodes,   \* nodes[n]: the row of n
  fresh,   \* fresh[n]: the last heartbeat of n is less than five minutes old
  pc,      \* pc[r]: where request r is
  kind,    \* kind[r]: the command that r runs
  target,  \* target[r]: the node that r is about to write
  patch,   \* patch[r]: the columns that r is about to write
  todo,    \* todo[r]: the nodes that the health check r has still to look at
  (* History variables: no action reads them. *)
  ceiling, \* ceiling[n]: the largest limit or load ever given to n by hand, or 0
  dirty,   \* dirty[r]: another request wrote target[r] since r read it
  excused  \* excused[r]: the nodes that may be online after health check r

table   == <<nodes, fresh, ceiling>>
local   == <<pc, kind, target, patch, todo>>
history == <<ceiling, dirty, excused>>
vars    == <<nodes, fresh, pc, kind, target, patch, todo, ceiling, dirty, excused>>

-----------------------------------------------------------------------------
JudgeNodeStatus == {"online", "offline", "maintenance"}

(* What the column takes: any short text. *)
Status == JudgeNodeStatus \cup {"other"}
Column == {"status", "load", "cap"}
Kind   == {"none", "increment", "decrement", "update", "command", "scan"}

(* current_load and max_capacity are `load` and `cap`: no validation and no *)
(* constraint of the table keeps them from being negative.                  *)
Row == [life : {"unborn", "live", "deleted"}, status : Status, load : Int, cap : Int]

(* The columns that an UPDATE sets, and their values. *)
Patch   == [set : SUBSET Column, status : Status, load : Int, cap : Int]
NoPatch == [set |-> {}, status |-> "online", load |-> 0, cap |-> 0]

ASSUME NewRowAssumption == NewRow \subseteq Row /\ \A row \in NewRow : row.life = "live"
ASSUME BodyAssumption == Body \subseteq Patch

SetOffline == [NoPatch EXCEPT !.set = {"status"}, !.status = "offline"]

Live(n) == nodes[n].life = "live"

Patched(row, p) ==
  [row EXCEPT !.status = IF "status" \in p.set THEN p.status ELSE @,
              !.load   = IF "load" \in p.set THEN p.load ELSE @,
              !.cap    = IF "cap" \in p.set THEN p.cap ELSE @]

(* The patch p cut down to the columns of `set`. *)
Only(p, set) == [Patched(NoPatch, [p EXCEPT !.set = set]) EXCEPT !.set = set]

Larger(a, b) == IF a < b THEN b ELSE a

(* The heartbeat is forgotten. *)
IsNodeOnlineByStatus(n) == Live(n) /\ nodes[n].status = "online"

IsNodeOnline(n) == Live(n) /\ fresh[n] /\ nodes[n].status = "online"
-----------------------------------------------------------------------------
(* Every variable has its type, and the load that a decrement is about to  *)
(* write is not negative, whatever an administrator has set it to.         *)
TypeOK ==
  /\ nodes \in [Node -> Row]
  /\ fresh \in [Node -> BOOLEAN]
  /\ pc \in [Request -> {"new", "write", "scan", "offline", "done", "failed"}]
  /\ kind \in [Request -> Kind]
  /\ target \in [Request -> Node \cup {None}]
  /\ patch \in [Request -> Patch]
  /\ todo \in [Request -> SUBSET Node]
  /\ ceiling \in [Node -> Nat]
  /\ dirty \in [Request -> BOOLEAN]
  /\ excused \in [Request -> SUBSET Node]
  /\ \A r \in Request : pc[r] \in {"write", "offline"} => target[r] \in Node
  /\ \A r \in Request : pc[r] = "write" /\ kind[r] = "decrement" => patch[r].load >= 0

Unborn == [life |-> "unborn", status |-> "online", load |-> 0, cap |-> 0]

(* Any table that `create` has filled. *)
Init ==
  /\ nodes \in [Node -> {Unborn} \cup NewRow]
  /\ fresh = [n \in Node |-> TRUE]
  /\ pc = [r \in Request |-> "new"]
  /\ kind = [r \in Request |-> "none"]
  /\ target = [r \in Request |-> None]
  /\ patch = [r \in Request |-> NoPatch]
  /\ todo = [r \in Request |-> {}]
  /\ ceiling = [n \in Node |-> Larger(0, Larger(nodes[n].load, nodes[n].cap))]
  /\ dirty = [r \in Request |-> FALSE]
  /\ excused = [r \in Request |-> {}]
-----------------------------------------------------------------------------
(* Request r takes the row of n to `row`, having set the columns of `set`. *)
WriteRow(r, n, row, set) ==
  /\ nodes' = [nodes EXCEPT ![n] = row]
  /\ dirty' = [q \in Request |->
                 q # r /\ (dirty[q] \/ (pc[q] = "write" /\ target[q] = n))]
  /\ excused' = [q \in Request |->
                   IF q # r /\ kind[q] = "scan" /\ "status" \in set /\ row.status = "online"
                     THEN excused[q] \cup {n}
                     ELSE excused[q]]

(* The largest limit or load that the patch p sets, or 0. *)
Largest(p) == Larger(Only(p, p.set).load, Only(p, p.set).cap)

Raise(n, value) == ceiling' = [ceiling EXCEPT ![n] = Larger(@, value)]

Answer(r, k, answer) ==
  /\ pc' = [pc EXCEPT ![r] = answer]
  /\ kind' = [kind EXCEPT ![r] = k]

(* The part of r before its write: what it writes is fixed from here on. *)
AwaitWrite(r, k, n, p) ==
  /\ pc' = [pc EXCEPT ![r] = "write"]
  /\ kind' = [kind EXCEPT ![r] = k]
  /\ target' = [target EXCEPT ![r] = n]
  /\ patch' = [patch EXCEPT ![r] = p]
  /\ UNCHANGED <<nodes, fresh, todo, ceiling, dirty, excused>>

(* A load call that takes for granted that the node is online. *)
LoadPatchOnline(n, load) ==
  [NoPatch EXCEPT !.set = {"status", "load"}, !.load = load]

(* The patch of a load call repeats the status it has read. *)
LoadPatch(n, load) ==
  [NoPatch EXCEPT !.set = {"status", "load"}, !.status = nodes[n].status, !.load = load]

(* The limit compared with the load before the increment. *)
IncrementLoadOffByOne(r, n) ==
  /\ pc[r] = "new"
  /\ Live(n) /\ nodes[n].load <= nodes[n].cap
  /\ AwaitWrite(r, "increment", n, LoadPatch(n, nodes[n].load + 1))

(* incrementLoad reads the node; it refuses a missing or a full one. *)
IncrementLoad(r, n) ==
  /\ pc[r] = "new"
  /\ \/ /\ Live(n) /\ nodes[n].load + 1 <= nodes[n].cap
        /\ AwaitWrite(r, "increment", n, LoadPatch(n, nodes[n].load + 1))
     \/ /\ ~Live(n) \/ nodes[n].load + 1 > nodes[n].cap
        /\ Answer(r, "increment", "failed")
        /\ UNCHANGED <<nodes, fresh, target, patch, todo, history>>

(* Math.max forgotten. *)
DecrementLoadUnclamped(r, n) ==
  /\ pc[r] = "new"
  /\ Live(n)
  /\ AwaitWrite(r, "decrement", n, LoadPatch(n, nodes[n].load - 1))

DecrementLoad(r, n) ==
  /\ pc[r] = "new"
  /\ \/ /\ Live(n)
        /\ AwaitWrite(r, "decrement", n, LoadPatch(n, Larger(0, nodes[n].load - 1)))
     \/ /\ ~Live(n)
        /\ Answer(r, "decrement", "failed")
        /\ UNCHANGED <<nodes, fresh, target, patch, todo, history>>

(* updateById of the generic service: findOne, then doc.update, which      *)
(* writes only the columns whose value differs from the one it has read.   *)
Changed(n, dto) ==
  {c \in dto.set : Patched(nodes[n], dto)[c] # nodes[n][c]}

UpdateById(r, n, dto) ==
  /\ pc[r] = "new"
  /\ \/ /\ Live(n)
        /\ AwaitWrite(r, "update", n, Only(dto, Changed(n, dto)))
     \/ /\ ~Live(n)
        /\ Answer(r, "update", "done")
        /\ UNCHANGED <<nodes, fresh, target, patch, todo, history>>

(* The UPDATE of incrementLoad, decrementLoad and updateById.  Only the    *)
(* first two look at how many rows it has affected.                        *)
WritePatch(r) ==
  LET n == target[r]
      p == patch[r]
  IN  /\ pc[r] = "write"
      /\ \/ /\ Live(n)
            /\ WriteRow(r, n, Patched(nodes[n], p), p.set)
            /\ pc' = [pc EXCEPT ![r] = "done"]
            /\ IF kind[r] = "update"
                 THEN Raise(n, Largest(p))
                 ELSE UNCHANGED ceiling
         \/ /\ ~Live(n)
            /\ pc' = [pc EXCEPT ![r] = IF kind[r] = "update" THEN "done" ELSE "failed"]
            /\ UNCHANGED <<nodes, history>>
      /\ target' = [target EXCEPT ![r] = None]
      /\ patch' = [patch EXCEPT ![r] = NoPatch]
      /\ UNCHANGED <<fresh, kind, todo>>

(* PUT :nodeId/status: a body that is not validated, of which the status   *)
(* and current_load are taken if they are there.                           *)
UpdateNodeStatus(r, n, p) ==
  /\ pc[r] = "new"
  /\ \/ /\ Live(n)
        /\ WriteRow(r, n, Patched(nodes[n], p), p.set)
        /\ Raise(n, Largest(p))
        /\ Answer(r, "command", "done")
     \/ /\ ~Live(n)
        /\ Answer(r, "command", "failed")
        /\ UNCHANGED <<nodes, history>>
  /\ UNCHANGED <<fresh, target, patch, todo>>

CreateNode(r, n, row) ==
  /\ pc[r] = "new"
  /\ nodes[n].life = "unborn"
  /\ WriteRow(r, n, row, Column)
  /\ fresh' = [fresh EXCEPT ![n] = TRUE]
  /\ Raise(n, Larger(row.load, row.cap))
  /\ Answer(r, "command", "done")
  /\ UNCHANGED <<target, patch, todo>>

DeleteNode(r, n) ==
  /\ pc[r] = "new"
  /\ Live(n)
  /\ WriteRow(r, n, [nodes[n] EXCEPT !.life = "deleted"], {})
  /\ Answer(r, "command", "done")
  /\ UNCHANGED <<fresh, target, patch, todo, ceiling>>
-----------------------------------------------------------------------------
(* checkAndUpdateOfflineNodes: getMany, then for each node one read and,   *)
(* when it is not online, one UPDATE.  getMany has no ORDER BY.            *)
CheckAndUpdateOfflineNodes(r) ==
  /\ pc[r] = "new"
  /\ pc' = [pc EXCEPT ![r] = "scan"]
  /\ kind' = [kind EXCEPT ![r] = "scan"]
  /\ todo' = [todo EXCEPT ![r] = {n \in Node : Live(n)}]
  /\ UNCHANGED <<nodes, fresh, target, patch, history>>

(* The loop looks at the first node again and again while it is online. *)
ScanCheckStuck(r) ==
  /\ pc[r] = "scan"
  /\ \E n \in todo[r] :
       \/ /\ IsNodeOnline(n)
          /\ UNCHANGED <<pc, target, todo>>
       \/ /\ ~IsNodeOnline(n)
          /\ todo' = [todo EXCEPT ![r] = @ \ {n}]
          /\ pc' = [pc EXCEPT ![r] = "offline"]
          /\ target' = [target EXCEPT ![r] = n]
  /\ UNCHANGED <<nodes, fresh, kind, patch, history>>

ScanCheck(r) ==
  /\ pc[r] = "scan"
  /\ \E n \in todo[r] :
       /\ todo' = [todo EXCEPT ![r] = @ \ {n}]
       /\ \/ /\ IsNodeOnline(n)
             /\ UNCHANGED <<pc, target>>
          \/ /\ ~IsNodeOnline(n)
             /\ pc' = [pc EXCEPT ![r] = "offline"]
             /\ target' = [target EXCEPT ![r] = n]
       /\ excused' = [excused EXCEPT ![r] = IF fresh[n] THEN @ \cup {n} ELSE @]
  /\ UNCHANGED <<nodes, fresh, kind, patch, ceiling, dirty>>

(* The UPDATE of the scan: a node deleted meanwhile ends the scan with an  *)
(* error, and the nodes that are left are not looked at.                   *)
ScanSetOffline(r) ==
  /\ pc[r] = "offline"
  /\ \/ /\ Live(target[r])
        /\ WriteRow(r, target[r], Patched(nodes[target[r]], SetOffline), {"status"})
        /\ pc' = [pc EXCEPT ![r] = "scan"]
        /\ UNCHANGED ceiling
     \/ /\ ~Live(target[r])
        /\ pc' = [pc EXCEPT ![r] = "failed"]
        /\ UNCHANGED <<nodes, history>>
  /\ target' = [target EXCEPT ![r] = None]
  /\ UNCHANGED <<fresh, kind, patch, todo>>

ScanEnd(r) ==
  /\ pc[r] = "scan"
  /\ todo[r] = {}
  /\ pc' = [pc EXCEPT ![r] = "done"]
  /\ UNCHANGED <<nodes, fresh, kind, target, patch, todo, history>>
-----------------------------------------------------------------------------
(* POST :nodeId/heartbeat touches last_heartbeat and nothing else. *)
UpdateHeartbeat(n) ==
  /\ Live(n)
  /\ fresh' = [fresh EXCEPT ![n] = TRUE]
  /\ UNCHANGED <<nodes, local, history>>

(* Five minutes pass without a heartbeat of n. *)
HeartbeatExpires(n) ==
  /\ Live(n)
  /\ fresh[n]
  /\ fresh' = [fresh EXCEPT ![n] = FALSE]
  /\ UNCHANGED <<nodes, local, history>>

(* What updateById and create take is validated, but for the sign of the   *)
(* numbers.                                                                *)
Start(r) ==
  /\ \A q \in Request : q < r => pc[q] # "new"
  /\ \/ \E n \in Node : IncrementLoad(r, n) \/ DecrementLoad(r, n) \/ DeleteNode(r, n)
     \/ \E n \in Node, p \in Body : p.status \in JudgeNodeStatus /\ UpdateById(r, n, p)
     \/ \E n \in Node, p \in Body : "cap" \notin p.set /\ UpdateNodeStatus(r, n, p)
     \/ \E n \in Node, row \in NewRow : CreateNode(r, n, row)
     \/ CheckAndUpdateOfflineNodes(r)

Continue(r) == WritePatch(r) \/ ScanCheck(r) \/ ScanSetOffline(r) \/ ScanEnd(r)

Next ==
  \/ \E r \in Request : Start(r) \/ Continue(r)
  \/ \E n \in Node : UpdateHeartbeat(n) \/ HeartbeatExpires(n)

(* The database answers every statement and the event loop resumes every   *)
(* handler; no request has to arrive, and no heartbeat either.             *)
Fairness == \A r \in Request : WF_vars(Continue(r))

Spec == Init /\ [][Next]_vars /\ Fairness
-----------------------------------------------------------------------------
(* However load calls race with each other and with administrators, the    *)
(* load of a node never exceeds every limit and every load that was ever   *)
(* configured for it by hand, unless it is zero.                           *)
LoadBelowCeiling == \A n \in Node : nodes[n].load <= ceiling[n]

(* What a load call is meant to do to the row of its node. *)
Moved(k, row) ==
  [row EXCEPT !.load = IF k = "increment" THEN @ + 1 ELSE Larger(0, @ - 1)]

LoadCall(r) == WritePatch(r) /\ kind[r] \in {"increment", "decrement"} /\ Live(target[r])

ActsAtomically(r) ==
  /\ nodes' = [nodes EXCEPT ![target[r]] = Moved(kind[r], @)]
  /\ kind[r] = "increment" => nodes'[target[r]].load <= nodes[target[r]].cap

(* A load call whose node nobody else wrote between its read and its write *)
(* moves the load by one, within the limit (or a negative load up to zero, *)
(* which is what a decrement does), and leaves the rest alone.             *)
UncontendedLoadCallIsAtomic ==
  [][\A r \in Request : LoadCall(r) /\ ~dirty[r] => ActsAtomically(r)]_vars

(* The nodes that a health check has dealt with are not online, unless the *)
(* check found them fresh or somebody set them online after it had looked. *)
ScanSweeps ==
  \A r \in Request : kind[r] = "scan" /\ pc[r] # "failed" =>
    \A n \in Node :
      Live(n) /\ nodes[n].status = "online" =>
        n \in todo[r] \cup excused[r] \/ (pc[r] = "offline" /\ target[r] = n)

(* Every request is answered, the health check too, whatever happens to    *)
(* the table while it runs.                                                *)
EveryRequestIsAnswered ==
  \A r \in Request : pc[r] # "new" ~> pc[r] \in {"done", "failed"}

(* "Increase the load of the node when it receives a submission": every    *)
(* load call counts.                                                       *)
LoadCallIsAtomic ==
  [][\A r \in Request : LoadCall(r) => ActsAtomically(r)]_vars
=============================================================================
