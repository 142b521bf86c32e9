---------------------------- MODULE JudgeTables ----------------------------
(***************************************************************************)
(* The two tables that tell what became of the work of the judge: the      *)
(* submissions of students, and the logs of judge nodes.  Both are written *)
(* by clients through the generic controller, and by services that the     *)
(* judge calls: createSubmission, updateSubmissionStatus and the two calls *)
(* built on it, and createLog with its variants.                           *)
(*                                                                         *)
(* One table is looked at in a behaviour, one of these or a collection of  *)
(* MongoDB.  Rows are numbered in the order of _id, which is random, and   *)
(* not the order in which they are created.                                *)
(* A submission is [key |-> submission_id, of |-> student_id or problem_id,*)
(* kind |-> status, at |-> submitted_at, judged |-> judged_at, text |-> how*)
(* often code mentions a certain domain]; a log has judge_node_id,         *)
(* event_type, createdAt and message instead, and of a document only its   *)
(* texts matter.                                                           *)
(***************************************************************************)
EXTENDS Integers, Sequences, FiniteSets

CONSTANTS
  Null,
  Ids,        \* what _id may be
  Keys,       \* what submission_id may be
  Owners,     \* students, or judge nodes
  Updaters,   \* calls of updateSubmissionStatus
  First,      \* the tables at first
  Bodies,     \* what clients and the judge send of a row: key, owner and kind
  Times,      \* what clients send as submitted_at and judged_at
  MaxTime,    \* how many days pass
  MaxWrites   \* how many statements write

NoRow == [key |-> Null]
EventType == {"HEARTBEAT", "ERROR"}
Final == {"ACCEPTED", "WRONG_ANSWER"}
Status == {"PENDING", "RUNNING"} \cup Final
Kinds(entity) ==
  CASE entity = "submissions" -> Status
    [] entity = "logs" -> EventType
    [] entity = "documents" -> {"any"}
Entities == {"submissions", "logs", "documents"}

\* A submission's time may be null, which PostgreSQL orders after all others.
NoTime == MaxTime + 1

Row(entity) == [key : Keys \cup {Null}, of : Owners, kind : Kinds(entity), at : 0 .. NoTime,
                judged : (0 .. MaxTime) \cup {Null}, text : 0 .. 2]

ASSUME JudgeTablesAssumption ==
  /\ Ids \subseteq Nat /\ IsFiniteSet(Ids)
  /\ Null \notin Keys \cup Nat \cup EventType
  /\ MaxTime \in Nat /\ MaxWrites \in Nat
  /\ \A entity \in Entities :
       /\ First[entity] \in [Ids -> Row(entity) \cup {NoRow}]
       /\ Bodies[entity] \subseteq [key : Keys \cup {Null}, of : Owners, kind : Kinds(entity)]
  /\ Times \subseteq (0 .. NoTime) \X ((0 .. MaxTime) \cup {Null})
  /\ \A i \in Ids : First["submissions"][i] # NoRow => First["submissions"][i].kind = "PENDING"
  /\ \A entity \in Entities, i \in Ids :
       First[entity][i] # NoRow => First[entity][i].judged = Null /\ First[entity][i].at = 0

VARIABLES
  entity,   \* "submissions", "logs" or "documents"
  table,    \* the rows by _id, or NoRow
  now,      \* the day
  written,  \* the statements that have written: what they did, and to which rows
  upd       \* calls of updateSubmissionStatus

writerVars == <<entity, table, now, written, upd>>

Rows(t) == {i \in Ids : t[i] # NoRow}
Used == Rows(First[entity]) \cup UNION {written[n].ids : n \in DOMAIN written}
Idle == [pc |-> "idle"]

\* What statements after the n-th did to which rows.
Since(n, op) == UNION {written[m].ids : m \in {k \in n + 1 .. Len(written) : written[k].op = op}}

InitTables ==
  /\ entity \in Entities
  /\ table = First[entity]
  /\ now = 0
  /\ written = <<>>
  /\ upd = [u \in Updaters |-> Idle]

Log(op, ids) ==
  /\ Len(written) < MaxWrites
  /\ written' = Append(written, [op |-> op, ids |-> ids])

\* A new row with what was sent, and its two times.
Insert(body, kind, text, times, op) ==
  /\ \E i \in Ids \ Used :
       /\ table' = [table EXCEPT ![i] = [key |-> body.key, of |-> body.of, kind |-> kind,
                                        at |-> times[1], judged |-> times[2], text |-> text]]
       /\ Log(op, {i})
  /\ UNCHANGED <<entity, now, upd>>

-----------------------------------------------------------------------------
(* Submissions *)

CreateSubmission ==
  /\ entity = "submissions"
  /\ \E body \in Bodies[entity] : Insert(body, "PENDING", 1, <<now, Null>>, "create")

\* Of the statuses that end the judging one is forgotten.
JudgedSome(status, old) == IF status = "ACCEPTED" THEN now ELSE old

\* judged_at is the time of the last verdict, and stays when the submission is
\* given to a node again.
Judged(status, old) == IF status \in Final THEN now ELSE old

\* The UPDATE of updateSubmissionStatus, with what a call of
\* assignSubmissionToNode (status RUNNING) or updateSubmissionResult brings,
\* of which no other column told here is set: every row that has the
\* submission_id, which is not unique.
UpdateSubmissionStatus(u) ==
  /\ entity = "submissions" /\ upd[u].pc = "idle"
  /\ \E k \in Keys, status \in Status :
       LET found == {i \in Rows(table) : table[i].key = k}
       IN  \/ /\ found = {}
              /\ upd' = [upd EXCEPT ![u] = [pc |-> "thrown"]]
              /\ UNCHANGED <<table, written>>
           \/ /\ found # {}
              /\ table' = [i \in Ids |-> IF i \notin found THEN table[i]
                             ELSE [table[i] EXCEPT !.kind = status, !.judged = Judged(status, @)]]
              /\ Log("judge", found)
              /\ upd' = [upd EXCEPT ![u] = [pc |-> "find", key |-> k, status |-> status,
                                            from |-> Len(written) + 1]]
  /\ UNCHANGED <<entity, now>>

\* The row is looked for by its status.
FindByStatus(t, key, status) == {i \in Rows(t) : t[i].kind = status}

Find(t, key, status) == {i \in Rows(t) : t[i].key = key}

\* Its findOne: some row with the submission_id, or null.
FindUpdated(u) ==
  /\ upd[u].pc = "find"
  /\ LET found == Find(table, upd[u].key, upd[u].status)
         answers == IF found = {} THEN {NoRow} ELSE {table[i] : i \in found}
     IN  \E row \in answers :
           upd' = [upd EXCEPT ![u] = [pc |-> "answered", key |-> upd[u].key, from |-> upd[u].from,
                                      status |-> upd[u].status, answer |-> row, to |-> Len(written)]]
  /\ UNCHANGED <<entity, table, now, written>>

-----------------------------------------------------------------------------
(* Logs *)

\* createLog, with or without a message, logHeartbeat, whose message is always
\* the same, and logError.  The other calls built on createLog have no route.
LogCalls ==
  {[kinds |-> EventType, text |-> 0], [kinds |-> EventType, text |-> 1],
   [kinds |-> {"HEARTBEAT"}, text |-> 0], [kinds |-> {"ERROR"}, text |-> 1]}

CreateLog ==
  /\ entity = "logs"
  /\ \E body \in Bodies[entity], call \in LogCalls :
       body.kind \in call.kinds /\ Insert(body, body.kind, call.text, <<now, Null>>, "create")

-----------------------------------------------------------------------------
(* Clients, through the generic controller; SqlService has the statements of
   each command.  Of a submission they may set every column but _id, its times
   to whatever they like; a time of a log is no column of its DTO. *)

Sent == IF entity = "submissions" THEN Times ELSE {}

Create ==
  \E body \in Bodies[entity], times \in Sent \cup {<<now, Null>>} :
    Insert(body, body.kind, 0, times, "byHand")

\* One column at a time.
UpdateById ==
  /\ \E i \in Rows(table) :
       \/ /\ \/ \E body \in Bodies[entity] :
                  table' \in {[table EXCEPT ![i].kind = body.kind], [table EXCEPT ![i].of = body.of],
                             [table EXCEPT ![i].key = body.key], [table EXCEPT ![i].text = 0]}
             \/ \E times \in Sent : table' = [table EXCEPT ![i].judged = times[2]]
          /\ table' # table
          /\ Log("edit", {i})
       \/ \E times \in Sent :
            table' = [table EXCEPT ![i].at = times[1]] /\ table' # table /\ Log("retime", {i})
  /\ UNCHANGED <<entity, now, upd>>

DeleteById ==
  /\ \E i \in Rows(table) : table' = [table EXCEPT ![i] = NoRow] /\ Log("delete", {i})
  /\ UNCHANGED <<entity, now, upd>>

Tick == now < MaxTime /\ now' = now + 1 /\ UNCHANGED <<entity, table, written, upd>>

WriterStep ==
  \/ CreateSubmission \/ CreateLog \/ Create \/ UpdateById \/ DeleteById \/ Tick
  \/ \E u \in Updaters : UpdateSubmissionStatus(u) \/ FindUpdated(u)

ByHand == Since(0, "byHand") \cup Since(0, "edit") \cup Since(0, "retime")

\* A submission that no client has edited has the time of its verdict once it
\* has one, however its updates follow each other, and never a time at which
\* it had not been submitted.
VerdictHasItsTime ==
  entity = "submissions" =>
    \A i \in Rows(table) \ ByHand :
      /\ table[i].kind \in Final => table[i].judged # Null
      /\ table[i].judged # Null => table[i].judged \in table[i].at .. now

\* The judge is answered with what it has written, unless another statement
\* came between its UPDATE and its SELECT; which of several rows with the same
\* submission_id is found makes no difference.
AnswerShowsOwnWrite ==
  \A u \in Updaters :
    (upd[u].pc = "answered" /\ upd[u].from = upd[u].to) =>
      upd[u].answer # NoRow /\ upd[u].answer.key = upd[u].key /\ upd[u].answer.kind = upd[u].status
=============================================================================
