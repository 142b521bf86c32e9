---------------------------- MODULE FilesProofs -----------------------------
(***************************************************************************)
(* Proofs about Files: where the content of a file is, for any number of   *)
(* calls, users and changes of the setting, and files of any size.         *)
(***************************************************************************)
EXTENDS Files, TLAPS

\* What a call holds, by what it does and how far it is.
TaskStep == [pc : Waiting \cup {"failed", "torn", "done"}, type : Types, size : Nat]
Idle == [op : {"none"}, pc : {"idle"}]
Creating == [op : {"create"}, pc : {"setting", "thrown"}, user : Users, size : Nat]
Storing == [op : {"create"}, pc : {"put", "row"} \cup Over, user : Users, size : Nat, type : Types]
Initiating == [op : {"init"}, pc : {"open", "commit"} \cup Over, user : Users, size : Nat]
Completing == [op : {"complete"}, pc : {"join"} \cup Over, of : Calls]
Reading == [op : {"read"}, pc : {"get"}, of : Calls, row : FileRow]
Finished == [op : {"read", "delete"}, pc : Over]
Compression == [op : {"compress"}, pc : {"tasks"}, tasks : UNION {[S -> TaskStep] : S \in SUBSET Calls}]
Call == Idle \cup Creating \cup Storing \cup Initiating \cup Completing \cup Reading
          \cup Finished \cup Compression

TypeOK ==
  /\ setting \in Types
  /\ rows \in [Calls -> FileRow \cup {None}]
  /\ objects \in [Calls -> Contents \cup {None}]
  /\ uploads \in [Calls -> {"none", "open", "over"}]
  /\ deleted \subseteq Calls
  /\ calls \in [Calls -> Call]

\* A row is of a call that is over, answered or not, and of the type that it
\* stored, with its object if it has put one.
RowOK(f) ==
  rows[f] # None =>
    /\ calls[f].op \in {"create", "init"} /\ calls[f].pc \in Over
    /\ calls[f].op = "create" => calls[f] \in Storing /\ (calls[f].type = "S3" => objects[f] # None)
    /\ rows[f].type = (IF calls[f].op = "init" THEN "S3" ELSE calls[f].type)
    /\ rows[f].type = "Database" => rows[f].data # None /\ rows[f].data.of = f

\* An object is of the call that makes the file, which is past putting it.
ObjectOK(f) ==
  /\ objects[f] # None => calls[f].op \in {"create", "init"} /\ objects[f].of = f
  /\ calls[f] \in Storing /\ calls[f].pc = "row" /\ calls[f].type = "S3" => objects[f] # None
  /\ uploads[f] # "none" => calls[f].op = "init"
  /\ uploads[f] = "over" => objects[f] # None

MadeOK(f) ==
  calls[f].op \in {"create", "init"} /\ calls[f].pc = "answered" => f \in Present \cup deleted

\* The row that a reader holds is still good when its file is gone.
ReadOK(c) ==
  calls[c].op = "read" /\ calls[c].pc = "get" =>
    /\ calls[c].row.type = "Database" => calls[c].row.data # None /\ calls[c].row.data.of = calls[c].of
    /\ calls[c].row.type = "S3" => calls[calls[c].of].op = "init" \/ objects[calls[c].of] # None

\* A task that has read its object knows that there is one.
TaskOK(c) ==
  calls[c].op = "compress" =>
    \A f \in Calls : Task(c, f).pc \in {"key", "put"} => objects[f] # None

FileOK(f) == RowOK(f) /\ ObjectOK(f) /\ MadeOK(f) /\ ReadOK(f) /\ TaskOK(f)

IInv == TypeOK /\ \A f \in Calls : FileOK(f)

-----------------------------------------------------------------------------
(* Calls by what they do *)

\* What a call holds follows from what it does and how far it is.
LEMMA Shapes ==
  ASSUME NEW k \in Call
  PROVE  /\ k.op = "none" => k \in Idle
         /\ k.op = "create" => k \in Creating \cup Storing
         /\ k.op = "create" /\ k.pc \in {"put", "row", "answered"} => k \in Storing
         /\ k.op = "create" /\ k.pc = "setting" => k \in Creating
         /\ k.op = "init" => k \in Initiating
         /\ k.op = "complete" => k \in Completing
         /\ k.op = "read" /\ k.pc = "get" => k \in Reading
         /\ k.op = "compress" => k \in Compression
<1>1. CASE k \in Idle
  BY <1>1 DEF Idle
<1>2. CASE k \in Creating
  BY <1>2 DEF Creating
<1>3. CASE k \in Storing
  BY <1>3 DEF Storing, Over
<1>4. CASE k \in Initiating
  BY <1>4 DEF Initiating
<1>5. CASE k \in Completing
  BY <1>5 DEF Completing
<1>6. CASE k \in Reading
  BY <1>6 DEF Reading
<1>7. CASE k \in Finished
  BY <1>7 DEF Finished, Over
<1>8. CASE k \in Compression
  BY <1>8 DEF Compression
<1> QED
  BY <1>1, <1>2, <1>3, <1>4, <1>5, <1>6, <1>7, <1>8 DEF Call

\* A call that only goes on keeps the rest of what it holds.
LEMMA GoKeeps ==
  ASSUME TypeOK, NEW c \in Calls, NEW pc, Go(c, pc),
         \/ calls[c] \in Creating /\ pc = "thrown"
         \/ calls[c] \in Storing /\ pc \in {"row", "answered", "thrown"}
         \/ calls[c] \in Initiating /\ pc \in {"commit", "answered", "thrown"}
         \/ calls[c] \in Completing /\ pc \in Over
  PROVE  \E k \in Call :
           /\ calls' = [calls EXCEPT ![c] = k]
           /\ k.op = calls[c].op /\ k.pc = pc
           /\ calls[c] \in Storing => k \in Storing /\ k.type = calls[c].type
           /\ calls[c] \notin Storing => k \notin Storing
<1> DEFINE k == [calls[c] EXCEPT !.pc = pc]
<1>1. calls' = [calls EXCEPT ![c] = k]
  BY DEF Go
<1>2. CASE calls[c] \in Creating /\ pc = "thrown"
  <2>1. k \in Creating /\ k.op = calls[c].op /\ k.pc = pc
    BY <1>2 DEF Creating
  <2>2. calls[c] \notin Storing /\ k \notin Storing
    BY <1>2, <2>1 DEF Creating, Storing
  <2> QED
    BY <1>1, <2>1, <2>2 DEF Call
<1>3. CASE calls[c] \in Storing /\ pc \in {"row", "answered", "thrown"}
  <2>1. k \in Storing /\ k.op = calls[c].op /\ k.pc = pc /\ k.type = calls[c].type
    BY <1>3 DEF Storing, Over
  <2> QED
    BY <1>1, <1>3, <2>1 DEF Call
<1>4. CASE calls[c] \in Initiating /\ pc \in {"commit", "answered", "thrown"}
  <2>1. k \in Initiating /\ k.op = calls[c].op /\ k.pc = pc
    BY <1>4 DEF Initiating, Over
  <2>2. calls[c] \notin Storing /\ k \notin Storing
    BY <1>4, <2>1 DEF Initiating, Storing
  <2> QED
    BY <1>1, <2>1, <2>2 DEF Call
<1>5. CASE calls[c] \in Completing /\ pc \in Over
  <2>1. k \in Completing /\ k.op = calls[c].op /\ k.pc = pc
    BY <1>5 DEF Completing, Over
  <2>2. calls[c] \notin Storing /\ k \notin Storing
    BY <1>5, <2>1 DEF Completing, Storing
  <2> QED
    BY <1>1, <2>1, <2>2 DEF Call
<1> QED
  BY <1>2, <1>3, <1>4, <1>5

\* One call changes, and no object goes: what is said of readers and of
\* compressions other than that call stays true.
LEMMA OneCall ==
  ASSUME IInv, NEW c \in Calls, NEW k \in Call, calls' = [calls EXCEPT ![c] = k],
         setting' \in Types, rows' \in [Calls -> FileRow \cup {None}],
         objects' \in [Calls -> Contents \cup {None}],
         uploads' \in [Calls -> {"none", "open", "over"}], deleted' \subseteq Calls,
         calls[c].op \in {"none", k.op},
         \A f \in Calls : objects[f] # None => objects'[f] # None,
         \A f \in Calls \ {c} : (RowOK(f) /\ ObjectOK(f) /\ MadeOK(f))',
         FileOK(c)'
  PROVE  IInv'
<1>1. TypeOK'
  BY DEF IInv, TypeOK
<1>2. ASSUME NEW f \in Calls, f # c PROVE FileOK(f)'
  <2>1. calls'[f] = calls[f] /\ FileOK(f)
    BY <1>2 DEF IInv, TypeOK
  <2>2. ReadOK(f)'
    <3> SUFFICES ASSUME calls[f].op = "read", calls[f].pc = "get" PROVE ReadOK(f)'
      BY <2>1 DEF ReadOK
    <3>1. calls[f].of \in Calls
      BY Shapes DEF IInv, TypeOK, Reading
    <3>2. calls[calls[f].of].op = "init" => calls'[calls[f].of].op = "init"
      BY <3>1 DEF IInv, TypeOK
    <3> QED
      BY <2>1, <3>1, <3>2 DEF FileOK, ReadOK
  <2>3. TaskOK(f)'
    BY <2>1 DEF FileOK, TaskOK, Task
  <2> QED
    BY <1>2, <2>2, <2>3 DEF FileOK
<1> QED
  BY <1>1, <1>2 DEF IInv

\* One call changes and nothing else that its file, its readers or the
\* compressions depend on.
LEMMA CallAlone ==
  ASSUME IInv, NEW c \in Calls, NEW k \in Call, calls' = [calls EXCEPT ![c] = k],
         UNCHANGED <<setting, rows, objects, uploads, deleted>>,
         calls[c].op \in {"none", k.op}, FileOK(c)'
  PROVE  IInv'
<1>1. TypeOK
  BY DEF IInv
<1>2. ASSUME NEW f \in Calls \ {c} PROVE (RowOK(f) /\ ObjectOK(f) /\ MadeOK(f))'
  <2>1. calls'[f] = calls[f] /\ FileOK(f)
    BY <1>2 DEF IInv, TypeOK
  <2> QED
    BY <2>1 DEF FileOK, RowOK, ObjectOK, MadeOK, Present
<1> QED
  BY <1>1, <1>2, OneCall DEF TypeOK

\* A call that has done nothing has no row, no object and no upload.
LEMMA Fresh ==
  ASSUME IInv, NEW c \in Calls, calls[c].op = "none"
  PROVE  rows[c] = None /\ objects[c] = None /\ uploads[c] = "none"
BY DEF IInv, FileOK, RowOK, ObjectOK

\* Nor has one that is not over a row.
LEMMA NoRow ==
  ASSUME NEW c \in Calls, FileOK(c), calls[c].pc \notin Over
  PROVE  rows[c] = None
BY DEF FileOK, RowOK

\* So a new call that makes no file has only its own state to account for.
LEMMA NewCall ==
  ASSUME IInv, NEW c \in Calls, calls[c].op = "none", NEW k \in Call,
         calls' = [calls EXCEPT ![c] = k], UNCHANGED <<setting, rows, objects, uploads, deleted>>,
         k \notin Storing, k.op \in {"create", "init"} => k.pc # "answered",
         (ReadOK(c) /\ TaskOK(c))'
  PROVE  IInv'
<1>1. calls'[c] = k
  BY DEF IInv, TypeOK
<1>2. FileOK(c)'
  BY <1>1, Fresh DEF FileOK, RowOK, ObjectOK, MadeOK
<1> QED
  BY <1>2, CallAlone

-----------------------------------------------------------------------------
(* The actions *)

LEMMA InitInv == Init => IInv
<1> SUFFICES ASSUME Init PROVE IInv
  OBVIOUS
<1>1. [op |-> "none", pc |-> "idle"] \in Call
  BY DEF Call, Idle
<1>2. TypeOK
  BY <1>1 DEF Init, TypeOK
<1>3. ASSUME NEW f \in Calls PROVE FileOK(f)
  <2>1. calls[f] = [op |-> "none", pc |-> "idle"]
    BY DEF Init
  <2> QED
    BY <2>1 DEF Init, FileOK, RowOK, ObjectOK, MadeOK, ReadOK, TaskOK, Storing
<1> QED
  BY <1>2, <1>3 DEF IInv

LEMMA StutterInv ==
  ASSUME IInv, setting' \in Types, UNCHANGED <<rows, objects, uploads, calls, deleted>>
  PROVE  IInv'
BY DEF IInv, TypeOK, FileOK, RowOK, ObjectOK, MadeOK, ReadOK, TaskOK, Task, Present

LEMMA CreateInv == ASSUME IInv, NEW c \in Calls, Create(c) PROVE IInv'
<1>1. PICK u \in Users, size \in 1 .. MaxSize :
        calls' = [calls EXCEPT ![c] = [op |-> "create", pc |-> "setting", user |-> u, size |-> size]]
  BY DEF Create
<1> DEFINE k == [op |-> "create", pc |-> "setting", user |-> u, size |-> size]
<1>2. k \in Creating /\ k \notin Storing
  BY FilesAssumption DEF Creating, Storing
<1>3. calls'[c] = k
  BY <1>1 DEF IInv, TypeOK
<1>4. (ReadOK(c) /\ TaskOK(c))'
  BY <1>3 DEF ReadOK, TaskOK
<1> QED
  BY <1>1, <1>2, <1>4, NewCall DEF Create, Call

LEMMA ReadSettingInv == ASSUME IInv, NEW c \in Calls, ReadSetting(c) PROVE IInv'
<1> DEFINE k == [op |-> "create", user |-> calls[c].user, size |-> calls[c].size,
                 type |-> setting, pc |-> IF setting = "S3" THEN "put" ELSE "row"]
<1>1. calls[c] \in Creating /\ FileOK(c) /\ TypeOK
  BY Shapes DEF ReadSetting, IInv, TypeOK
<1>2. k \in Storing
  BY <1>1 DEF Creating, Storing, TypeOK, Types
<1>3. calls' = [calls EXCEPT ![c] = k] /\ calls'[c] = k
  BY <1>1 DEF ReadSetting, TypeOK
<1>4. RowOK(c)' /\ MadeOK(c)' /\ ReadOK(c)' /\ TaskOK(c)'
  <2>1. rows[c] = None
    BY <1>1, NoRow DEF ReadSetting, Over
  <2> QED
    BY <1>1, <1>3, <2>1 DEF ReadSetting, FileOK, RowOK, MadeOK, ReadOK, TaskOK
<1>5. ObjectOK(c)'
  BY <1>1, <1>3 DEF ReadSetting, FileOK, ObjectOK, Types, TypeOK
<1> QED
  BY <1>1, <1>2, <1>3, <1>4, <1>5, CallAlone DEF ReadSetting, FileOK, Call

LEMMA PutObjectInv == ASSUME IInv, NEW c \in Calls, PutObject(c) PROVE IInv'
<1>1. calls[c] \in Storing /\ FileOK(c) /\ TypeOK
  BY Shapes DEF PutObject, IInv, TypeOK
<1>2. PICK k \in Call : /\ calls' = [calls EXCEPT ![c] = k]
                        /\ k.op = calls[c].op /\ k.pc = "row" /\ k.type = calls[c].type
  BY <1>1, GoKeeps DEF PutObject
<1>3. calls'[c] = k
  BY <1>1, <1>2 DEF TypeOK
<1>4. [of |-> c, size |-> calls[c].size] \in Contents
  BY <1>1 DEF Storing, Contents
<1>5. /\ objects' \in [Calls -> Contents \cup {None}]
      /\ objects'[c] # None /\ objects'[c].of = c
      /\ \A f \in Calls : objects[f] # None => objects'[f] # None
  BY <1>1, <1>4, NoneAssumption DEF PutObject, TypeOK
<1>6. FileOK(c)'
  <2>1. rows[c] = None
    BY <1>1, NoRow DEF PutObject, Over
  <2> QED
    BY <1>1, <1>2, <1>3, <1>5, <2>1 DEF PutObject, FileOK, RowOK, ObjectOK, MadeOK, ReadOK, TaskOK
<1>7. ASSUME NEW f \in Calls \ {c} PROVE (RowOK(f) /\ ObjectOK(f) /\ MadeOK(f))'
  <2>1. calls'[f] = calls[f] /\ objects'[f] = objects[f] /\ FileOK(f)
    BY <1>1, <1>2 DEF IInv, TypeOK, PutObject
  <2> QED
    BY <2>1 DEF PutObject, FileOK, RowOK, ObjectOK, MadeOK, Present
<1> QED
  BY <1>1, <1>2, <1>5, <1>6, <1>7, OneCall DEF PutObject, TypeOK

LEMMA CreateRowInv == ASSUME IInv, NEW c \in Calls, CreateRow(c) PROVE IInv'
<1>1. calls[c] \in Storing /\ FileOK(c) /\ TypeOK
  BY Shapes DEF CreateRow, IInv, TypeOK
<1>2. PICK k \in Call : /\ calls' = [calls EXCEPT ![c] = k]
                        /\ k.op = calls[c].op /\ k.pc \in Over
                        /\ k \in Storing /\ k.type = calls[c].type
  <2>1. PICK end \in Over : Go(c, end)
    BY DEF CreateRow
  <2> QED
    BY <1>1, <2>1, GoKeeps DEF Over
<1>3. calls'[c] = k
  BY <1>1, <1>2 DEF TypeOK
<1> DEFINE data == IF calls[c].type = "S3" THEN None ELSE [of |-> c, size |-> calls[c].size]
           row == Row(calls[c].type, calls[c].user, data, calls[c].size)
<1>4. row \in FileRow /\ [of |-> c, size |-> calls[c].size] \in Contents
  BY <1>1 DEF Storing, Contents, FileRow, Row, Types
<1>5. rows' = [rows EXCEPT ![c] = row] /\ rows'[c] = row
  BY <1>1 DEF CreateRow, Storage, TypeOK
<1>6. RowOK(c)'
  BY <1>1, <1>2, <1>3, <1>4, <1>5, NoneAssumption DEF CreateRow, FileOK, ObjectOK, RowOK, Row
<1>7. rows'[c] # None
  BY <1>4, <1>5, NoneAssumption
<1>8. (ObjectOK(c) /\ MadeOK(c) /\ ReadOK(c) /\ TaskOK(c))'
  BY <1>1, <1>2, <1>3, <1>7 DEF CreateRow, FileOK, ObjectOK, MadeOK, ReadOK, TaskOK, Present, Over
<1>9. ASSUME NEW f \in Calls \ {c} PROVE (RowOK(f) /\ ObjectOK(f) /\ MadeOK(f))'
  <2>1. calls'[f] = calls[f] /\ rows'[f] = rows[f] /\ FileOK(f)
    BY <1>1, <1>2, <1>5 DEF IInv, TypeOK
  <2> QED
    BY <2>1 DEF CreateRow, FileOK, RowOK, ObjectOK, MadeOK, Present
<1>10. rows' \in [Calls -> FileRow \cup {None}]
  BY <1>1, <1>4, <1>5 DEF TypeOK
<1> QED
  BY <1>1, <1>2, <1>6, <1>8, <1>9, <1>10, OneCall DEF CreateRow, TypeOK, FileOK

LEMMA InitiateInv == ASSUME IInv, NEW c \in Calls, Initiate(c) PROVE IInv'
<1>1. PICK u \in Users, size \in 1 .. MaxSize :
        calls' = [calls EXCEPT ![c] = [op |-> "init", pc |-> "open", user |-> u, size |-> size]]
  BY DEF Initiate
<1> DEFINE k == [op |-> "init", pc |-> "open", user |-> u, size |-> size]
<1>2. k \in Initiating /\ k \notin Storing
  BY FilesAssumption DEF Initiating, Storing
<1>3. calls'[c] = k
  BY <1>1 DEF IInv, TypeOK
<1>4. (ReadOK(c) /\ TaskOK(c))'
  BY <1>3 DEF ReadOK, TaskOK
<1> QED
  BY <1>1, <1>2, <1>4, NewCall DEF Initiate, Call

LEMMA OpenUploadInv == ASSUME IInv, NEW c \in Calls, OpenUpload(c) PROVE IInv'
<1>1. calls[c] \in Initiating /\ FileOK(c) /\ TypeOK
  BY Shapes DEF OpenUpload, IInv, TypeOK
<1>2. PICK k \in Call : /\ calls' = [calls EXCEPT ![c] = k]
                        /\ k.op = "init" /\ k.pc = "commit" /\ k \notin Storing
  <2>1. calls[c] \notin Storing
    BY <1>1 DEF Initiating, Storing
  <2> QED
    BY <1>1, <2>1, GoKeeps DEF OpenUpload
<1>3. calls'[c] = k /\ uploads'[c] = "open"
  BY <1>1, <1>2 DEF OpenUpload, TypeOK
<1>4. FileOK(c)'
  <2>1. rows[c] = None
    BY <1>1, NoRow DEF OpenUpload, Over
  <2> QED
    BY <1>1, <1>2, <1>3, <2>1 DEF OpenUpload, FileOK, RowOK, ObjectOK, MadeOK, ReadOK, TaskOK
<1>5. ASSUME NEW f \in Calls \ {c} PROVE (RowOK(f) /\ ObjectOK(f) /\ MadeOK(f))'
  <2>1. calls'[f] = calls[f] /\ uploads'[f] = uploads[f] /\ FileOK(f)
    BY <1>1, <1>2 DEF IInv, TypeOK, OpenUpload
  <2> QED
    BY <2>1 DEF OpenUpload, FileOK, RowOK, ObjectOK, MadeOK, Present
<1> QED
  BY <1>1, <1>2, <1>4, <1>5, OneCall DEF OpenUpload, TypeOK

LEMMA CommitRowInv == ASSUME IInv, NEW c \in Calls, CommitRow(c) PROVE IInv'
<1>1. calls[c] \in Initiating /\ FileOK(c) /\ TypeOK
  BY Shapes DEF CommitRow, IInv, TypeOK
<1>2. PICK k \in Call : /\ calls' = [calls EXCEPT ![c] = k]
                        /\ k.op = "init" /\ k.pc \in Over /\ k \notin Storing
  <2>1. calls[c] \notin Storing
    BY <1>1 DEF Initiating, Storing
  <2>2. PICK end \in Over : Go(c, end)
    BY DEF CommitRow
  <2> QED
    BY <1>1, <2>1, <2>2, GoKeeps DEF CommitRow, Over
<1> DEFINE row == Row("S3", calls[c].user, None, calls[c].size)
<1>3. row \in FileRow
  BY <1>1 DEF Initiating, FileRow, Row
<1>4. rows' = [rows EXCEPT ![c] = row] /\ rows'[c] = row /\ calls'[c] = k
  BY <1>1, <1>2 DEF CommitRow, TypeOK
<1>5. rows'[c] # None /\ rows'[c].type = "S3"
  BY <1>3, <1>4, NoneAssumption DEF Row
<1>6. FileOK(c)'
  BY <1>1, <1>2, <1>4, <1>5
     DEF CommitRow, FileOK, RowOK, ObjectOK, MadeOK, ReadOK, TaskOK, Present
<1>7. ASSUME NEW f \in Calls \ {c} PROVE (RowOK(f) /\ ObjectOK(f) /\ MadeOK(f))'
  <2>1. calls'[f] = calls[f] /\ rows'[f] = rows[f] /\ FileOK(f)
    BY <1>1, <1>2, <1>4 DEF IInv, TypeOK
  <2> QED
    BY <2>1 DEF CommitRow, FileOK, RowOK, ObjectOK, MadeOK, Present
<1>8. rows' \in [Calls -> FileRow \cup {None}]
  BY <1>1, <1>3, <1>4 DEF TypeOK
<1> QED
  BY <1>1, <1>2, <1>6, <1>7, <1>8, OneCall DEF CommitRow, TypeOK

LEMMA LookUpInv == ASSUME IInv, NEW c \in Calls, LookUp(c) PROVE IInv'
<1>1. PICK f \in Calls : calls' = [calls EXCEPT ![c] = [op |-> "complete", of |-> f,
                                      pc |-> IF rows[f] = None THEN "thrown" ELSE "join"]]
  BY DEF LookUp
<1> DEFINE k == [op |-> "complete", of |-> f, pc |-> IF rows[f] = None THEN "thrown" ELSE "join"]
<1>2. k \in Completing /\ k \notin Storing
  BY DEF Completing, Storing, Over
<1>3. calls'[c] = k
  BY <1>1 DEF IInv, TypeOK
<1>4. (ReadOK(c) /\ TaskOK(c))'
  BY <1>3 DEF ReadOK, TaskOK
<1> QED
  BY <1>1, <1>2, <1>4, NewCall DEF LookUp, Call

LEMMA JoinPartsInv == ASSUME IInv, NEW c \in Calls, JoinParts(c) PROVE IInv'
<1>1. calls[c] \in Completing /\ FileOK(c) /\ TypeOK /\ calls[c].op = "complete"
  BY Shapes DEF JoinParts, IInv, TypeOK
<1>2. calls[c] \notin Storing /\ calls[c].of \in Calls
  BY <1>1 DEF Completing, Storing
<1>3. PICK f \in Calls, size \in 1 .. MaxSize :
        /\ f = calls[c].of /\ uploads[f] = "open"
        /\ objects' = [objects EXCEPT ![f] = [of |-> f, size |-> size]]
        /\ uploads' = [uploads EXCEPT ![f] = "over"]
  BY <1>2 DEF JoinParts
<1>4. PICK end \in Over : Go(c, end)
  BY DEF JoinParts
<1>5. IInv'
  <2>1. PICK k \in Call : /\ calls' = [calls EXCEPT ![c] = k] /\ k.op = "complete"
                          /\ k.pc = end /\ k \notin Storing
    BY <1>1, <1>2, <1>4, GoKeeps DEF JoinParts
  <2>2. FileOK(f) /\ calls[f].op = "init" /\ f # c /\ calls[f] \in Initiating
    BY <1>2, <1>3, Shapes DEF IInv, FileOK, ObjectOK, TypeOK, JoinParts
  <2>3. [of |-> f, size |-> size] \in Contents
    BY FilesAssumption DEF Contents
  <2>4. /\ objects' = [objects EXCEPT ![f] = [of |-> f, size |-> size]]
        /\ uploads' = [uploads EXCEPT ![f] = "over"]
        /\ UNCHANGED <<setting, rows, deleted>>
    BY <1>3 DEF JoinParts
  <2>5. calls'[c] = k /\ \A g \in Calls \ {c} : calls'[g] = calls[g]
    BY <1>1, <2>1 DEF TypeOK
  <2>6. /\ objects' \in [Calls -> Contents \cup {None}]
        /\ uploads' \in [Calls -> {"none", "open", "over"}]
        /\ objects'[f] # None /\ objects'[f].of = f
        /\ \A g \in Calls : objects[g] # None => objects'[g] # None
    BY <1>1, <1>2, <2>3, <2>4, NoneAssumption DEF TypeOK
  <2>7. ASSUME NEW g \in Calls \ {c} PROVE (RowOK(g) /\ ObjectOK(g) /\ MadeOK(g))'
    <3>1. FileOK(g) /\ calls'[g] = calls[g]
      BY <2>5 DEF IInv
    <3>2. g # f => objects'[g] = objects[g] /\ uploads'[g] = uploads[g]
      BY <1>1, <2>4 DEF TypeOK
    <3>3. RowOK(g)' /\ MadeOK(g)'
      BY <2>4, <2>6, <3>1 DEF FileOK, RowOK, MadeOK, Present
    <3>4. ObjectOK(g)'
      BY <2>2, <2>6, <3>1, <3>2 DEF FileOK, ObjectOK
    <3> QED
      BY <3>3, <3>4
  <2>8. FileOK(c)'
    <3>1. objects'[c] = objects[c] /\ uploads'[c] = uploads[c]
      BY <1>1, <2>2, <2>4 DEF TypeOK
    <3> QED
      BY <1>1, <2>1, <2>4, <2>5, <3>1 DEF JoinParts, FileOK, RowOK, ObjectOK, MadeOK, ReadOK, TaskOK
  <2> QED
    <3>1. rows' \in [Calls -> FileRow \cup {None}] /\ setting' \in Types /\ deleted' \subseteq Calls
      BY <1>1, <2>4 DEF TypeOK
    <3> QED
      BY <1>1, <2>1, <2>6, <2>7, <2>8, <3>1, OneCall
<1> QED
  BY <1>5

\* What a reader finds in a row stays there.
LEMMA AccessFileInv == ASSUME IInv, NEW c \in Calls, AccessFile(c) PROVE IInv'
<1>1. PICK f \in Calls : calls' = [calls EXCEPT ![c] =
         IF rows[f] = None THEN [op |-> "read", pc |-> "thrown"]
         ELSE [op |-> "read", pc |-> "get", of |-> f, row |-> rows[f]]]
  BY DEF AccessFile
<1>2. TypeOK /\ FileOK(f) /\ calls[c].op = "none"
  BY DEF IInv, AccessFile
<1>3. CASE rows[f] = None
  <2> DEFINE k == [op |-> "read", pc |-> "thrown"]
  <2>1. k \in Finished /\ k \notin Storing
    BY DEF Finished, Storing, Over
  <2>2. calls' = [calls EXCEPT ![c] = k] /\ calls'[c] = k
    BY <1>1, <1>2, <1>3 DEF TypeOK
  <2>3. (ReadOK(c) /\ TaskOK(c))'
    BY <2>2 DEF ReadOK, TaskOK
  <2> QED
    BY <2>1, <2>2, <2>3, NewCall DEF AccessFile, Call
<1>4. CASE rows[f] # None
  <2> DEFINE k == [op |-> "read", pc |-> "get", of |-> f, row |-> rows[f]]
  <2>1. k \in Reading /\ k \notin Storing
    BY <1>2, <1>4 DEF Reading, Storing, TypeOK
  <2>2. calls' = [calls EXCEPT ![c] = k] /\ calls'[c] = k
    BY <1>1, <1>2, <1>4 DEF TypeOK
  <2>3. f # c
    BY <1>2, <1>4, Fresh
  <2>4. calls'[f] = calls[f]
    BY <1>2, <2>2, <2>3 DEF TypeOK
  <2>5. rows[f].type = "S3" => calls[f].op = "init" \/ objects[f] # None
    <3> SUFFICES ASSUME rows[f].type = "S3", calls[f].op = "create" PROVE objects[f] # None
      BY <1>2, <1>4 DEF FileOK, RowOK
    <3> QED
      BY <1>2, <1>4 DEF FileOK, RowOK
  <2>6. ReadOK(c)'
    BY <1>2, <1>4, <2>2, <2>4, <2>5 DEF AccessFile, FileOK, RowOK, ReadOK
  <2>7. TaskOK(c)'
    BY <2>2 DEF TaskOK
  <2> QED
    BY <1>2, <2>1, <2>2, <2>6, <2>7, NewCall DEF AccessFile, Call
<1> QED
  BY <1>3, <1>4

LEMMA GetFileDataInv == ASSUME IInv, NEW c \in Calls, GetFileData(c) PROVE IInv'
<1>1. PICK end \in Over : calls' = [calls EXCEPT ![c] = [op |-> "read", pc |-> end]]
  BY DEF GetFileData
<1> DEFINE k == [op |-> "read", pc |-> end]
<1>2. k \in Finished
  BY DEF Finished
<1>3. TypeOK /\ FileOK(c) /\ calls[c].op = "read" /\ calls'[c] = k
  BY <1>1 DEF GetFileData, IInv, TypeOK
<1>4. k \notin Storing /\ end # "get"
  BY DEF Storing, Over
<1>5. FileOK(c)'
  BY <1>3, <1>4 DEF GetFileData, FileOK, RowOK, ObjectOK, MadeOK, ReadOK, TaskOK
<1> QED
  BY <1>1, <1>2, <1>3, <1>5, CallAlone DEF GetFileData, Call

LEMMA DeleteByIdInv == ASSUME IInv, NEW c \in Calls, DeleteById(c) PROVE IInv'
<1>1. PICK f \in Calls, end \in Over :
       /\ calls' = [calls EXCEPT ![c] = [op |-> "delete", pc |-> end]]
       /\ \/ /\ f \in Present /\ rows' = [rows EXCEPT ![f] = None]
             /\ deleted' = deleted \cup {f}
          \/ UNCHANGED <<rows, deleted>>
  BY DEF DeleteById
<1>2. TypeOK /\ calls[c].op = "none" /\ rows[c] = None /\ objects[c] = None /\ uploads[c] = "none"
  BY Fresh DEF DeleteById, IInv
<1> DEFINE k == [op |-> "delete", pc |-> end]
<1>3. CASE /\ f \in Present /\ rows' = [rows EXCEPT ![f] = None]
           /\ deleted' = deleted \cup {f}
  <2>1. k \in Finished /\ k \notin Storing
    BY DEF Finished, Over, Storing
  <2>2. calls' = [calls EXCEPT ![c] = k] /\ rows' = [rows EXCEPT ![f] = None]
        /\ deleted' = deleted \cup {f}
    BY <1>1, <1>3
  <2>3. calls'[c] = k /\ \A g \in Calls \ {c} : calls'[g] = calls[g]
    BY <1>2, <2>2 DEF TypeOK
  <2>4. rows' \in [Calls -> FileRow \cup {None}] /\ \A g \in Calls : rows'[g] \in {rows[g], None}
    BY <1>2, <2>2 DEF TypeOK
  <2>5. FileOK(c)'
    BY <1>2, <2>1, <2>3, <2>4 DEF DeleteById, FileOK, RowOK, ObjectOK, MadeOK, ReadOK, TaskOK
  <2>6. ASSUME NEW g \in Calls \ {c} PROVE (RowOK(g) /\ ObjectOK(g) /\ MadeOK(g))'
    <3>1. calls'[g] = calls[g] /\ FileOK(g)
      BY <2>3 DEF IInv
    <3>2. RowOK(g)' /\ ObjectOK(g)'
      BY <2>4, <3>1 DEF DeleteById, FileOK, RowOK, ObjectOK
    <3>3. rows[g] # None => rows'[g] # None \/ g \in deleted'
      BY <1>2, <2>2 DEF TypeOK
    <3>4. MadeOK(g)'
      BY <2>2, <3>1, <3>3 DEF FileOK, MadeOK, Present
    <3> QED
      BY <3>2, <3>4
  <2> QED
    BY <1>2, <2>1, <2>2, <2>4, <2>5, <2>6, OneCall DEF DeleteById, TypeOK, Call
<1>4. CASE UNCHANGED <<rows, deleted>>
  <2>1. k \in Finished /\ k \notin Storing
    BY DEF Finished, Over, Storing
  <2>2. calls' = [calls EXCEPT ![c] = k] /\ UNCHANGED <<rows, deleted>> /\ calls'[c] = k
    BY <1>1, <1>2, <1>4 DEF TypeOK
  <2>3. (ReadOK(c) /\ TaskOK(c))'
    BY <2>2 DEF ReadOK, TaskOK
  <2> QED
    BY <1>2, <2>1, <2>2, <2>3, NewCall DEF DeleteById, Call
<1> QED
  BY <1>1, <1>3, <1>4

LEMMA CompressFilesInv == ASSUME IInv, NEW c \in Calls, CompressFiles(c) PROVE IInv'
<1> DEFINE tasks == [f \in Present |-> [pc |-> "row", type |-> rows[f].type, size |-> 0]]
           k == [op |-> "compress", pc |-> "tasks", tasks |-> tasks]
<1>1. TypeOK /\ calls[c].op = "none"
  BY DEF CompressFiles, IInv
<1>2. tasks \in [Present -> TaskStep] /\ Present \in SUBSET Calls
  BY <1>1 DEF Present, TypeOK, FileRow, TaskStep, Waiting, Types
<1>3. k \in Compression /\ k \notin Storing
  BY <1>2 DEF Compression, Storing
<1>4. calls' = [calls EXCEPT ![c] = k] /\ calls'[c] = k
  BY <1>1 DEF CompressFiles, TypeOK
<1>5. ASSUME NEW f \in Calls PROVE Task(c, f)'.pc \notin {"key", "put"}
  BY <1>4 DEF Task
<1>6. (ReadOK(c) /\ TaskOK(c))'
  BY <1>4, <1>5 DEF ReadOK, TaskOK
<1> QED
  BY <1>1, <1>3, <1>4, <1>6, NewCall DEF CompressFiles, Call

LEMMA CallFailsInv == ASSUME IInv, NEW c \in Calls, CallFails(c) PROVE IInv'
<1>1. TypeOK /\ FileOK(c) /\ calls[c].op \in {"create", "init", "complete"}
  BY DEF CallFails, IInv
<1>2. \/ calls[c] \in Creating \/ calls[c] \in Storing
      \/ calls[c] \in Initiating \/ calls[c] \in Completing
  BY <1>1, Shapes DEF TypeOK
<1>3. PICK k \in Call : /\ calls' = [calls EXCEPT ![c] = k]
                        /\ k.op = calls[c].op /\ k.pc = "thrown"
  BY <1>1, <1>2, GoKeeps DEF CallFails, Over
<1>4. calls'[c] = k
  BY <1>1, <1>3 DEF TypeOK
<1>5. calls[c].pc # "answered"
  BY DEF CallFails, Over
<1>6. FileOK(c)'
  BY <1>1, <1>3, <1>4, <1>5 DEF CallFails, FileOK, RowOK, ObjectOK, MadeOK, ReadOK, TaskOK
<1> QED
  BY <1>1, <1>3, <1>6, CallAlone DEF CallFails

-----------------------------------------------------------------------------
(* The tasks of a compression *)

\* A task that has begun is one of a compression.
LEMMA TaskFacts ==
  ASSUME TypeOK, NEW c \in Compressing, NEW f \in Calls, Task(c, f).pc \in Waiting
  PROVE  /\ c \in Calls /\ calls[c] \in Compression
         /\ f \in DOMAIN calls[c].tasks /\ calls[c].tasks[f] \in TaskStep
         /\ Task(c, f) = calls[c].tasks[f]
<1>1. c \in Calls /\ calls[c] \in Compression
  BY Shapes DEF Compressing, TypeOK
<1>2. f \in DOMAIN calls[c].tasks
  BY DEF Task, Waiting
<1>3. PICK S \in SUBSET Calls : calls[c].tasks \in [S -> TaskStep]
  BY <1>1 DEF Compression
<1> QED
  BY <1>1, <1>2, <1>3 DEF Task

\* A step of a task leaves the other tasks as they are.
LEMMA StepKeeps ==
  ASSUME TypeOK, NEW c \in Compressing, NEW f \in Calls, Task(c, f).pc \in Waiting,
         NEW task \in TaskStep, Step(c, f, task)
  PROVE  \E k \in Compression :
           /\ calls' = [calls EXCEPT ![c] = k]
           /\ Task(c, f)' = task
           /\ \A g \in Calls \ {f} : Task(c, g)' = Task(c, g)
<1>1. /\ c \in Calls /\ calls[c] \in Compression
      /\ f \in DOMAIN calls[c].tasks
  BY TaskFacts
<1> DEFINE tasks == [calls[c].tasks EXCEPT ![f] = task]
           k == [calls[c] EXCEPT !.tasks = tasks]
<1>2. calls' = [calls EXCEPT ![c] = k]
  BY DEF Step
<1>3. PICK S \in SUBSET Calls : calls[c].tasks \in [S -> TaskStep]
  BY <1>1 DEF Compression
<1>4. tasks \in [S -> TaskStep]
  BY <1>3
<1>5. k \in Compression /\ k.tasks = tasks
  BY <1>1, <1>4 DEF Compression
<1>6. calls'[c] = k
  BY <1>1, <1>2 DEF TypeOK
<1>7. Task(c, f)' = task
  BY <1>1, <1>3, <1>5, <1>6 DEF Task
<1>8. ASSUME NEW g \in Calls \ {f} PROVE Task(c, g)' = Task(c, g)
  BY <1>1, <1>3, <1>5, <1>6 DEF Task
<1> QED
  BY <1>2, <1>5, <1>7, <1>8

\* What is said of a compression, after a step of one of its tasks.
LEMMA TaskStepOK ==
  ASSUME IInv, NEW c \in Compressing, NEW f \in Calls, Task(c, f).pc \in Waiting,
         NEW task \in TaskStep, Step(c, f, task),
         \A g \in Calls : objects[g] # None => objects'[g] # None,
         task.pc \in {"key", "put"} => objects[f] # None
  PROVE  TaskOK(c)' /\ ReadOK(c)'
<1>1. TypeOK /\ c \in Calls /\ calls[c].op = "compress" /\ TaskOK(c)
  BY DEF IInv, FileOK, Compressing
<1>2. PICK k \in Compression :
           /\ calls' = [calls EXCEPT ![c] = k]
           /\ Task(c, f)' = task
           /\ \A g \in Calls \ {f} : Task(c, g)' = Task(c, g)
  BY <1>1, StepKeeps
<1>3. calls'[c].op = "compress"
  BY <1>1, <1>2 DEF TypeOK, Compression
<1>4. ASSUME NEW g \in Calls, Task(c, g)'.pc \in {"key", "put"} PROVE objects'[g] # None
  BY <1>1, <1>2, <1>4 DEF TaskOK
<1> QED
  BY <1>3, <1>4 DEF TaskOK, ReadOK

LEMMA TaskAlone ==
  ASSUME IInv, NEW c \in Compressing, NEW f \in Calls, Task(c, f).pc \in Waiting,
         NEW task \in TaskStep, Step(c, f, task),
         UNCHANGED <<setting, rows, objects, uploads, deleted>>,
         task.pc \in {"key", "put"} => objects[f] # None
  PROVE  IInv'
<1>1. TypeOK /\ c \in Calls /\ calls[c].op = "compress" /\ FileOK(c)
  BY DEF IInv, Compressing
<1>2. PICK k \in Compression : calls' = [calls EXCEPT ![c] = k]
  BY <1>1, StepKeeps
<1>3. calls'[c].op = "compress" /\ k.op = "compress" /\ k \notin Storing /\ calls'[c] = k
  BY <1>1, <1>2 DEF TypeOK, Compression, Storing
<1>4. TaskOK(c)' /\ ReadOK(c)'
  BY TaskStepOK
<1>5. FileOK(c)'
  BY <1>1, <1>3, <1>4 DEF FileOK, RowOK, ObjectOK, MadeOK
<1> QED
  BY <1>1, <1>2, <1>3, <1>5, CallAlone DEF Call

LEMMA ReadRowInv == ASSUME IInv, NEW c \in Compressing, NEW f \in Calls, ReadRow(c, f) PROVE IInv'
<1>1. TypeOK /\ FileOK(f) /\ Task(c, f).pc \in Waiting /\ Task(c, f) \in TaskStep
  BY TaskFacts DEF ReadRow, Waiting, IInv
<1>2. CASE rows[f] = None
  <2>1. [Task(c, f) EXCEPT !.pc = "failed"] \in TaskStep
    BY <1>1 DEF TaskStep
  <2> QED
    BY <1>1, <1>2, <2>1, TaskAlone DEF ReadRow, TaskStep
<1>3. CASE rows[f] # None /\ rows[f].type = "S3"
  <2>1. [Task(c, f) EXCEPT !.pc = "get"] \in TaskStep
    BY <1>1 DEF TaskStep, Waiting
  <2> QED
    BY <1>1, <1>3, <2>1, TaskAlone DEF ReadRow, TaskStep
<1>4. CASE rows[f] # None /\ rows[f].type # "S3"
  <2>1. rows[f].data \in Contents
    BY <1>1, <1>4 DEF FileOK, RowOK, TypeOK, FileRow
  <2>2. Shrink(rows[f].data.size) \in Nat
    BY <2>1 DEF Contents, Shrink
  <2>3. [Task(c, f) EXCEPT !.pc = "update", !.size = Shrink(rows[f].data.size)] \in TaskStep
    BY <1>1, <2>2 DEF TaskStep, Waiting
  <2> QED
    BY <1>1, <1>4, <2>3, TaskAlone DEF ReadRow, TaskStep
<1> QED
  BY <1>2, <1>3, <1>4

LEMMA GetObjectInv == ASSUME IInv, NEW c \in Compressing, NEW f \in Calls, GetObject(c, f) PROVE IInv'
<1>1. TypeOK /\ Task(c, f).pc \in Waiting /\ Task(c, f) \in TaskStep
  BY TaskFacts DEF GetObject, Waiting, IInv
<1>2. CASE objects[f] = None
  <2>1. [Task(c, f) EXCEPT !.pc = "failed"] \in TaskStep
    BY <1>1 DEF TaskStep
  <2> QED
    BY <1>1, <1>2, <2>1, TaskAlone DEF GetObject, TaskStep
<1>3. CASE objects[f] # None
  <2>1. Shrink(objects[f].size) \in Nat
    BY <1>1, <1>3 DEF TypeOK, Contents, Shrink
  <2>2. [Task(c, f) EXCEPT !.pc = "key", !.size = Shrink(objects[f].size)] \in TaskStep
    BY <1>1, <2>1 DEF TaskStep, Waiting
  <2> QED
    BY <1>1, <1>3, <2>2, TaskAlone DEF GetObject, TaskStep
<1> QED
  BY <1>2, <1>3

LEMMA ReadKeyInv == ASSUME IInv, NEW c \in Compressing, NEW f \in Calls, ReadKey(c, f) PROVE IInv'
<1>1. TypeOK /\ Task(c, f).pc \in Waiting /\ Task(c, f) \in TaskStep /\ Task(c, f).pc = "key"
  BY TaskFacts DEF ReadKey, Waiting, IInv
<1>2. objects[f] # None
  BY <1>1 DEF IInv, FileOK, TaskOK, Compressing
<1> DEFINE task == [Task(c, f) EXCEPT !.pc = IF rows[f] = None THEN "failed" ELSE "put"]
<1>3. task \in TaskStep
  BY <1>1 DEF TaskStep, Waiting
<1> QED
  BY <1>1, <1>2, <1>3, TaskAlone DEF ReadKey

LEMMA TaskFailsInv == ASSUME IInv, NEW c \in Compressing, NEW f \in Calls, TaskFails(c, f) PROVE IInv'
<1>1. TypeOK /\ Task(c, f).pc \in Waiting /\ Task(c, f) \in TaskStep
  BY TaskFacts DEF TaskFails, IInv
<1> DEFINE task == [Task(c, f) EXCEPT !.pc = IF @ \in {"put", "update"} THEN "torn" ELSE "failed"]
<1>2. task \in TaskStep /\ task.pc \notin {"key", "put"}
  BY <1>1 DEF TaskStep, Waiting
<1> QED
  BY <1>1, <1>2, TaskAlone DEF TaskFails

LEMMA OverwriteInv == ASSUME IInv, NEW c \in Compressing, NEW f \in Calls, Overwrite(c, f) PROVE IInv'
<1>1. /\ TypeOK /\ c \in Calls /\ calls[c].op = "compress" /\ FileOK(c) /\ FileOK(f)
      /\ Task(c, f).pc \in Waiting /\ Task(c, f) \in TaskStep
  BY TaskFacts DEF Overwrite, Waiting, IInv, Compressing
<1>2. objects[f] # None /\ f # c
  BY <1>1 DEF FileOK, TaskOK, ObjectOK, Overwrite
<1> DEFINE task == [Task(c, f) EXCEPT !.pc = "update"]
<1>3. task \in TaskStep /\ task.pc = "update"
  BY <1>1 DEF TaskStep, Waiting
<1>4. [of |-> f, size |-> Task(c, f).size] \in Contents
  BY <1>1 DEF TaskStep, Contents
<1>5. /\ objects' \in [Calls -> Contents \cup {None}]
      /\ objects'[f] # None /\ objects'[f].of = f
      /\ \A g \in Calls \ {f} : objects'[g] = objects[g]
  BY <1>1, <1>4, NoneAssumption DEF Overwrite, TypeOK
<1>6. PICK k \in Compression : calls' = [calls EXCEPT ![c] = k]
  BY <1>1, <1>3, StepKeeps DEF Overwrite
<1>7. calls'[c] = k /\ k.op = "compress" /\ k \notin Storing
      /\ \A g \in Calls \ {c} : calls'[g] = calls[g]
  BY <1>1, <1>6 DEF TypeOK, Compression, Storing
<1>8. TaskOK(c)' /\ ReadOK(c)'
  BY <1>1, <1>3, <1>5, TaskStepOK DEF Overwrite
<1>9. FileOK(c)'
  BY <1>1, <1>2, <1>5, <1>7, <1>8 DEF Overwrite, FileOK, RowOK, ObjectOK, MadeOK
<1>10. ASSUME NEW g \in Calls \ {c} PROVE (RowOK(g) /\ ObjectOK(g) /\ MadeOK(g))'
  <2>1. FileOK(g) /\ calls'[g] = calls[g]
    BY <1>7 DEF IInv
  <2>2. RowOK(g)' /\ MadeOK(g)'
    BY <1>5, <2>1 DEF Overwrite, FileOK, RowOK, MadeOK, Present
  <2>3. ObjectOK(g)'
    BY <1>2, <1>5, <2>1 DEF Overwrite, FileOK, ObjectOK
  <2> QED
    BY <2>2, <2>3
<1> QED
  BY <1>1, <1>5, <1>6, <1>7, <1>9, <1>10, OneCall DEF Overwrite, TypeOK, Call

LEMMA UpdateRowInv == ASSUME IInv, NEW c \in Compressing, NEW f \in Calls, UpdateRow(c, f) PROVE IInv'
<1>1. /\ TypeOK /\ c \in Calls /\ calls[c].op = "compress" /\ FileOK(c) /\ FileOK(f)
      /\ Task(c, f).pc \in Waiting /\ Task(c, f) \in TaskStep
  BY TaskFacts DEF UpdateRow, Waiting, IInv, Compressing
<1>0. PICK end \in {"done", "torn"} : Step(c, f, [Task(c, f) EXCEPT !.pc = end])
  BY DEF UpdateRow
<1> DEFINE task == [Task(c, f) EXCEPT !.pc = end]
<1>2. task \in TaskStep /\ task.pc = end /\ Step(c, f, task)
  BY <1>0, <1>1 DEF TaskStep
<1>3. PICK k \in Compression : calls' = [calls EXCEPT ![c] = k]
  BY <1>1, <1>2, StepKeeps DEF UpdateRow
<1>4. calls'[c] = k /\ k.op = "compress" /\ k \notin Storing
      /\ \A g \in Calls \ {c} : calls'[g] = calls[g]
  BY <1>1, <1>3 DEF TypeOK, Compression, Storing
<1>5. TaskOK(c)' /\ ReadOK(c)'
  BY <1>1, <1>2, TaskStepOK DEF UpdateRow
<1> DEFINE data == IF Task(c, f).type = "S3" THEN rows[f].data ELSE [of |-> f, size |-> Task(c, f).size]
           row == [rows[f] EXCEPT !.size = Task(c, f).size, !.data = data]
<1>6. rows[f] # None =>
        /\ row \in FileRow /\ row.type = rows[f].type /\ rows' = [rows EXCEPT ![f] = row]
        /\ row.type = "Database" => row.data # None /\ row.data.of = f
  <2> SUFFICES ASSUME rows[f] # None
               PROVE /\ row \in FileRow /\ row.type = rows[f].type /\ rows' = [rows EXCEPT ![f] = row]
                     /\ row.type = "Database" => row.data # None /\ row.data.of = f
    OBVIOUS
  <2>1. rows[f] \in FileRow /\ Task(c, f).size \in Nat
    BY <1>1 DEF TypeOK, TaskStep
  <2>2. [of |-> f, size |-> Task(c, f).size] \in Contents
    BY <2>1 DEF Contents
  <2>3. data \in Contents \cup {None}
    BY <2>1, <2>2 DEF FileRow
  <2>4. row \in FileRow /\ row.type = rows[f].type /\ row.data = data
    BY <2>1, <2>3 DEF FileRow
  <2>5. rows' = [rows EXCEPT ![f] = row]
    BY <1>1, <2>1 DEF UpdateRow, SizeNow, TypeOK, FileRow
  <2>6. row.type = "Database" => row.data # None /\ row.data.of = f
    BY <1>1, <2>2, <2>4, NoneAssumption DEF FileOK, RowOK
  <2> QED
    BY <2>4, <2>5, <2>6
<1>7. rows[f] = None => rows' = rows
  BY DEF UpdateRow
<1>8. /\ rows' \in [Calls -> FileRow \cup {None}]
      /\ \A g \in Calls : rows'[g] = None <=> rows[g] = None
      /\ \A g \in Calls \ {f} : rows'[g] = rows[g]
  BY <1>1, <1>6, <1>7, NoneAssumption DEF TypeOK
<1>9. ASSUME NEW g \in Calls PROVE (RowOK(g) /\ ObjectOK(g) /\ MadeOK(g))'
  <2>1. FileOK(g) /\ calls'[g].op = calls[g].op
    BY <1>1, <1>4 DEF IInv
  <2>2. calls[g].op \in {"create", "init"} => calls'[g] = calls[g]
    BY <1>1, <1>4
  <2>3. RowOK(g)'
    <3>1. CASE g = f /\ rows[f] # None
      BY <1>1, <1>6, <2>1, <2>2, <3>1 DEF UpdateRow, FileOK, RowOK, TypeOK
    <3>2. CASE g # f \/ rows[f] = None
      BY <1>7, <1>8, <2>1, <2>2, <3>2 DEF UpdateRow, FileOK, RowOK
    <3> QED
      BY <3>1, <3>2
  <2>4. ObjectOK(g)'
    BY <1>4, <2>1, <2>2 DEF UpdateRow, FileOK, ObjectOK
  <2>5. MadeOK(g)'
    BY <1>8, <2>1, <2>2 DEF UpdateRow, FileOK, MadeOK, Present
  <2> QED
    BY <2>3, <2>4, <2>5
<1> QED
  BY <1>1, <1>3, <1>4, <1>5, <1>8, <1>9, OneCall DEF UpdateRow, TypeOK, FileOK, Call

-----------------------------------------------------------------------------
(* The theorem *)

LEMMA Inductive == IInv /\ [Next]_vars => IInv'
<1> SUFFICES ASSUME IInv, [Next]_vars PROVE IInv'
  OBVIOUS
<1>1. CASE SetStorage
  BY <1>1, StutterInv DEF SetStorage, Types
<1>2. CASE UNCHANGED vars
  BY <1>2, StutterInv DEF vars, IInv, TypeOK
<1>3. ASSUME NEW c \in Calls,
             \/ Create(c) \/ ReadSetting(c) \/ PutObject(c) \/ CreateRow(c)
             \/ Initiate(c) \/ OpenUpload(c) \/ CommitRow(c)
             \/ LookUp(c) \/ JoinParts(c) \/ AccessFile(c) \/ GetFileData(c) \/ DeleteById(c)
             \/ CompressFiles(c) \/ CallFails(c)
      PROVE  IInv'
  BY <1>3, CreateInv, ReadSettingInv, PutObjectInv, CreateRowInv, InitiateInv, OpenUploadInv,
     CommitRowInv, LookUpInv, JoinPartsInv, AccessFileInv, GetFileDataInv, DeleteByIdInv,
     CompressFilesInv, CallFailsInv
<1>4. ASSUME NEW c \in Compressing, NEW f \in Calls,
             \/ ReadRow(c, f) \/ GetObject(c, f) \/ ReadKey(c, f) \/ Overwrite(c, f)
             \/ UpdateRow(c, f) \/ TaskFails(c, f)
      PROVE  IInv'
  BY <1>4, ReadRowInv, GetObjectInv, ReadKeyInv, OverwriteInv, UpdateRowInv, TaskFailsInv
<1> QED
  BY <1>1, <1>2, <1>3, <1>4 DEF Next

LEMMA Implied == IInv => FileIsWhereItsRowSays
<1> SUFFICES ASSUME IInv, NEW f \in Calls
             PROVE /\ f \in Present /\ Uploaded(f) => Content(f) # None /\ Content(f).of = f
                   /\ calls[f].op \in {"create", "init"} /\ calls[f].pc = "answered" => f \in Present \cup deleted
                   /\ objects[f] # None /\ f \notin Present => f \in deleted \/ calls[f].pc # "answered"
                   /\ calls[f].op = "read" /\ calls[f].pc = "get" /\ Uploaded(calls[f].of) =>
                        FileData(f) # None /\ FileData(f).of = calls[f].of
  BY DEF FileIsWhereItsRowSays
<1>1. TypeOK /\ FileOK(f)
  BY DEF IInv
<1>2. f \in Present /\ Uploaded(f) => Content(f) # None /\ Content(f).of = f
  <2> SUFFICES ASSUME rows[f] # None, Uploaded(f) PROVE Content(f) # None /\ Content(f).of = f
    BY DEF Present
  <2>1. CASE rows[f].type = "Database"
    BY <1>1, <2>1 DEF FileOK, RowOK, Content
  <2>2. CASE rows[f].type = "S3"
    <3>1. CASE calls[f].op = "create"
      <4>1. objects[f] # None
        BY <1>1, <2>2, <3>1 DEF FileOK, RowOK
      <4> QED
        BY <1>1, <2>2, <4>1 DEF FileOK, ObjectOK, Content
    <3>2. CASE uploads[f] = "over"
      BY <1>1, <2>2, <3>2 DEF FileOK, ObjectOK, Content
    <3> QED
      BY <3>1, <3>2 DEF Uploaded
  <2> QED
    BY <1>1, <2>1, <2>2 DEF TypeOK, FileRow
<1>3. calls[f].op \in {"create", "init"} /\ calls[f].pc = "answered" => f \in Present \cup deleted
  BY <1>1 DEF FileOK, MadeOK
<1>4. objects[f] # None /\ f \notin Present => f \in deleted \/ calls[f].pc # "answered"
  BY <1>1 DEF FileOK, ObjectOK, MadeOK
<1>5. ASSUME calls[f].op = "read", calls[f].pc = "get", Uploaded(calls[f].of)
      PROVE  FileData(f) # None /\ FileData(f).of = calls[f].of
  <2> DEFINE g == calls[f].of
  <2>1. calls[f] \in Reading
    BY <1>1, <1>5, Shapes DEF TypeOK
  <2>2. g \in Calls /\ calls[f].row \in FileRow /\ FileOK(g)
    BY <2>1 DEF Reading, IInv
  <2>3. CASE calls[f].row.type = "Database"
    BY <1>1, <1>5, <2>3 DEF FileOK, ReadOK, FileData
  <2>4. CASE calls[f].row.type = "S3"
    <3>1. objects[g] # None
      BY <1>1, <1>5, <2>2, <2>4 DEF FileOK, ReadOK, ObjectOK, Uploaded
    <3>2. objects[g].of = g
      BY <2>2, <3>1 DEF FileOK, ObjectOK
    <3> QED
      BY <2>4, <3>1, <3>2 DEF FileData
  <2> QED
    BY <2>2, <2>3, <2>4 DEF FileRow
<1> QED
  BY <1>2, <1>3, <1>4, <1>5

\* A file that has been uploaded can be read where its row says, whatever the
\* setting becomes meanwhile, an answered call has made a file, and no object is
\* without a row but those of deleted files and of calls that were not answered:
\* for any number of calls, of any size, in any order.
THEOREM FilesAreWhereTheirRowsSay == Spec => []FileIsWhereItsRowSays
<1>1. Init => IInv
  BY InitInv
<1>2. IInv /\ [Next]_vars => IInv'
  BY Inductive
<1>3. IInv => FileIsWhereItsRowSays
  BY Implied
<1> QED
  BY <1>1, <1>2, <1>3, PTL DEF Spec
-----------------------------------------------------------------------------
(* The sizes of rows and objects *)

\* Until a file has been created, an object of it has the size of the call.
Made(f) == calls[f].op \in {"create", "init"} /\ calls[f].pc \in Over

UnmadeSize(f) ==
  calls[f].op = "create" /\ calls[f].pc \notin Over /\ objects[f] # None =>
    objects[f].size = calls[f].size

\* An upload that has not been joined has no object.
Unjoined(f) ==
  calls[f].op = "init" =>
    /\ calls[f].pc = "open" => uploads[f] = "none"
    /\ uploads[f] # "over" => objects[f] = None

\* A task is of a file that has been made, knows where it is stored, and knows
\* of the object that it has written.
StoredType(f) == IF calls[f].op = "init" THEN "S3" ELSE calls[f].type

TaskOfMade(c, f) ==
  Task(c, f).pc # "none" =>
    /\ Made(f) /\ Task(c, f).type = StoredType(f)
    /\ Task(c, f).pc \in {"update", "done"} /\ Task(c, f).type = "S3" => objects[f] # None

\* What holds as long as no two calls of compressFiles overlap: the size that a
\* task is about to write in the row is that of the object it has put.
TaskSize(c, f) ==
  Task(c, f).pc = "update" /\ Task(c, f).type = "S3" => objects[f].size = Task(c, f).size

OneCompresses ==
  \A c, d \in Compressing, f, g \in Calls :
    Task(c, f).pc \in Waiting /\ Task(d, g).pc \in Waiting => c = d

RowSize(f) ==
  f \in Present /\ Measured(f) /\ (\A c \in Compressing : Task(c, f).pc \notin {"update", "torn"}) =>
    rows[f].size = Content(f).size

Sizes ==
  /\ \A f \in Calls : UnmadeSize(f) /\ Unjoined(f)
  /\ \A c \in Compressing, f \in Calls : TaskOfMade(c, f)
  /\ ~contended =>
       /\ OneCompresses
       /\ \A c \in Compressing, f \in Calls : TaskSize(c, f)
       /\ \A f \in Calls : RowSize(f)

SInv == IInv /\ Sizes

LEMMA SizesInit == Init => Sizes
<1> SUFFICES ASSUME Init PROVE Sizes
  OBVIOUS
<1>1. \A f \in Calls : calls[f].op = "none" /\ rows[f] = None
  BY DEF Init
<1>2. Compressing = {} /\ Present = {}
  BY <1>1 DEF Compressing, Present
<1> QED
  BY <1>1, <1>2 DEF Sizes, UnmadeSize, Unjoined, OneCompresses, RowSize

LEMMA SizesStutter ==
  ASSUME SInv, UNCHANGED <<rows, objects, uploads, calls, contended>>
  PROVE  Sizes'
BY DEF SInv, Sizes, UnmadeSize, Unjoined, TaskOfMade, Made, StoredType, TaskSize, OneCompresses,
       RowSize, Measured, Content, Present, Compressing, Task

\* The compressions go on as they are when another call changes.
LEMMA OtherTasks ==
  ASSUME TypeOK, NEW c \in Calls, NEW k, calls' = [calls EXCEPT ![c] = k],
         calls[c].op # "compress", k.op # "compress"
  PROVE  Compressing' = Compressing /\ \A d \in Compressing, f \in Calls : Task(d, f)' = Task(d, f)
<1>1. calls'[c] = k /\ \A d \in Calls \ {c} : calls'[d] = calls[d]
  BY DEF TypeOK
<1>2. c \notin Compressing /\ Compressing' = Compressing
  BY <1>1 DEF Compressing
<1>3. ASSUME NEW d \in Compressing, NEW f \in Calls
      PROVE  Task(d, f)' = Task(d, f)
  <2>1. calls'[d] = calls[d]
    BY <1>1, <1>2 DEF Compressing
  <2> QED
    BY <2>1 DEF Task
<1> QED
  BY <1>2, <1>3

\* A call that makes no file yet goes on, touching the files of T: these it
\* has to account for, and no object of a file that has been made changes.
LEMMA CallSizes ==
  ASSUME SInv, NEW c \in Calls, NEW k \in Call, calls' = [calls EXCEPT ![c] = k],
         calls[c].op # "compress", k.op # "compress", ~Made(c), contended' = contended,
         NEW T \in SUBSET Calls, c \in T,
         \A f \in Calls \ T : rows'[f] = rows[f] /\ objects'[f] = objects[f] /\ uploads'[f] = uploads[f],
         \A f \in Calls : Made(f) /\ objects[f] # None => objects'[f] = objects[f],
         \A f \in T : (UnmadeSize(f) /\ Unjoined(f))' /\ (~contended => RowSize(f)')
  PROVE  Sizes'
<1>1. TypeOK /\ Sizes
  BY DEF SInv, IInv
<1>2. calls'[c] = k /\ \A d \in Calls \ {c} : calls'[d] = calls[d]
  BY <1>1 DEF TypeOK
<1>3. Compressing' = Compressing /\ \A d \in Compressing, f \in Calls : Task(d, f)' = Task(d, f)
  BY <1>1, OtherTasks
<1>4. ASSUME NEW f \in Calls \ T PROVE (UnmadeSize(f) /\ Unjoined(f))' /\ (~contended => RowSize(f)')
  <2>1. /\ calls'[f] = calls[f] /\ rows'[f] = rows[f] /\ objects'[f] = objects[f]
        /\ uploads'[f] = uploads[f]
    BY <1>2
  <2>2. (UnmadeSize(f) /\ Unjoined(f))'
    BY <1>1, <2>1 DEF Sizes, UnmadeSize, Unjoined, Present
  <2>3. ~contended => RowSize(f)'
    BY <1>1, <1>3, <2>1 DEF Sizes, RowSize, Measured, Content, Present
  <2> QED
    BY <2>2, <2>3
<1>5. ASSUME NEW d \in Compressing, NEW f \in Calls
      PROVE  TaskOfMade(d, f)' /\ (~contended => TaskSize(d, f)')
  <2>1. TaskOfMade(d, f) /\ (~contended => TaskSize(d, f)) /\ Task(d, f)' = Task(d, f)
    BY <1>1, <1>3 DEF Sizes
  <2>2. Task(d, f).pc # "none" => Made(f) /\ f # c /\ calls'[f] = calls[f]
    BY <1>2, <2>1 DEF TaskOfMade
  <2>3. Task(d, f).pc # "none" => Made(f)' /\ StoredType(f)' = StoredType(f)
    BY <2>2 DEF Made, StoredType
  <2>4. Task(d, f).pc \in {"update", "done"} /\ Task(d, f).type = "S3" =>
          objects'[f] = objects[f] /\ objects[f] # None
    BY <2>1, <2>2 DEF TaskOfMade
  <2>5. TaskOfMade(d, f)'
    BY <2>1, <2>3, <2>4 DEF TaskOfMade
  <2>6. ~contended => TaskSize(d, f)'
    BY <2>1, <2>4 DEF TaskSize
  <2> QED
    BY <2>5, <2>6
<1>6. ~contended => OneCompresses'
  BY <1>1, <1>3 DEF Sizes, OneCompresses
<1> QED
  BY <1>3, <1>4, <1>5, <1>6 DEF Sizes

\* A call that goes on keeps what it does and the size of its file.
LEMMA GoSize ==
  ASSUME TypeOK, NEW c \in Calls, NEW pc, Go(c, pc),
         calls[c] \in Creating \cup Storing \cup Initiating \cup Completing
  PROVE  /\ calls'[c].op = calls[c].op /\ calls'[c].pc = pc
         /\ calls[c].op # "complete" => calls'[c].size = calls[c].size
         /\ \A d \in Calls \ {c} : calls'[d] = calls[d]
<1>1. calls'[c] = [calls[c] EXCEPT !.pc = pc] /\ \A d \in Calls \ {c} : calls'[d] = calls[d]
  BY DEF Go, TypeOK
<1>2. CASE calls[c] \in Creating
  BY <1>1, <1>2 DEF Creating
<1>3. CASE calls[c] \in Storing
  BY <1>1, <1>3 DEF Storing
<1>4. CASE calls[c] \in Initiating
  BY <1>1, <1>4 DEF Initiating
<1>5. CASE calls[c] \in Completing
  BY <1>1, <1>5 DEF Completing
<1> QED
  BY <1>1, <1>2, <1>3, <1>4, <1>5

\* A call that leaves rows and objects alone.
LEMMA CallQuiet ==
  ASSUME SInv, NEW c \in Calls, NEW k \in Call, calls' = [calls EXCEPT ![c] = k],
         calls[c].op # "compress", k.op # "compress", ~Made(c),
         UNCHANGED <<rows, objects, contended>>,
         \A f \in Calls \ {c} : uploads'[f] = uploads[f],
         uploads'[c] = uploads[c] \/ (calls[c].op = "init" /\ calls[c].pc = "open" /\ k.pc # "open"),
         calls[c].op = "none" \/ k.op = calls[c].op,
         k.op = "init" /\ k.pc = "open" => calls[c].op = "none",
         calls[c].op \in {"create", "init"} => k.size = calls[c].size
  PROVE  Sizes'
<1>1. /\ TypeOK /\ FileOK(c) /\ UnmadeSize(c) /\ Unjoined(c)
      /\ calls[c].op = "none" => objects[c] = None /\ uploads[c] = "none"
  BY Fresh DEF SInv, IInv, Sizes
<1>2. rows[c] = None /\ calls'[c] = k
  BY <1>1 DEF FileOK, RowOK, Made, TypeOK
<1>3. UnmadeSize(c)'
  BY <1>1, <1>2 DEF UnmadeSize, Made
<1>4. Unjoined(c)' /\ RowSize(c)'
  BY <1>1, <1>2 DEF Unjoined, Present, RowSize
<1>5. {c} \in SUBSET Calls /\ c \in {c}
  OBVIOUS
<1>6. \A f \in {c} : (UnmadeSize(f) /\ Unjoined(f))' /\ (~contended => RowSize(f)')
  BY <1>3, <1>4
<1>7. \A f \in Calls \ {c} : rows'[f] = rows[f] /\ objects'[f] = objects[f] /\ uploads'[f] = uploads[f]
  OBVIOUS
<1>8. \A f \in Calls : Made(f) /\ objects[f] # None => objects'[f] = objects[f]
  OBVIOUS
<1> QED
  BY <1>5, <1>6, <1>7, <1>8, CallSizes

LEMMA CreateSizes == ASSUME SInv, NEW c \in Calls, Create(c) \/ Initiate(c) PROVE Sizes'
<1>1. PICK u \in Users, size \in 1 .. MaxSize :
        \/ calls' = [calls EXCEPT ![c] = [op |-> "create", pc |-> "setting", user |-> u, size |-> size]]
        \/ calls' = [calls EXCEPT ![c] = [op |-> "init", pc |-> "open", user |-> u, size |-> size]]
  BY DEF Create, Initiate
<1>2. calls[c].op = "none" /\ ~Made(c) /\ UNCHANGED <<rows, objects, contended, uploads>>
  BY DEF Create, Initiate, Made
<1>3. size \in Nat
  BY FilesAssumption
<1>4. /\ [op |-> "create", pc |-> "setting", user |-> u, size |-> size] \in Call
      /\ [op |-> "init", pc |-> "open", user |-> u, size |-> size] \in Call
  BY <1>3 DEF Call, Creating, Initiating
<1> QED
  BY <1>1, <1>2, <1>4, CallQuiet

LEMMA ReadSettingSizes == ASSUME SInv, NEW c \in Calls, ReadSetting(c) PROVE Sizes'
<1> DEFINE k == [op |-> "create", user |-> calls[c].user, size |-> calls[c].size,
                 type |-> setting, pc |-> IF setting = "S3" THEN "put" ELSE "row"]
<1>1. calls[c] \in Creating /\ TypeOK
  BY Shapes DEF ReadSetting, SInv, IInv, TypeOK
<1>2. k \in Storing
  BY <1>1 DEF Creating, Storing, TypeOK, Types
<1>3. k \in Call /\ k.op = "create" /\ k.size = calls[c].size
  BY <1>2 DEF Call
<1>4. /\ calls[c].op = "create" /\ ~Made(c) /\ UNCHANGED <<rows, objects, contended, uploads>>
      /\ calls' = [calls EXCEPT ![c] = k]
  BY DEF ReadSetting, Made, Over
<1> HIDE DEF k
<1> QED
  BY <1>3, <1>4, CallQuiet

LEMMA ReadSizes ==
  ASSUME SInv, NEW c \in Calls, LookUp(c) \/ AccessFile(c) \/ GetFileData(c)
  PROVE  Sizes'
<1>1. TypeOK /\ UNCHANGED <<rows, objects, contended, uploads>> /\ ~Made(c)
  BY DEF LookUp, AccessFile, GetFileData, SInv, IInv, Made
<1>2. \E k \in Call : /\ calls' = [calls EXCEPT ![c] = k]
                      /\ k.op \in {"complete", "read"}
                      /\ calls[c].op = "none" \/ k.op = calls[c].op
  <2>1. CASE LookUp(c)
    <3>1. PICK f \in Calls :
            calls' = [calls EXCEPT ![c] = [op |-> "complete", of |-> f,
                                           pc |-> IF rows[f] = None THEN "thrown" ELSE "join"]]
      BY <2>1 DEF LookUp
    <3>2. [op |-> "complete", of |-> f, pc |-> IF rows[f] = None THEN "thrown" ELSE "join"] \in Completing
      BY DEF Completing, Over
    <3> QED
      BY <2>1, <3>1, <3>2 DEF LookUp, Call
  <2>2. CASE AccessFile(c)
    <3>1. PICK f \in Calls :
            calls' = [calls EXCEPT ![c] = IF rows[f] = None THEN [op |-> "read", pc |-> "thrown"]
                        ELSE [op |-> "read", pc |-> "get", of |-> f, row |-> rows[f]]]
      BY <2>2 DEF AccessFile
    <3>2. [op |-> "read", pc |-> "thrown"] \in Call
      BY DEF Call, Finished, Over
    <3>3. rows[f] # None => [op |-> "read", pc |-> "get", of |-> f, row |-> rows[f]] \in Reading
      BY <1>1 DEF Reading, TypeOK
    <3> QED
      BY <2>2, <3>1, <3>2, <3>3 DEF AccessFile, Call
  <2>3. CASE GetFileData(c)
    BY <2>3 DEF GetFileData, Call, Finished
  <2> QED
    BY <2>1, <2>2, <2>3
<1> QED
  BY <1>1, <1>2, CallQuiet DEF LookUp, AccessFile, GetFileData

LEMMA OpenUploadSizes == ASSUME SInv, NEW c \in Calls, OpenUpload(c) PROVE Sizes'
<1>1. TypeOK /\ calls[c].op = "init" /\ calls[c].pc = "open" /\ calls[c] \in Initiating
  BY Shapes DEF OpenUpload, SInv, IInv, TypeOK
<1>2. PICK k \in Call : calls' = [calls EXCEPT ![c] = k] /\ k.op = "init" /\ k.pc = "commit"
  BY <1>1, GoKeeps DEF OpenUpload
<1>3. calls'[c] = k /\ calls'[c].size = calls[c].size
  BY <1>1, <1>2, GoSize DEF OpenUpload, TypeOK
<1>4. \A f \in Calls \ {c} : uploads'[f] = uploads[f]
  BY <1>1 DEF OpenUpload, TypeOK
<1> QED
  BY <1>1, <1>2, <1>3, <1>4, CallQuiet DEF OpenUpload, Made, Over

LEMMA CallFailsSizes == ASSUME SInv, NEW c \in Calls, CallFails(c) PROVE Sizes'
<1>1. TypeOK /\ calls[c].op \in {"create", "init", "complete"} /\ ~Made(c)
  BY DEF CallFails, SInv, IInv, Made, Over
<1>2. \/ calls[c] \in Creating \/ calls[c] \in Storing
      \/ calls[c] \in Initiating \/ calls[c] \in Completing
  BY <1>1, Shapes DEF TypeOK
<1>3. PICK k \in Call : calls' = [calls EXCEPT ![c] = k] /\ k.op = calls[c].op /\ k.pc = "thrown"
  BY <1>1, <1>2, GoKeeps DEF CallFails, Over
<1>4. calls'[c] = k /\ (calls[c].op # "complete" => calls'[c].size = calls[c].size)
  BY <1>1, <1>2, <1>3, GoSize DEF CallFails, TypeOK
<1> QED
  BY <1>1, <1>3, <1>4, CallQuiet DEF CallFails

\* A call that touches its own file only.
LEMMA OwnFile ==
  ASSUME SInv, NEW c \in Calls, NEW k \in Call, calls' = [calls EXCEPT ![c] = k],
         calls[c].op # "compress", k.op # "compress", ~Made(c), contended' = contended,
         \A f \in Calls \ {c} : rows'[f] = rows[f] /\ objects'[f] = objects[f] /\ uploads'[f] = uploads[f],
         UnmadeSize(c)', Unjoined(c)', ~contended => RowSize(c)'
  PROVE  Sizes'
<1>1. {c} \in SUBSET Calls /\ c \in {c}
  OBVIOUS
<1>2. \A f \in {c} : (UnmadeSize(f) /\ Unjoined(f))' /\ (~contended => RowSize(f)')
  OBVIOUS
<1>3. \A f \in Calls : Made(f) /\ objects[f] # None => objects'[f] = objects[f]
  OBVIOUS
<1> QED
  BY <1>1, <1>2, <1>3, CallSizes

LEMMA PutObjectSizes == ASSUME SInv, NEW c \in Calls, PutObject(c) PROVE Sizes'
<1>1. /\ TypeOK /\ FileOK(c) /\ calls[c].op = "create" /\ calls[c].pc = "put"
      /\ calls[c] \in Storing
  BY Shapes DEF PutObject, SInv, IInv, TypeOK
<1>2. PICK k \in Call : calls' = [calls EXCEPT ![c] = k] /\ k.op = "create" /\ k.pc = "row"
  BY <1>1, GoKeeps DEF PutObject
<1>3. calls'[c] = k /\ calls'[c].size = calls[c].size
  BY <1>1, <1>2, GoSize DEF PutObject, TypeOK
<1>4. objects'[c].size = calls[c].size /\ \A f \in Calls \ {c} : objects'[f] = objects[f]
  BY <1>1 DEF PutObject, TypeOK
<1>5. UnmadeSize(c)' /\ Unjoined(c)'
  BY <1>2, <1>3, <1>4 DEF UnmadeSize, Unjoined
<1>6. RowSize(c)'
  BY <1>1, NoRow DEF RowSize, Present, PutObject, Over
<1> QED
  BY <1>1, <1>2, <1>4, <1>5, <1>6, OwnFile DEF PutObject, Made, Over

LEMMA CreateRowSizes == ASSUME SInv, NEW c \in Calls, CreateRow(c) PROVE Sizes'
<1>1. /\ TypeOK /\ FileOK(c) /\ UnmadeSize(c) /\ calls[c].op = "create" /\ calls[c].pc = "row"
      /\ calls[c] \in Storing /\ ~Made(c)
  BY Shapes DEF CreateRow, SInv, IInv, TypeOK, Sizes, Made, Over
<1>2. PICK k \in Call : calls' = [calls EXCEPT ![c] = k] /\ k.op = "create" /\ k.pc \in Over
  <2>1. PICK end \in Over : Go(c, end)
    BY DEF CreateRow
  <2> QED
    BY <1>1, <2>1, GoKeeps DEF Over
<1>3. calls'[c] = k
  BY <1>1, <1>2 DEF TypeOK
<1> DEFINE data == IF calls[c].type = "S3" THEN None ELSE [of |-> c, size |-> calls[c].size]
           row == Row(calls[c].type, calls[c].user, data, calls[c].size)
<1>4. rows'[c] = row /\ \A f \in Calls \ {c} : rows'[f] = rows[f]
  BY <1>1 DEF CreateRow, Storage, TypeOK
<1>5. row.type = calls[c].type /\ row.size = calls[c].size /\ row.data = data
  BY DEF Row
<1>6. calls[c].type = "S3" => objects[c].size = calls[c].size
  BY <1>1 DEF FileOK, ObjectOK, UnmadeSize, Made
<1>7. calls[c].type \in Types
  BY <1>1 DEF Storing
<1>8. RowSize(c)'
  <2>1. rows'[c].size = calls[c].size
    BY <1>4, <1>5
  <2>2. Content(c)'.size = calls[c].size
    BY <1>4, <1>5, <1>6, <1>7 DEF Content, CreateRow, Types
  <2> QED
    BY <2>1, <2>2 DEF RowSize
<1>9. UnmadeSize(c)' /\ Unjoined(c)'
  BY <1>2, <1>3 DEF UnmadeSize, Unjoined
<1> QED
  BY <1>1, <1>2, <1>4, <1>8, <1>9, OwnFile DEF CreateRow

LEMMA CommitRowSizes == ASSUME SInv, NEW c \in Calls, CommitRow(c) PROVE Sizes'
<1>1. /\ TypeOK /\ FileOK(c) /\ UnmadeSize(c) /\ Unjoined(c)
      /\ calls[c].op = "init" /\ calls[c].pc = "commit" /\ calls[c] \in Initiating /\ ~Made(c)
  BY Shapes DEF CommitRow, SInv, IInv, TypeOK, Sizes, Made, Over
<1>2. PICK k \in Call : calls' = [calls EXCEPT ![c] = k] /\ k.op = "init" /\ k.pc \in Over
  <2>1. PICK end \in Over : Go(c, end)
    BY DEF CommitRow
  <2> QED
    BY <1>1, <2>1, GoKeeps DEF CommitRow, Over
<1>3. calls'[c] = k
  BY <1>1, <1>2 DEF TypeOK
<1>4. /\ rows'[c] = Row("S3", calls[c].user, None, calls[c].size)
      /\ \A f \in Calls \ {c} : rows'[f] = rows[f]
      /\ objects' = objects /\ uploads' = uploads
  BY <1>1 DEF CommitRow, TypeOK
<1>6. UnmadeSize(c)' /\ Unjoined(c)'
  BY <1>1, <1>2, <1>3, <1>4 DEF UnmadeSize, Unjoined, Over
<1>7. RowSize(c)'
  <2>1. ~Measured(c)'
    <3>1. ASSUME NEW d \in Compressing' PROVE Task(d, c)'.pc # "done"
      <4>1. d \in Compressing /\ Task(d, c)' = Task(d, c)
        BY <1>1, <1>2, OtherTasks
      <4>2. TaskOfMade(d, c)
        BY <4>1 DEF SInv, Sizes
      <4> QED
        BY <1>1, <4>1, <4>2 DEF TaskOfMade
    <3> QED
      BY <1>2, <1>3, <3>1 DEF Measured
  <2> QED
    BY <2>1 DEF RowSize
<1> QED
  BY <1>1, <1>2, <1>4, <1>6, <1>7, OwnFile DEF CommitRow

LEMMA JoinPartsSizes == ASSUME SInv, NEW c \in Calls, JoinParts(c) PROVE Sizes'
<1>1. calls[c] \in Completing /\ FileOK(c) /\ TypeOK /\ calls[c].op = "complete" /\ ~Made(c)
  BY Shapes DEF JoinParts, SInv, IInv, TypeOK, Made
<1>2. calls[c].of \in Calls
  BY <1>1 DEF Completing
<1>3. PICK f \in Calls, size \in 1 .. MaxSize :
        /\ f = calls[c].of /\ uploads[f] = "open"
        /\ objects' = [objects EXCEPT ![f] = [of |-> f, size |-> size]]
        /\ uploads' = [uploads EXCEPT ![f] = "over"]
  BY <1>2 DEF JoinParts
<1>4. Sizes'
  <2>1. PICK k \in Call : calls' = [calls EXCEPT ![c] = k] /\ k.op = "complete"
    <3>1. PICK end \in Over : Go(c, end)
      BY DEF JoinParts
    <3> QED
      BY <1>1, <3>1, GoKeeps
  <2>2. rows' = rows /\ contended' = contended
    BY DEF JoinParts
  <2>3. calls'[c] = k /\ \A g \in Calls \ {c} : calls'[g] = calls[g]
    BY <1>1, <2>1 DEF TypeOK
  <2>4. FileOK(f) /\ Unjoined(f) /\ calls[f].op = "init" /\ f # c
    BY <1>1, <1>3 DEF SInv, IInv, Sizes, FileOK, ObjectOK
  <2>5. /\ uploads'[f] = "over"
        /\ \A g \in Calls \ {f} : objects'[g] = objects[g] /\ uploads'[g] = uploads[g]
    BY <1>1, <1>3 DEF TypeOK
  <2>6. (UnmadeSize(f) /\ Unjoined(f))'
    BY <1>3, <2>3, <2>4, <2>5 DEF UnmadeSize, Unjoined
  <2>7. RowSize(f)'
    <3>1. objects[f] = None
      BY <1>3, <2>4 DEF Unjoined
    <3>2. ASSUME NEW d \in Compressing' PROVE Task(d, f)'.pc # "done"
      <4>1. d \in Compressing /\ Task(d, f)' = Task(d, f)
        BY <1>1, <2>1, OtherTasks
      <4>2. TaskOfMade(d, f)
        BY <4>1 DEF SInv, Sizes
      <4> QED
        BY <2>4, <3>1, <4>1, <4>2 DEF TaskOfMade, StoredType
    <3>3. ~Measured(f)'
      BY <2>3, <2>4, <3>2 DEF Measured
    <3> QED
      BY <3>3 DEF RowSize
  <2>8. (UnmadeSize(c) /\ Unjoined(c) /\ RowSize(c))'
    <3>1. rows[c] = None
      BY <1>1 DEF FileOK, RowOK
    <3> QED
      BY <2>1, <2>2, <2>3, <3>1 DEF UnmadeSize, Unjoined, RowSize, Present
  <2>9. {c, f} \in SUBSET Calls /\ c \in {c, f}
    OBVIOUS
  <2>10. \A g \in {c, f} : (UnmadeSize(g) /\ Unjoined(g))' /\ (~contended => RowSize(g)')
    BY <2>6, <2>7, <2>8
  <2>11. \A g \in Calls \ {c, f} : rows'[g] = rows[g] /\ objects'[g] = objects[g] /\ uploads'[g] = uploads[g]
    BY <2>2, <2>5
  <2>12. \A g \in Calls : Made(g) /\ objects[g] # None => objects'[g] = objects[g]
    BY <1>3, <2>4, <2>5 DEF Unjoined
  <2> QED
    BY <1>1, <2>1, <2>2, <2>9, <2>10, <2>11, <2>12, CallSizes
<1> QED
  BY <1>4

LEMMA DeleteByIdSizes == ASSUME SInv, NEW c \in Calls, DeleteById(c) PROVE Sizes'
<1>1. PICK f \in Calls, end \in Over :
       /\ calls' = [calls EXCEPT ![c] = [op |-> "delete", pc |-> end]]
       /\ \/ f \in Present /\ rows' = [rows EXCEPT ![f] = None]
          \/ rows' = rows
  BY DEF DeleteById
<1>2. /\ TypeOK /\ calls[c].op = "none" /\ rows[c] = None /\ ~Made(c)
      /\ UNCHANGED <<objects, uploads, contended>>
  BY Fresh DEF DeleteById, SInv, IInv, Made
<1> DEFINE k == [op |-> "delete", pc |-> end]
<1>3. k \in Call /\ k.op = "delete"
  BY DEF Call, Finished
<1>4. CASE rows' = rows
  BY <1>1, <1>2, <1>3, <1>4, CallQuiet
<1>5. CASE f \in Present /\ rows' = [rows EXCEPT ![f] = None]
  <2>1. calls' = [calls EXCEPT ![c] = k]
    BY <1>1
  <2>2. f # c /\ calls'[c] = k /\ calls'[f] = calls[f] /\ rows'[f] = None /\ rows'[c] = None
        /\ \A g \in Calls \ {f} : rows'[g] = rows[g]
    BY <1>2, <1>5, <2>1 DEF Present, TypeOK
  <2>3. (UnmadeSize(c) /\ Unjoined(c) /\ RowSize(c))'
    BY <2>2 DEF UnmadeSize, Unjoined, RowSize, Present
  <2>4. (UnmadeSize(f) /\ Unjoined(f) /\ RowSize(f))'
    BY <1>2, <2>2 DEF SInv, Sizes, UnmadeSize, Unjoined, RowSize, Present
  <2>5. {c, f} \in SUBSET Calls /\ c \in {c, f}
    OBVIOUS
  <2>6. \A g \in {c, f} : (UnmadeSize(g) /\ Unjoined(g))' /\ (~contended => RowSize(g)')
    BY <2>3, <2>4
  <2>7. \A g \in Calls \ {c, f} : rows'[g] = rows[g] /\ objects'[g] = objects[g] /\ uploads'[g] = uploads[g]
    BY <1>2, <2>2
  <2>8. \A g \in Calls : Made(g) /\ objects[g] # None => objects'[g] = objects[g]
    BY <1>2
  <2> QED
    BY <1>2, <1>3, <2>1, <2>5, <2>6, <2>7, <2>8, CallSizes
<1> QED
  BY <1>1, <1>4, <1>5

\* A compression that starts finds the files that have been made, and what it
\* would clash with is remembered.
LEMMA CompressFilesSizes == ASSUME SInv, NEW c \in Calls, CompressFiles(c) PROVE Sizes'
<1> DEFINE tasks == [f \in Present |-> [pc |-> "row", type |-> rows[f].type, size |-> 0]]
           k == [op |-> "compress", pc |-> "tasks", tasks |-> tasks]
<1>1. TypeOK /\ calls[c].op = "none" /\ UNCHANGED <<rows, objects, uploads>>
  BY DEF CompressFiles, SInv, IInv
<1>2. calls' = [calls EXCEPT ![c] = k]
  BY DEF CompressFiles
<1>3. calls'[c] = k /\ \A d \in Calls \ {c} : calls'[d] = calls[d]
  BY <1>1, <1>2 DEF TypeOK
<1>4. Compressing' = Compressing \cup {c} /\ c \notin Compressing
  BY <1>1, <1>3 DEF Compressing
<1>5. \A d \in Compressing, f \in Calls : Task(d, f)' = Task(d, f)
  <2> SUFFICES ASSUME NEW d \in Compressing, NEW f \in Calls PROVE Task(d, f)' = Task(d, f)
    OBVIOUS
  <2>1. calls'[d] = calls[d]
    BY <1>3, <1>4 DEF Compressing
  <2> QED
    BY <2>1 DEF Task
<1>6. \A f \in Calls : /\ f \notin Present => Task(c, f)' = [pc |-> "none"]
                       /\ f \in Present => Task(c, f)' = [pc |-> "row", type |-> rows[f].type, size |-> 0]
  BY <1>3 DEF Task
<1>7. \A f \in Calls : /\ f # c /\ calls[f].op \in {"create", "init"} => calls'[f] = calls[f]
                       /\ calls'[f].op \in {"create", "init"} => f # c /\ calls'[f] = calls[f]
  BY <1>3
<1>8. \A f \in Calls : Made(f)' <=> Made(f)
  BY <1>1, <1>3, <1>7 DEF Made
<1>9. \A f \in Calls : Made(f) => StoredType(f)' = StoredType(f)
  BY <1>1, <1>7 DEF Made, StoredType
<1>10. \A f \in Calls : UnmadeSize(f)' /\ Unjoined(f)'
  BY <1>1, <1>7 DEF SInv, Sizes, UnmadeSize, Unjoined, Present
<1>11. ASSUME NEW d \in Compressing', NEW f \in Calls
       PROVE  TaskOfMade(d, f)'
  <2>1. CASE d = c
    <3> SUFFICES ASSUME f \in Present
                 PROVE  TaskOfMade(c, f)'
      BY <1>6, <2>1 DEF TaskOfMade
    <3>1. Made(f) /\ rows[f].type = StoredType(f)
      BY DEF SInv, IInv, FileOK, RowOK, Present, Made, StoredType
    <3> QED
      BY <1>6, <1>8, <1>9, <3>1 DEF TaskOfMade
  <2>2. CASE d # c
    <3>1. TaskOfMade(d, f) /\ Task(d, f)' = Task(d, f)
      BY <1>4, <1>5, <2>2 DEF SInv, Sizes
    <3> QED
      BY <1>1, <1>8, <1>9, <3>1 DEF TaskOfMade
  <2> QED
    BY <2>1, <2>2
<1>12. ASSUME ~contended'
       PROVE  /\ OneCompresses'
              /\ \A d \in Compressing', f \in Calls : TaskSize(d, f)'
              /\ \A f \in Calls : RowSize(f)'
  <2>1. ~contended /\ \A d \in Compressing, f \in Calls : Task(d, f).pc \notin Waiting
    BY <1>12 DEF CompressFiles
  <2>2. OneCompresses'
    BY <1>4, <1>5, <2>1 DEF OneCompresses
  <2>3. ASSUME NEW d \in Compressing', NEW f \in Calls
        PROVE  TaskSize(d, f)'
    <3>1. Task(d, f)'.pc # "update"
      BY <1>4, <1>5, <1>6, <2>1 DEF Waiting
    <3> QED
      BY <3>1 DEF TaskSize
  <2>4. ASSUME NEW f \in Calls
        PROVE  RowSize(f)'
    <3>1. Measured(f)' => Measured(f)
      BY <1>4, <1>5, <1>6, <1>7 DEF Measured
    <3>2. (\A d \in Compressing' : Task(d, f)'.pc \notin {"update", "torn"}) =>
             \A d \in Compressing : Task(d, f).pc \notin {"update", "torn"}
      BY <1>4, <1>5
    <3>3. RowSize(f)
      BY <2>1 DEF SInv, Sizes
    <3> QED
      BY <1>1, <3>1, <3>2, <3>3 DEF RowSize, Present, Content
  <2> QED
    BY <2>2, <2>3, <2>4
<1> QED
  BY <1>10, <1>11, <1>12 DEF Sizes

\* One task goes on, and touches its file only.
LEMMA TaskKeeps ==
  ASSUME TypeOK, NEW c \in Compressing, NEW f \in Calls, Task(c, f).pc \in Waiting,
         NEW task \in TaskStep, Step(c, f, task)
  PROVE  /\ Compressing' = Compressing /\ c \in Calls /\ calls[c].op = "compress"
         /\ \A g \in Calls \ {c} : calls'[g] = calls[g]
         /\ calls'[c].op = "compress"
         /\ Task(c, f)' = task
         /\ \A d \in Compressing, g \in Calls : d # c \/ g # f => Task(d, g)' = Task(d, g)
<1>1. c \in Calls /\ calls[c].op = "compress"
  BY DEF Compressing
<1>2. PICK k \in Compression : /\ calls' = [calls EXCEPT ![c] = k]
                               /\ Task(c, f)' = task
                               /\ \A g \in Calls \ {f} : Task(c, g)' = Task(c, g)
  BY StepKeeps
<1>3. calls'[c] = k /\ k.op = "compress" /\ \A d \in Calls \ {c} : calls'[d] = calls[d]
  BY <1>1, <1>2 DEF TypeOK, Compression
<1>4. Compressing' = Compressing
  BY <1>1, <1>3 DEF Compressing
<1>5. ASSUME NEW d \in Compressing, NEW g \in Calls, d # c
      PROVE  Task(d, g)' = Task(d, g)
  <2>1. calls'[d] = calls[d]
    BY <1>3, <1>5 DEF Compressing
  <2> QED
    BY <2>1 DEF Task
<1> QED
  BY <1>1, <1>2, <1>3, <1>4, <1>5

LEMMA TaskSizes ==
  ASSUME SInv, NEW c \in Compressing, NEW f \in Calls, Task(c, f).pc \in Waiting,
         NEW task \in TaskStep, Step(c, f, task), task.type = Task(c, f).type,
         contended' = contended, uploads' = uploads,
         \A g \in Calls \ {f} : rows'[g] = rows[g] /\ objects'[g] = objects[g],
         task.pc \in {"update", "done"} /\ task.type = "S3" => objects'[f] # None,
         task.pc = "update" /\ task.type = "S3" /\ ~contended => objects'[f].size = task.size,
         objects[f] # None => objects'[f] # None,
         \/ rows'[f] = rows[f] /\ objects'[f] = objects[f]
         \/ calls[f].op # "init" \/ objects[f] # None,
         ~contended => RowSize(f)'
  PROVE  Sizes'
<1>1. TypeOK /\ Sizes
  BY DEF SInv, IInv
<1>2. /\ Compressing' = Compressing /\ c \in Calls /\ calls[c].op = "compress"
      /\ \A g \in Calls \ {c} : calls'[g] = calls[g]
      /\ calls'[c].op = "compress"
      /\ Task(c, f)' = task
      /\ \A d \in Compressing, g \in Calls : d # c \/ g # f => Task(d, g)' = Task(d, g)
  BY <1>1, TaskKeeps
<1>3. task.pc # "none" /\ Task(c, f).pc # "none"
  BY DEF TaskStep, Waiting
<1>4. Made(f) /\ f # c /\ calls'[f] = calls[f] /\ Task(c, f).type = StoredType(f)
  BY <1>1, <1>2, <1>3 DEF Sizes, TaskOfMade, Made
<1>5. ASSUME NEW g \in Calls PROVE (UnmadeSize(g) /\ Unjoined(g))'
  <2>1. UnmadeSize(g) /\ Unjoined(g)
    BY <1>1 DEF Sizes
  <2>2. CASE g = c
    BY <1>2, <2>2 DEF UnmadeSize, Unjoined
  <2>3. CASE g = f
    BY <1>4, <2>1, <2>3 DEF UnmadeSize, Unjoined, Made, Present
  <2>4. CASE g # c /\ g # f
    BY <1>2, <2>1, <2>4 DEF UnmadeSize, Unjoined, Present
  <2> QED
    BY <2>2, <2>3, <2>4
<1>6. ASSUME NEW d \in Compressing, NEW g \in Calls PROVE TaskOfMade(d, g)'
  <2>1. TaskOfMade(d, g)
    BY <1>1 DEF Sizes
  <2>2. CASE d = c /\ g = f
    BY <1>2, <1>4, <2>2 DEF TaskOfMade, Made, StoredType
  <2>3. CASE d # c \/ g # f
    <3>1. Task(d, g)' = Task(d, g)
      BY <1>2, <2>3
    <3>2. Made(g) => g # c /\ calls'[g] = calls[g]
      BY <1>2 DEF Made
    <3> QED
      BY <2>1, <3>1, <3>2 DEF TaskOfMade, Made, StoredType
  <2> QED
    BY <2>2, <2>3
<1>7. ASSUME ~contended PROVE OneCompresses'
  <2>1. \A d \in Compressing, g \in Calls : Task(d, g)'.pc \in Waiting => Task(d, g).pc \in Waiting
    BY <1>2
  <2>2. OneCompresses
    BY <1>1, <1>7 DEF Sizes
  <2> QED
    BY <1>2, <2>1, <2>2 DEF OneCompresses
<1>8. ASSUME ~contended, NEW d \in Compressing, NEW g \in Calls PROVE TaskSize(d, g)'
  <2>1. TaskSize(d, g) /\ OneCompresses
    BY <1>1, <1>8 DEF Sizes
  <2>2. CASE d = c /\ g = f
    BY <1>2, <1>8, <2>2 DEF TaskSize
  <2>3. CASE g # f
    BY <1>2, <2>1, <2>3 DEF TaskSize
  <2>4. CASE d # c /\ g = f
    <3>1. Task(d, g).pc # "update"
      BY <2>1, <2>4 DEF OneCompresses, Waiting
    <3> QED
      BY <1>2, <2>4, <3>1 DEF TaskSize
  <2> QED
    BY <2>2, <2>3, <2>4
<1>9. ASSUME ~contended, NEW g \in Calls PROVE RowSize(g)'
  <2>1. CASE g = f
    BY <1>9, <2>1
  <2>2. CASE g # f
    <3>1. RowSize(g)
      BY <1>1, <1>9 DEF Sizes
    <3>2. Measured(g)' => Measured(g)
      BY <1>2, <2>2 DEF Measured
    <3>3. rows'[g] = rows[g] /\ objects'[g] = objects[g]
      BY <2>2
    <3>4. (\A d \in Compressing' : Task(d, g)'.pc \notin {"update", "torn"}) =>
            \A d \in Compressing : Task(d, g).pc \notin {"update", "torn"}
      BY <1>2, <2>2
    <3> QED
      BY <3>1, <3>2, <3>3, <3>4 DEF RowSize, Content, Present
  <2> QED
    BY <2>1, <2>2
<1> QED
  BY <1>2, <1>5, <1>6, <1>7, <1>8, <1>9 DEF Sizes

\* One task goes on and leaves rows and objects alone.
LEMMA TaskQuiet ==
  ASSUME SInv, NEW c \in Compressing, NEW f \in Calls, Task(c, f).pc \in Waiting,
         NEW task \in TaskStep, Step(c, f, task), task.type = Task(c, f).type,
         UNCHANGED <<rows, objects, uploads, contended>>,
         task.pc = "update" => task.type # "S3",
         task.pc # "done",
         task.pc \in {"update", "torn"} \/ Task(c, f).pc # "update"
  PROVE  Sizes'
<1>1. TypeOK
  BY DEF SInv, IInv
<1>2. ~contended => RowSize(f)'
  <2> SUFFICES ASSUME ~contended PROVE RowSize(f)'
    OBVIOUS
  <2>1. RowSize(f)
    BY DEF SInv, Sizes
  <2>2. /\ Compressing' = Compressing /\ Task(c, f)' = task /\ c \in Calls
        /\ \A d \in Compressing : d # c => Task(d, f)' = Task(d, f)
        /\ calls[c].op = "compress" /\ calls'[c].op = "compress"
        /\ \A g \in Calls \ {c} : calls'[g] = calls[g]
    BY <1>1, TaskKeeps
  <2>3. Measured(f)' => Measured(f)
    BY <2>2 DEF Measured
  <2>4. Task(c, f).pc # "torn"
    BY DEF Waiting
  <2>5. (\A d \in Compressing' : Task(d, f)'.pc \notin {"update", "torn"}) =>
          \A d \in Compressing : Task(d, f).pc \notin {"update", "torn"}
    BY <2>2, <2>4
  <2> QED
    BY <2>1, <2>3, <2>5 DEF RowSize, Content, Present
<1> QED
  BY <1>2, TaskSizes

LEMMA ReadTaskSizes ==
  ASSUME SInv, NEW c \in Compressing, NEW f \in Calls,
         ReadRow(c, f) \/ GetObject(c, f) \/ ReadKey(c, f) \/ TaskFails(c, f)
  PROVE  Sizes'
<1>1. /\ TypeOK /\ FileOK(f) /\ Task(c, f).pc \in Waiting /\ Task(c, f) \in TaskStep
      /\ UNCHANGED <<rows, objects, uploads, contended>>
  BY TaskFacts DEF ReadRow, GetObject, ReadKey, TaskFails, Waiting, SInv, IInv
<1>2. \A pc \in Waiting \cup {"failed", "torn", "done"}, size \in Nat :
        /\ [Task(c, f) EXCEPT !.pc = pc] \in TaskStep
        /\ [Task(c, f) EXCEPT !.pc = pc].pc = pc
        /\ [Task(c, f) EXCEPT !.pc = pc].type = Task(c, f).type
        /\ [Task(c, f) EXCEPT !.pc = pc, !.size = size] \in TaskStep
        /\ [Task(c, f) EXCEPT !.pc = pc, !.size = size].pc = pc
        /\ [Task(c, f) EXCEPT !.pc = pc, !.size = size].type = Task(c, f).type
  BY <1>1 DEF TaskStep
<1>3. ASSUME NEW pc \in {"failed", "get", "put", "torn"}, Step(c, f, [Task(c, f) EXCEPT !.pc = pc]),
             pc = "torn" \/ Task(c, f).pc # "update"
      PROVE  Sizes'
  <2>1. pc \in Waiting \cup {"failed", "torn", "done"}
    BY DEF Waiting
  <2> QED
    BY <1>1, <1>2, <1>3, <2>1, TaskQuiet
<1>4. CASE ReadRow(c, f)
  <2>1. CASE rows[f] = None
    BY <1>3, <1>4, <2>1 DEF ReadRow
  <2>2. CASE rows[f] # None /\ rows[f].type = "S3"
    BY <1>3, <1>4, <2>2 DEF ReadRow
  <2>3. CASE rows[f] # None /\ rows[f].type # "S3"
    <3>1. Task(c, f).type = rows[f].type
      <4>1. TaskOfMade(c, f) /\ Task(c, f).pc # "none"
        BY <1>1 DEF SInv, Sizes, Waiting
      <4> QED
        BY <1>1, <2>3, <4>1 DEF TaskOfMade, FileOK, RowOK, StoredType
    <3>2. rows[f].data \in Contents
      BY <1>1, <2>3 DEF FileOK, RowOK, TypeOK, FileRow, Types
    <3>3. Shrink(rows[f].data.size) \in Nat
      BY <3>2 DEF Contents, Shrink
    <3>4. Step(c, f, [Task(c, f) EXCEPT !.pc = "update", !.size = Shrink(rows[f].data.size)])
      BY <1>4, <2>3 DEF ReadRow
    <3> QED
      BY <1>1, <1>2, <2>3, <3>1, <3>3, <3>4, TaskQuiet DEF Waiting
  <2> QED
    BY <2>1, <2>2, <2>3
<1>5. CASE GetObject(c, f)
  <2>1. CASE objects[f] = None
    BY <1>3, <1>5, <2>1 DEF GetObject
  <2>2. CASE objects[f] # None
    <3>1. Shrink(objects[f].size) \in Nat
      BY <1>1, <2>2 DEF TypeOK, Contents, Shrink
    <3>2. Step(c, f, [Task(c, f) EXCEPT !.pc = "key", !.size = Shrink(objects[f].size)])
      BY <1>5, <2>2 DEF GetObject
    <3>3. Task(c, f).pc # "update"
      BY <1>5 DEF GetObject
    <3>4. ASSUME NEW size \in Nat, Step(c, f, [Task(c, f) EXCEPT !.pc = "key", !.size = size])
          PROVE  Sizes'
      <4>1. "key" \in Waiting \cup {"failed", "torn", "done"} /\ "key" \in Waiting
        BY DEF Waiting
      <4> QED
        BY <1>1, <1>2, <3>3, <3>4, <4>1, TaskQuiet
    <3> QED
      BY <3>1, <3>2, <3>4
  <2> QED
    BY <2>1, <2>2
<1>6. CASE ReadKey(c, f)
  <2>1. Task(c, f).pc # "update"
    BY <1>6 DEF ReadKey
  <2>2. \/ Step(c, f, [Task(c, f) EXCEPT !.pc = "failed"])
        \/ Step(c, f, [Task(c, f) EXCEPT !.pc = "put"])
    BY <1>6 DEF ReadKey
  <2> QED
    BY <1>3, <2>1, <2>2
<1>7. CASE TaskFails(c, f)
  <2>1. Step(c, f, [Task(c, f) EXCEPT !.pc = IF Task(c, f).pc \in {"put", "update"} THEN "torn" ELSE "failed"])
    BY <1>1, <1>7 DEF TaskFails, TaskStep
  <2>2. CASE Task(c, f).pc \in {"put", "update"}
    BY <1>3, <2>1, <2>2
  <2>3. CASE Task(c, f).pc \notin {"put", "update"}
    BY <1>3, <2>1, <2>3
  <2> QED
    BY <2>2, <2>3
<1> QED
  BY <1>4, <1>5, <1>6, <1>7

LEMMA OverwriteSizes == ASSUME SInv, NEW c \in Compressing, NEW f \in Calls, Overwrite(c, f) PROVE Sizes'
<1> DEFINE task == [Task(c, f) EXCEPT !.pc = "update"]
<1>1. /\ TypeOK /\ Task(c, f).pc \in Waiting /\ Task(c, f) \in TaskStep
      /\ Task(c, f).pc = "put"
  BY TaskFacts DEF Overwrite, Waiting, SInv, IInv
<1>2. /\ task \in TaskStep /\ task.pc = "update" /\ task.type = Task(c, f).type
      /\ task.size = Task(c, f).size
  BY <1>1 DEF TaskStep, Waiting
<1>3. objects[f] # None
  BY <1>1 DEF SInv, IInv, FileOK, TaskOK, Compressing
<1>4. /\ objects'[f] = [of |-> f, size |-> Task(c, f).size]
      /\ \A g \in Calls \ {f} : objects'[g] = objects[g]
  BY <1>1 DEF Overwrite, TypeOK
<1>5. [of |-> f, size |-> Task(c, f).size] \in Contents
  BY <1>1 DEF TaskStep, Contents
<1>6. Step(c, f, task) /\ UNCHANGED <<rows, uploads, contended>>
  BY DEF Overwrite
<1>7. RowSize(f)'
  <2>1. Task(c, f)' = task /\ Compressing' = Compressing
    BY <1>1, <1>2, <1>6, TaskKeeps
  <2> QED
    BY <1>2, <2>1 DEF RowSize
<1> HIDE DEF task
<1> QED
  BY <1>1, <1>2, <1>3, <1>4, <1>5, <1>6, <1>7, NoneAssumption, TaskSizes

\* The row has the size that the object has been given, or is given its content
\* with its size.
LEMMA UpdateRowSizes == ASSUME SInv, NEW c \in Compressing, NEW f \in Calls, UpdateRow(c, f) PROVE Sizes'
<1>0. PICK end \in {"done", "torn"} : Step(c, f, [Task(c, f) EXCEPT !.pc = end])
  BY DEF UpdateRow
<1> DEFINE task == [Task(c, f) EXCEPT !.pc = end]
<1>1. /\ TypeOK /\ FileOK(f) /\ Task(c, f).pc = "update" /\ Task(c, f) \in TaskStep
      /\ Task(c, f).pc \in Waiting
  BY TaskFacts DEF UpdateRow, Waiting, SInv, IInv
<1>2. task \in TaskStep /\ task.pc = end /\ task.type = Task(c, f).type
  BY <1>1 DEF TaskStep
<1>3. TaskOfMade(c, f) /\ Task(c, f).type \in Types
  BY <1>1 DEF SInv, Sizes, TaskStep
<1>4. Step(c, f, task) /\ UNCHANGED <<objects, uploads, contended>>
  BY <1>0 DEF UpdateRow
<1>5. \A g \in Calls \ {f} : rows'[g] = rows[g]
  BY <1>1 DEF UpdateRow, TypeOK
<1>6. /\ objects[f] # None \/ calls[f].op # "init"
      /\ Task(c, f).type = "S3" => objects[f] # None
  BY <1>1, <1>3 DEF TaskOfMade, StoredType
<1>7. ASSUME ~contended PROVE RowSize(f)'
  <2>1. CASE rows[f] = None
    BY <2>1 DEF UpdateRow, RowSize, Present
  <2>2. CASE rows[f] # None
    <3> DEFINE data == IF Task(c, f).type = "S3" THEN rows[f].data ELSE [of |-> f, size |-> Task(c, f).size]
               row == [rows[f] EXCEPT !.size = Task(c, f).size, !.data = data]
    <3>1. rows[f] \in FileRow
      BY <1>1, <2>2 DEF TypeOK
    <3>2. row.size = Task(c, f).size /\ row.data = data /\ row.type = rows[f].type
      BY <3>1 DEF FileRow
    <3>3. rows'[f] = row
      BY <1>1, <2>2, <3>1 DEF UpdateRow, SizeNow, TypeOK, FileRow
    <3>4. Task(c, f).type = rows[f].type
      BY <1>1, <1>3, <2>2 DEF TaskOfMade, FileOK, RowOK, StoredType
    <3>5. TaskSize(c, f)
      BY <1>7 DEF SInv, Sizes
    <3>6. CASE rows[f].type = "S3"
      BY <1>1, <1>4, <3>2, <3>3, <3>4, <3>5, <3>6 DEF RowSize, Content, TaskSize
    <3>7. CASE rows[f].type = "Database"
      BY <3>2, <3>3, <3>4, <3>7 DEF RowSize, Content
    <3> QED
      BY <1>3, <3>4, <3>6, <3>7 DEF Types
  <2> QED
    BY <2>1, <2>2
<1> HIDE DEF task
<1> QED
  BY <1>1, <1>2, <1>4, <1>5, <1>6, <1>7, TaskSizes

LEMMA SizesInductive == SInv /\ [Next]_vars => SInv'
<1> SUFFICES ASSUME SInv, [Next]_vars PROVE SInv'
  OBVIOUS
<1>1. IInv'
  BY Inductive DEF SInv
<1>2. CASE SetStorage \/ UNCHANGED vars
  BY <1>1, <1>2, SizesStutter DEF SetStorage, vars, SInv
<1>3. ASSUME NEW c \in Calls,
             \/ Create(c) \/ ReadSetting(c) \/ PutObject(c) \/ CreateRow(c)
             \/ Initiate(c) \/ OpenUpload(c) \/ CommitRow(c)
             \/ LookUp(c) \/ JoinParts(c) \/ AccessFile(c) \/ GetFileData(c) \/ DeleteById(c)
             \/ CompressFiles(c) \/ CallFails(c)
      PROVE  Sizes'
  BY <1>3, CreateSizes, ReadSettingSizes, PutObjectSizes, CreateRowSizes, OpenUploadSizes,
     CommitRowSizes, ReadSizes, JoinPartsSizes, DeleteByIdSizes, CompressFilesSizes, CallFailsSizes
<1>4. ASSUME NEW c \in Compressing, NEW f \in Calls,
             \/ ReadRow(c, f) \/ GetObject(c, f) \/ ReadKey(c, f) \/ Overwrite(c, f)
             \/ UpdateRow(c, f) \/ TaskFails(c, f)
      PROVE  Sizes'
  BY <1>4, ReadTaskSizes, OverwriteSizes, UpdateRowSizes
<1> QED
  BY <1>1, <1>2, <1>3, <1>4 DEF Next, SInv

\* The size in a row is that of the content that the row leads to, for files
\* of any size and storage, through any compressions that do not overlap, and
\* but for the rows of those whose update is still to come or has failed.
THEOREM SizesTellContents == Spec => []SizeTellsContent
<1>1. Init => SInv
  BY InitInv, SizesInit DEF SInv
<1>2. SInv /\ [Next]_vars => SInv'
  BY SizesInductive
<1>3. SInv => SizeTellsContent
  BY DEF SInv, Sizes, RowSize, SizeTellsContent, Present
<1> QED
  BY <1>1, <1>2, <1>3, PTL DEF Spec
=============================================================================
