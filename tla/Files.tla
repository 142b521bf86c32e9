------------------------------- MODULE Files --------------------------------
(***************************************************************************)
(* FileService: files are rows of a collection.  The content of a file is  *)
(* in its row (storage "Database") or an object of the object store, which *)
(* no transaction covers.  The setting FILE_STORAGE says where new files   *)
(* go, and an administrator may change it at any time.                     *)
(*                                                                         *)
(* A file is known here by the call that makes it: so are its row and its  *)
(* object, which has a fresh name.  A content is [of |-> the file, size].  *)
(* Every await is the end of a step; any call to the database or the store *)
(* may fail, before or after it has taken effect, which is also what the   *)
(* end of the process looks like.                                          *)
(***************************************************************************)
EXTENDS Integers, FiniteSets

CONSTANTS
  None,
  Calls,      \* calls of FileService
  Users,
  MaxSize,    \* the largest file
  MaxSettings \* how often the setting is changed

ASSUME FilesAssumption == MaxSize \in Nat \ {0} /\ MaxSettings \in Nat /\ None \notin Calls

\* What rows and objects hold.
Contents == [of : Calls, size : Nat]
FileRow == [type : {"Database", "S3"}, author : Users, data : Contents \cup {None}, size : Nat]

ASSUME NoneAssumption == None \notin Contents \cup FileRow

VARIABLES
  setting,    \* the type in FILE_STORAGE
  changes,    \* of the setting
  rows,       \* committed rows, by file
  objects,    \* the content of objects, by file
  uploads,    \* multipart uploads of the store: "none", "open" or "over"
  calls,      \* calls: what they do and how far they are
  deleted,    \* files that their authors have deleted
  contended   \* whether a compression has started while another ran

vars == <<setting, changes, rows, objects, uploads, calls, deleted, contended>>

Types == {"Database", "S3"}
Over == {"answered", "thrown"}
Content(f) == IF rows[f].type = "Database" THEN rows[f].data ELSE objects[f]
Row(type, author, data, size) == [type |-> type, author |-> author, data |-> data, size |-> size]
Present == {f \in Calls : rows[f] # None}

\* What compressFile makes of a size: at 512 KiB or less (1) the buffer is kept.
Shrink(size) == IF size > 1 THEN size - 1 ELSE size

Init ==
  /\ setting \in Types /\ changes = 0
  /\ rows = [f \in Calls |-> None]
  /\ objects = [f \in Calls |-> None]
  /\ uploads = [f \in Calls |-> "none"]
  /\ calls = [c \in Calls |-> [op |-> "none", pc |-> "idle"]]
  /\ deleted = {}
  /\ contended = FALSE

Go(c, pc) == calls' = [calls EXCEPT ![c].pc = pc]

SetStorage ==
  /\ changes < MaxSettings
  /\ changes' = changes + 1
  /\ setting' \in Types \ {setting}
  /\ UNCHANGED <<rows, objects, uploads, calls, deleted, contended>>

-----------------------------------------------------------------------------
(* create *)

Create(c) ==
  /\ calls[c].op = "none"
  /\ \E u \in Users, size \in 1 .. MaxSize :
       calls' = [calls EXCEPT ![c] = [op |-> "create", pc |-> "setting", user |-> u, size |-> size]]
  /\ UNCHANGED <<setting, changes, rows, objects, uploads, deleted, contended>>

\* createFileData: the setting is read once; an object is put before the row.
ReadSetting(c) ==
  /\ calls[c].op = "create" /\ calls[c].pc = "setting"
  /\ calls' = [calls EXCEPT ![c] = [op |-> "create", user |-> @.user, size |-> @.size,
                                    type |-> setting, pc |-> IF setting = "S3" THEN "put" ELSE "row"]]
  /\ UNCHANGED <<setting, changes, rows, objects, uploads, deleted, contended>>

PutObject(c) ==
  /\ calls[c].op = "create" /\ calls[c].pc = "put"
  /\ objects' = [objects EXCEPT ![c] = [of |-> c, size |-> calls[c].size]]
  /\ Go(c, "row")
  /\ UNCHANGED <<setting, changes, rows, uploads, deleted, contended>>

\* The setting is read again for the row.
StorageAfresh(c) == setting

\* The storageType of the row is the one that the content went to.
Storage(c) == calls[c].type

CreateRow(c) ==
  /\ calls[c].op = "create" /\ calls[c].pc = "row"
  /\ \E end \in Over : Go(c, end)
  /\ LET data == IF calls[c].type = "S3" THEN None ELSE [of |-> c, size |-> calls[c].size]
     IN  rows' = [rows EXCEPT ![c] = Row(Storage(c), calls[c].user, data, calls[c].size)]
  /\ UNCHANGED <<setting, changes, objects, uploads, deleted, contended>>

-----------------------------------------------------------------------------
(* Multipart uploads: the client puts the parts at signed addresses between *)
(* the two calls.  The size is what it says before, and nobody compares it  *)
(* with what it puts and names.                                             *)

\* initiateMultipartUpload: a transaction, an upload in the store and the
\* addresses of its parts, then the row.
Initiate(c) ==
  /\ calls[c].op = "none"
  /\ \E u \in Users, size \in 1 .. MaxSize :
       calls' = [calls EXCEPT ![c] = [op |-> "init", pc |-> "open", user |-> u, size |-> size]]
  /\ UNCHANGED <<setting, changes, rows, objects, uploads, deleted, contended>>

OpenUpload(c) ==
  /\ calls[c].op = "init" /\ calls[c].pc = "open"
  /\ uploads' = [uploads EXCEPT ![c] = "open"]
  /\ Go(c, "commit")
  /\ UNCHANGED <<setting, changes, rows, objects, deleted, contended>>

\* The row is written in the transaction and there once it is committed, which
\* the call may not learn.
CommitRow(c) ==
  /\ calls[c].op = "init" /\ calls[c].pc = "commit"
  /\ rows' = [rows EXCEPT ![c] = Row("S3", calls[c].user, None, calls[c].size)]
  /\ \E end \in Over : Go(c, end)
  /\ UNCHANGED <<setting, changes, objects, uploads, deleted, contended>>

\* clientCompleteMultipartUpload reads the row, of any author, and has the
\* store put together the parts that the client names: only once.
LookUp(c) ==
  /\ calls[c].op = "none"
  /\ \E f \in Calls :
       calls' = [calls EXCEPT ![c] = [op |-> "complete", of |-> f,
                                      pc |-> IF rows[f] = None THEN "thrown" ELSE "join"]]
  /\ UNCHANGED <<setting, changes, rows, objects, uploads, deleted, contended>>

JoinParts(c) ==
  /\ calls[c].op = "complete" /\ calls[c].pc = "join"
  /\ uploads[calls[c].of] = "open"
  /\ \E size \in 1 .. MaxSize :
       objects' = [objects EXCEPT ![calls[c].of] = [of |-> calls[c].of, size |-> size]]
  /\ uploads' = [uploads EXCEPT ![calls[c].of] = "over"]
  /\ \E end \in Over : Go(c, end)
  /\ UNCHANGED <<setting, changes, rows, deleted, contended>>

-----------------------------------------------------------------------------
(* getFileData: a row, which the scope and the token of the reader may keep *)
(* from him, and its content, from the row as it was or from the store.     *)

AccessFile(c) ==
  /\ calls[c].op = "none"
  /\ \E f \in Calls :
       calls' = [calls EXCEPT ![c] =
         IF rows[f] = None THEN [op |-> "read", pc |-> "thrown"]
         ELSE [op |-> "read", pc |-> "get", of |-> f, row |-> rows[f]]]
  /\ UNCHANGED <<setting, changes, rows, objects, uploads, deleted, contended>>

\* What a reader will find.
FileData(c) == IF calls[c].row.type = "Database" THEN calls[c].row.data ELSE objects[calls[c].of]

GetFileData(c) ==
  /\ calls[c].op = "read" /\ calls[c].pc = "get"
  /\ \E end \in Over :
       /\ FileData(c) = None => end = "thrown"
       /\ calls' = [calls EXCEPT ![c] = [op |-> "read", pc |-> end]]
  /\ UNCHANGED <<setting, changes, rows, objects, uploads, deleted, contended>>

-----------------------------------------------------------------------------
(* deleteById: the row of one's own file; the object stays *)

DeleteById(c) ==
  /\ calls[c].op = "none"
  /\ \E u \in Users, f \in Calls, end \in Over :
       /\ calls' = [calls EXCEPT ![c] = [op |-> "delete", pc |-> end]]
       /\ \/ /\ f \in Present /\ rows[f].author = u
             /\ rows' = [rows EXCEPT ![f] = None]
             /\ deleted' = deleted \cup {f}
          \/ end = "thrown" /\ UNCHANGED <<rows, deleted>>
  /\ UNCHANGED <<setting, changes, objects, uploads, contended>>

-----------------------------------------------------------------------------
(* compressFiles: all files at once, each a task of up to five steps.  A   *)
(* task that fails is the answer of the call, and the others go on.        *)

Waiting == {"row", "get", "key", "put", "update"}
Compressing == {c \in Calls : calls[c].op = "compress"}
Task(c, f) == IF f \in DOMAIN calls[c].tasks THEN calls[c].tasks[f] ELSE [pc |-> "none"]
Step(c, f, task) == calls' = [calls EXCEPT ![c].tasks[f] = task]

CompressFiles(c) ==
  /\ calls[c].op = "none"
  /\ calls' = [calls EXCEPT ![c] =
       [op |-> "compress", pc |-> "tasks",
        tasks |-> [f \in Present |-> [pc |-> "row", type |-> rows[f].type, size |-> 0]]]]
  /\ contended' = (contended \/ \E d \in Compressing, f \in Calls : Task(d, f).pc \in Waiting)
  /\ UNCHANGED <<setting, changes, rows, objects, uploads, deleted>>

\* getFileBuffer: the row, which may have gone, and its content.
ReadRow(c, f) ==
  /\ Task(c, f).pc = "row"
  /\ Step(c, f, IF rows[f] = None THEN [Task(c, f) EXCEPT !.pc = "failed"]
                ELSE IF rows[f].type = "S3" THEN [Task(c, f) EXCEPT !.pc = "get"]
                ELSE [Task(c, f) EXCEPT !.pc = "update", !.size = Shrink(rows[f].data.size)])
  /\ UNCHANGED <<setting, changes, rows, objects, uploads, deleted, contended>>

\* An upload that has not been completed has no object.
GetObject(c, f) ==
  /\ Task(c, f).pc = "get"
  /\ Step(c, f, IF objects[f] = None THEN [Task(c, f) EXCEPT !.pc = "failed"]
                ELSE [Task(c, f) EXCEPT !.pc = "key", !.size = Shrink(objects[f].size)])
  /\ UNCHANGED <<setting, changes, rows, objects, uploads, deleted, contended>>

\* The name of the object is read again; putObject takes no undefined name.
ReadKey(c, f) ==
  /\ Task(c, f).pc = "key"
  /\ Step(c, f, [Task(c, f) EXCEPT !.pc = IF rows[f] = None THEN "failed" ELSE "put"])
  /\ UNCHANGED <<setting, changes, rows, objects, uploads, deleted, contended>>

Overwrite(c, f) ==
  /\ Task(c, f).pc = "put"
  /\ objects' = [objects EXCEPT ![f] = [of |-> f, size |-> Task(c, f).size]]
  /\ Step(c, f, [Task(c, f) EXCEPT !.pc = "update"])
  /\ UNCHANGED <<setting, changes, rows, uploads, deleted, contended>>

\* The row keeps the size that it had.
SizeKept(c, f) == rows[f].size

SizeNow(c, f) == Task(c, f).size

\* updateById, which does nothing if the row is gone.
UpdateRow(c, f) ==
  /\ Task(c, f).pc = "update"
  /\ rows' = IF rows[f] = None THEN rows
             ELSE [rows EXCEPT ![f].size = SizeNow(c, f),
                               ![f].data = IF Task(c, f).type = "S3" THEN @
                                           ELSE [of |-> f, size |-> Task(c, f).size]]
  /\ \E end \in {"done", "torn"} : Step(c, f, [Task(c, f) EXCEPT !.pc = end])
  /\ UNCHANGED <<setting, changes, objects, uploads, deleted, contended>>

TaskFails(c, f) ==
  /\ Task(c, f).pc \in Waiting
  /\ Step(c, f, [Task(c, f) EXCEPT !.pc = IF @ \in {"put", "update"} THEN "torn" ELSE "failed"])
  /\ UNCHANGED <<setting, changes, rows, objects, uploads, deleted, contended>>

\* An object that was put, or an upload that was opened, stays; so the end of a
\* call that fails when its put or upload has taken effect is the same as one
\* step later.  A completion fails too when the upload is not open.
CallFails(c) ==
  /\ calls[c].op \in {"create", "init", "complete"} /\ calls[c].pc \notin Over
  /\ Go(c, "thrown")
  /\ UNCHANGED <<setting, changes, rows, objects, uploads, deleted, contended>>

Next ==
  \/ SetStorage
  \/ \E c \in Calls :
       \/ Create(c) \/ ReadSetting(c) \/ PutObject(c) \/ CreateRow(c)
       \/ Initiate(c) \/ OpenUpload(c) \/ CommitRow(c)
       \/ LookUp(c) \/ JoinParts(c) \/ AccessFile(c) \/ GetFileData(c) \/ DeleteById(c) \/ CompressFiles(c) \/ CallFails(c)
  \/ \E c \in Compressing, f \in Calls :
       \/ ReadRow(c, f) \/ GetObject(c, f) \/ ReadKey(c, f) \/ Overwrite(c, f)
       \/ UpdateRow(c, f) \/ TaskFails(c, f)

Spec == Init /\ [][Next]_vars

-----------------------------------------------------------------------------
(* Properties *)

Uploaded(f) == calls[f].op = "create" \/ uploads[f] = "over"

\* A file that has been uploaded can be read where its row says, however the
\* setting changes meanwhile; a call that was answered has made a file, which
\* stays until its author deletes it, and can be read to the end by who has
\* found its row before that.  An object without a row is of a call that failed
\* or still runs, or of a deleted file.
FileIsWhereItsRowSays ==
  \A f \in Calls :
    /\ f \in Present /\ Uploaded(f) => Content(f) # None /\ Content(f).of = f
    /\ calls[f].op \in {"create", "init"} /\ calls[f].pc = "answered" => f \in Present \cup deleted
    /\ objects[f] # None /\ f \notin Present => f \in deleted \/ calls[f].pc # "answered"
    /\ calls[f].op = "read" /\ calls[f].pc = "get" /\ Uploaded(calls[f].of) =>
         FileData(f) # None /\ FileData(f).of = calls[f].of

\* A file whose size the server has seen: it has received the file, or
\* compressed it.  The size of a multipart upload is only what its client said.
Measured(f) == calls[f].op = "create" \/ \E c \in Compressing : Task(c, f).pc = "done"

\* The size of a row is that of its content if the server has seen it, before and
\* after the file is compressed, and whatever the client of a multipart upload
\* has said once it is compressed; unless two calls of compressFiles overlap, or
\* one fails between object and row.
SizeTellsContent ==
  ~contended =>
    \A f \in Present :
      (Measured(f) /\ \A c \in Compressing : Task(c, f).pc \notin {"update", "torn"}) =>
        rows[f].size = Content(f).size
=============================================================================
