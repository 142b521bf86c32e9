# Verification of the live-code backend

TLA+ models of the NestJS backend "A.I-Soft Backend SQL" (`src/`): a generic
CRUD framework (services, repositories, transactions, bulk import, sessions)
and, on top of it, the tables of an online judge (judge nodes, problems, test
cases, submissions). The modules below model its parts, TLC checks them on small
instances, and TLAPS proves theorems about them for instances of every size.

Source paths in this file are relative to `src/src/` unless they start
with `src/`.

## 1. The system

One or more Node.js processes serve HTTP (and gRPC, TCP, RabbitMQ) requests. They
keep the tables of the judge (judge nodes and their logs, problems, topics, test
cases, submissions, organizations) in PostgreSQL through Sequelize, and everything
else (users, sessions, settings, files, notifications, audit log, counters, data
partitions) in MongoDB through Mongoose; a Redis cache, Bull queues and an S3
object store complete them. JavaScript runs
one handler at a time, but every `await` lets other handlers run, and several
instances share the database: a handler is atomic only between two `await`s.
This is what all modules here are about.

| Component | State | Operations | Interacts through | Hard about it |
|---|---|---|---|---|
| Judge nodes (`modules/judge-nodes`) | table: status, current_load, max_capacity, last_heartbeat | heartbeat, status, load +1/-1, health check, available/best node, CRUD | the table; external judge workers call it over HTTP | read-then-write on every load call and in the health check |
| Generic service (`config/service/base.service.ts`) | none of its own; one transaction per call | create, insertMany, update*, delete*, getOneOrUpsert, upsert, get* | repository, transaction, pool of connections | ends of transactions on every path, read-then-write updates, locks |
| SQL repository (`modules/repository/sequelize`) | the tables of the judge | the same, plus paging, batches, distinct, export | Sequelize | read-then-write, stale reads, several statements per read |
| Mongo repository (`modules/repository/mongo`) | the other collections | the same interface | Mongoose | write conflicts, transactions that nobody ends |
| Bulk import (`config/service/base-import.service.ts`) | one shared `transaction` variable per request | importValidate (dry run), importInsert | repository, transactions, savepoints, p-limit queue | failures of any call, order of rows, rollback |
| Sessions (`modules/auth`) | collection Auth; tokens held by clients | login, refresh, logout, CRUD on sessions | users, JWT library, clock | revocation against requests under way |
| Users, settings (`modules/user`, `modules/setting`) | tables User, Setting | create the first administrator at boot, CRUD, change password | each other at boot | crash between two writes, two instances booting |
| Submissions (`modules/student-submissions`) | table of submissions | create, assign to a node, store result, finders, statistics | judge workers | late or repeated results, statistics over several reads |
| Judge node logs (`modules/judge-node-logs`) | table of events | log, finders, summaries | - | summaries over several reads |
| Data partitions (`modules/data-partition`, guard) | tables DataPartition, DataPartitionUser | choose the partition of a request | CLS, repository | scoping of every query |
| SSO and guards (`modules/sso`, `common/guard`) | cache of certificates, users | verify token, look up user and role | Redis, users | a role that changes during a request |
| Files (`modules/file`, `modules/minio`) | table File, object store | upload, multipart upload, read, delete, compress | S3, client, the setting FILE_STORAGE | two stores that must agree |
| Audit log, OneSignal (`modules/audit-log`, `modules/one-signal`, `modules/notification`) | Bull queues, tables | log a request, send notifications in batches | Redis, remote API | retries after partial work |
| Codes (`modules/increment`, `modules/quy-tac-ma`) | counters | next value, format a code | - | concurrent draws |
| Domain replacement (`modules/data-process`) | all tables and collections | rewrite URLs page by page, or in one bulk | - | paging over rows being rewritten |
| Judge tables (`modules/problems`, `topics`, `topic`, `sub-topics`, `test-cases`, `test-case-results`, `organization`, `courses`) | tables | generic CRUD, finders | generic service | that of the generic service |
| Conditions (`common/utils/sql.ulti.ts`, `mongo.util.ts`) | none | translate conditions, filters and the columns of an export | repositories | one filter, two databases |

`PROJECT.json` lists every component with its status, and under `hazards` every
spot of the code where an interleaving, a failure or a boundary can go wrong.

## 2. Modules

| Module | What it is |
|---|---|
| `JudgeNodes` | the table of judge nodes and all requests that write it |
| `JudgeNodesProofs` | theorems about it |
| `TablePromise` | abstract: what one call of the generic service promises about its table |
| `SqlService` | the generic service over the SQL repository; implements `TablePromise` |
| `SqlServiceProofs` | theorems about it, the refinement among them |
| `MongoService` | the generic service over the Mongo repository; implements `TablePromise` |
| `MongoProofs` | theorems about it, the refinement among them, and about `Bootstrap` |
| `ImportPromise` | abstract: what a bulk import promises |
| `ImportEngine` | `insertImport`; implements `ImportPromise` |
| `ImportProofs` | theorems about it, the refinement among them |
| `AuthSessions` | login, refresh, logout, revocation, expiry |
| `AuthSessionsProofs` | theorems about it, and about `Guards` |
| `Bootstrap` | the first administrator and the setting INIT_DATA when instances start |
| `JudgeTables` | submissions and logs: all that writes them |
| `JudgeReads` | requests that read these tables in several statements, and the domain replacement |
| `JudgeReadsProofs` | theorems about both |
| `Entries` | conditions as data |
| `Guards` | a request on its way to a repository: role, data partition, answer |
| `Conditions` | what conditions and filters select, over PostgreSQL and over MongoDB |
| `Exports` | the columns of an export, what is read for them, and the workbook |
| `Queries` | `Guards` with the databases and exports put in |
| `Deliveries` | audit log and push messages through the Bull queues |
| `DeliveriesProofs` | theorems about it |
| `Files` | files in their rows and in the object store |
| `FilesProofs` | theorems about it |
| `MC*` | constants for TLC |

`JudgeReads` extends `JudgeTables`, and `Queries` extends `Guards` and `Exports`, which
extends `Conditions`. `Guards` has what the databases do as constant operators, so that
it can be proved about without the recursion of `Conditions`; a run gives them the
definitions of `Queries`. `SqlService`, `MongoService` and `ImportEngine` implement the abstract
modules by an `INSTANCE` with a refinement mapping. The other modules stand alone:
what they share with each other is a table, and what they need to know of it
is stated in their heads.

In all modules a request is a number or a model value with a program counter
`pc[r]`; an action is the code between two `await`s of database calls together
with the database statement. Variables marked *history* are read by no action.
Operators whose comment describes a mistake (`IncrementLoadOffByOne`,
`FindLeaking`, ...) are broken variants of the operator that follows them: put in
its place, they must make a property fail, which shows that the property
constrains the code. `PROJECT.json` pairs each property with its variant.

### JudgeNodes

`nodes[n]` is the row of node n, and `fresh[n]` stands for `last_heartbeat`: it
says whether the last heartbeat is less than five minutes old (`isNodeOnline`),
so that time is the one bit that the code looks at. `incrementLoad` and
`decrementLoad` are a read (`IncrementLoad`, `DecrementLoad`) that fixes what will
be written, and the `UPDATE` (`WritePatch`). The generic `updateById` likewise,
but it writes only the columns that differ from the row it has read. The health
check reads the list, and then alternates between a read of the next node
(`ScanCheck`) and, if that is not online, an `UPDATE` (`ScanSetOffline`) that ends
the check with an error when the node has been deleted meanwhile.
`updateNodeStatus`, `create`, `deleteById` and the heartbeat are one statement.
Loads and limits are integers: the entity asks for numbers (`@IsNumber`) and for no
minimum. The body of `PUT :nodeId/status` is not validated at all
(`judge-nodes.controller.ts:122`), so that it may leave the status out or set any text
that the column takes (`Status`), where `updateById` and `create` take the members of the
enum (`JudgeNodeStatus`). What the columns refuse (null, fractions, texts of more than 20
characters, numbers of more than 32 bits) makes the statement fail and changes nothing; it
is left out.
These statements, and those of the load calls and the health check, go straight to
the repository and are committed at once. `create`, `updateById` and `deleteById`
of the generic service run in a transaction (READ COMMITTED) whose row lock is held
from the statement to its `COMMIT`, so that statement and `COMMIT` are one action.
Not modelled: reads that are only answered (`selectBestNode`,
`checkNodeOnlineStatus`, finders), the `findByPk` after an `UPDATE`, and failures of
the database (see `SqlService`).

What is true of this code is weaker than one would wish, and the properties say
exactly how much is true:

* `LoadBelowCeiling`: loads may exceed `max_capacity` (an administrator lowers it,
  increments race), but never every limit and load ever configured by hand (or zero,
  to which a decrement takes a negative load).
* `UncontendedLoadCallIsAtomic`: a load call is atomic if nobody else wrote the
  row between its read and its write. `LoadCallIsAtomic`, without that
  condition, is what the comments promise, and is violated.
* `ScanSweeps`: a health check leaves no node online that it has not found fresh
  or that was not set online behind its back.
* `EveryRequestIsAnswered`: including the health check, whatever happens to the
  table while it runs.

Two more things to know of this code, which the model contains and no property
states: the health check also sets nodes in maintenance offline, and nodes whose
heartbeat arrives between its look and its `UPDATE`
(`judge-nodes.services.ts:137`); and `findAvailableNodes` compares the load with the
*default* of `max_capacity`, not with the node's own (`judge-nodes-repository.sql.ts:24`
against `judge-nodes.models.ts:54`).

### SqlService and TablePromise

A call takes a connection of the pool and starts a transaction (`Begin`), reads
the row if it is `updateById`, `updateOne` or `deleteOne` (`Find`), runs its
statement (`Write`), and commits or aborts. `writes[r]` are the uncommitted rows
of its transaction. The wrapper around the repository is repeated in ten methods
of `base.service.ts`; the five actions stand for each of them, and the map
names each method once. The database is external: READ COMMITTED, row locks held
until the end of the transaction, generated identifiers never used twice. A
failure of any database call is possible (`faults`, at most `MaxFault`), and a
`COMMIT` that fails may have taken effect.

`TablePromise` has one step per call: the call takes effect at one instant, as a
whole or not at all, on rows and columns that it names. `KeepsPromise` is the
refinement. It does not promise that an update is not lost or that the row
answered is the row stored: `AloneIsSerial` does, for calls during which nobody
else changes the table. Not modelled: upserts (`getOneOrUpsert` and `upsert` always
throw, for no service sets `upsertKeys`), conditions on column values (a condition
is the set of rows that meet it), database deadlocks between statements that write
several rows in different orders (a statement takes all its locks at once; a
refused statement, as a deadlock would end, is modelled), and data partitions:
none of the tables in PostgreSQL is divided into them.

### MongoService

The same service over the Mongo repository. Each command is one call of MongoDB
inside a transaction (`Run`): `findOneAndUpdate` and `findOneAndDelete` read and
write the document atomically, so that there is no `Find` step, and `$inc` is
applied to the document as it is. A command that writes a document which another
open transaction has written is refused at once (`Conflict`); the code does not
retry it. `mongo.transaction.ts` calls `endSession` only after a commit or abort
that succeeded: after a failed one the transaction may stay open on the server
until that aborts it (`Reap`). What is true here is stronger than over
PostgreSQL: `CallsAreSerial` has no condition for calls of one document.

The instance assumes a replica set. `docker-compose` starts a single MongoDB, which
refuses transactions: then every call of the generic service with a transaction
fails at its first command, which is the case `Fault` of `Run`.

### ImportEngine and ImportPromise

`insertImport` as one request process (`main`) and one process per row (`pc[i]`),
which share `current`, the variable `transaction` of the code. `tx[t]` are the
transactions it has started with their uncommitted writes, `saved[i]` what a
savepoint has kept. Job settings (`dryRun`, `useSavepoint`,
`useTransactionInsert`, `concurentInsert`, the mode, which rows have type errors
and which share a key) are chosen at the start. Mode "update" takes two awaits, `findOne`
(`RowFind`, which keeps what it found in `doc[i]`) and `doc.update` (`RowInsert`), which
writes the columns that differ from what was found: when another row has written in
between, columns of both may be left (`Mixed`). A statement outside a transaction commits
by itself, and when it fails it may have taken effect.

`ImportPromise` says that a validation changes nothing, and that a row with a transaction
of its own is imported whole or not at all and that its report says which. With
`useTransactionInsert = false` it promises less, as the code does: a row reported as refused
may be in (`RefuseRow`), and rows that update the same row of the table while more than one
is under way may be mixed (`MayMix`). `ReportIsSequential` relates the report to a sequential
import, `Sequel`; without savepoints this is true only up to the first row that
was rolled back, because the code then starts over with an empty transaction.

Savepoints, inserts without transaction and concurrent inserts are options of the
constructor of `BaseService`; no service of the repository sets them, and the
defaults (no savepoint, a transaction per row, one row at a time) are among the
settings checked. The transactions are those of PostgreSQL. The imports of users and
settings go to MongoDB, whose `startTransaction` takes no parent and hence knows no
savepoints; for them the module only shows the control flow.

### AuthSessions

`sessions[s]` is a document of Auth, `tokens` the tokens that have been signed
(clients keep them for ever and may use any of them), `now` the clock. Login reads
the user and then creates the session, updates it and signs; a refresh looks up the
session, then the user, then updates and signs; logout is one `findOneAndDelete`.
`NoTokensAfterRevocation` is about requests that arrive after the deletion of the
session or user: those already under way may still get tokens, and access tokens
live on until they expire, since `jwt.strategy.ts` does not look at sessions.

`DeleteSession` also stands for the TTL index, which deletes sessions about when
they end. `Fail` ends a request at any of its database calls: a login may leave a
session without tokens. It also covers one question that the source does not
decide: `login` passes the hydrated Mongoose document that `create` returned through
`MongoUtil.getUpdate`, which copies its own fields (`$isNew`, `_doc`, ...) into the
update, and depending on Mongoose that update is refused.

### Bootstrap

`onApplicationBootstrap` of the user service as three steps of an instance: read the
setting INIT_DATA, create the user, store the setting. Nothing holds them
together, so instances that start at the same time may all read that nothing was
done: the unique index on usernames lets one of them create the user, and the start
of the others throws, because `bootstrap` catches nothing. Whoever runs the process
starts it again (`src/docker-compose.dev.yml:20` for the development service), and it
then finds the setting. (With a SENTRY_DSN the handler that Sentry puts on unhandled
rejections keeps a refused process alive: then it is the operator who stops and starts it.)
`TornOnlyByCrash` and `InstancesComeUp` say that this is
enough. They also say what it does not cover: an instance that dies between the
two writes leaves the user without the setting (`Torn`), and then every start fails
at the unique index until somebody repairs the database by hand. The same happens at
the next start when an administrator stores INIT_DATA with `isAdminCreated` unset.

An administrator may change setting and user at any time (`SetSetting`, `EditUser`);
`UpMeansInitialised` is about a system that nobody has edited. The index on
usernames is taken to exist before the first instance writes; the TCP and gRPC
listeners, which start before the hook, are not distinguished from HTTP.

### JudgeTables and JudgeReads

One table is looked at in a behaviour: the submissions, the logs, or a collection of
MongoDB (for the domain replacement). `table` holds its rows by `_id`, whose order is
random; `written` is a history of what statements did, which bounds them (`MaxWrites`)
and serves the properties. A submission is created by `createSubmission`, or by hand
with any status; the judge assigns it or stores a result (`UpdateSubmissionStatus`, an
`UPDATE` of all rows with the `submission_id`, followed by a `findOne`,
`FindUpdated`); clients create, edit and delete rows. Of a submission they may send every
column but `_id`, its two times included (`Sent`): `submitted_at` may be any day or null,
which PostgreSQL orders after all others (`NoTime`). Scores, languages and run times are data
on which no statement depends. Owners stand for students, problems, classes and nodes.

`reader` is one request that reads in several statements, each in a snapshot of its
own: a summary (`Program` lists its statements), a client who turns page after page
(`PageRows`, `PageCount`), or a domain replacement, which also writes. Over PostgreSQL the
replacement reads pages in the order of `_id` (`Ascending`) and writes each row before it
reads on; over MongoDB it follows a cursor, which has no order and meets each document that
stays once (`seen`), and writes when the cursor has ended. The finders and the statistics by
day read once and are operators on the table.

* `VerdictHasItsTime`: `judged_at` is there once a submission is judged, and never
  before its submission, whatever order results, repetitions and reassignments have. Rows
  that a client has created by hand or edited are exempt: their times are the client's.
* `AnswerShowsOwnWrite`: the judge is answered with its own write, unless another
  statement came between.
* `CountsDriftOnlyByWrites`: the counts of one answer differ by no more rows than
  statements wrote in between. An exact sum is not promised by the code.
* `ListsShowTheirRows`: pages miss and repeat no row that stays, unless a deletion or
  creation shifts rows, or an edit of the column that the client orders by gives a row
  another place (`PagesShowRows`, `Displaced`). The column is `submitted_at` in the model,
  which only clients edit; a client that orders by a status or score meets the same with
  every UPDATE of the judge. The finders leave out nothing they
  should show (`FindersShowRows`), agree with each other (`FindersAgree`), and so do the
  ranges of days (`RangesShowRows`). What makes it true for a client's own order is the
  `_id` that `RequestQueryPipe` appends.
* `ReplacementReaches`: a replacement reaches each row that nobody else writes. Over
  PostgreSQL only `String.replace` is used, which replaces the first mention of a text,
  and a deletion moves rows to a page that has been read; over MongoDB all mentions go,
  and no deletion matters.

Seen on the way, and part of the model: `getStudentSubmissionStats` and
`getProblemSubmissionStats` ask for the average of a column `score` that does not exist
(it is `_score`), so that each call throws (`student-submissions-repository.sql.ts:134`);
`getStudentClassSubmissions` and five others take a limit and forget it
(`student-submissions.services.ts:247`); a replacement writes a text that it has read
before, and so undoes an edit in between (`data-process.service.ts:191`).

### Guards, Conditions, Exports and Queries

`Conditions` translates a condition and a list of filters as `sql.ulti.ts` and
`mongo.util.ts` do (`SqlCondition`, `MongoCondition`), and evaluates the result as the
databases do (`SqlEval` with three truth values, `MongoEval` with two). A text is a
sequence of letters and a pattern says where it shall occur; accents, case and the
signs that LIKE or a regular expression gives a meaning to are left out. Operands are what
`JSON.parse` makes of a query (`request-query.pipe.ts:45`, `request-condition.pipe.ts:16`),
so that no `Date` object is among them, which `getRawValue` would write as NULL
(`sql.ulti.ts:519`). The apostrophe is a letter, for NOT_EQUAL and `$ne` put a text between
apostrophes as it is (`sql.ulti.ts:513`): with a text like that the statement fails or is
another one (`Misquotes`), and the request is answered anything, or refused
(`AnswerMisquoted`). A test to be in none of no values is left out of the statement by
Sequelize, also where it is an alternative (`LeftOut`, `LosesAlternative`).

`Exports` looks the columns of an export up among the fields that the entity defines
(`Defines`), makes them a tree, says what is read of a row and of related rows (`Loaded`)
and flattens every row into lines (`Dfs`). A row with a list takes a line for each item;
the first sheet repeats the row's own values, the second does not.

`Guards` sends requests through the guards (`stage[r]` says where a request is): `CheckRole`
and `CanActivate` each read the database, then the repository adds the partition to the
condition (`Scoped`) and answers getPage, getById, getExport or create. `cls` is the continuation local storage in which
the partition waits. Meanwhile administrators change roles and memberships. What it leaves
open, `Queries` defines: what a database selects (`Select`), the total of a page (`Total`),
the workbook of an export (`WorkbookOf`), whether it names a column that the entity does
not define (`AsksUndefined`) and whether its statement is misquoted (`AsksMisquoted`).
`DatabaseAssumption` is all that `Guards` asks of them: if the statement is not misquoted, the
rows selected are of the table and have every value that the condition names at its top
level, whatever stands beside it there and in the filters. TLC evaluates it for every
question of the run, so that translations which lose the condition or put it into an
alternative would not pass.

* `WithinPartition`: a request that names a partition gets rows of that partition only,
  whatever its condition says and whatever others do at the time, and what it creates is in
  it. `Restricted` says of which questions: not of an export of given identifiers, not of a
  statement for PostgreSQL that is misquoted, and of a creation only if the schema declares
  the field.
* `SelectsWhatIsMeant`: where the fields have values, what is listed is what the operators
  mean, over both databases, and the total is that of the list, although over MongoDB the
  count translates the condition twice. Over PostgreSQL misquoted statements and lost
  alternatives are excepted.
* `OnlyNullsDivide`: the databases differ only on fields without a value, and on
  alternatives that PostgreSQL loses, and then MongoDB selects more. LIKE is excepted:
  PostgreSQL reads it as a pattern with `%`, MongoDB as a regular expression; so are
  misquoted statements.
* `ExportShowsEveryValue`: each value asked for is on its line and in its sheet. The first
  sheet may show the first item's value where a later item has none
  (`base-import.service.ts:485`).

Of all entities only User is divided into partitions. Its model for PostgreSQL declares the
field (`user.model.ts:51`); its schema for MongoDB, which the application uses, does not, so
that it is dropped when a user is created (`user.entity.ts:115`), and the user is in no
partition: `Created` does so where a question is not `declared`. The rows of a partition
that reads find over MongoDB are those that another program has stored.

Also seen, and part of the model: a relation whose `propertyTarget` is the *name* of an entity (`courses.entity.ts:45`) makes every export of
that entity throw (`entity-definition.ts:75`); objects stored as JSON, such as `userAgent`,
are blank columns. Not part of it: `disableExport` (`user.entity.ts:112`) is ignored by
`getExportDefinition`, and dates in a list are written to the row's first line
(`base-import.service.ts:545`).

Not modelled: the client's own `select` and `population`, formats of dates and numbers, the
XLSX template, `exists`, `distinct` and `getMap` (no caller in the repository), raw SQL
filters (`filterToListRawQuery`, no caller).

### Deliveries

What the server does after it has answered. `AuditLogInterceptor` queues what it logs of a
request in the stream of the response (`Intercept`, `Handled`, `LogIsQueued`);
`createNotification` stores a row and starts `sendBatch`, which reads the devices page by
page and queues a job for each page (`ReadBatch`, `BatchIsQueued`). Nobody waits for
either. A job is tried up to `attempts` times; an attempt may have its effect and fail, or be
late; a worker may die or lose its lock (`Stall`, `End`), and then the job is tried once more.
The effects of a late attempt are told at the moment when it is given up. A rejection of
what nobody waits for ends the process unless Sentry has put a handler (`Reject`).

* `LogTellsTheOutcome`: a response or an error is logged exactly of a request that had it,
  in one job, and a job has its effect no more often than its attempts and one stalled
  execution allow. More than once is possible, and the code has no key against it.
* `DeviceInOneBatch`: the pages of a notification overlap in no device and leave out none
  that stays, whatever devices expire between them.
* `NotificationGetsThrough` (liveness): once the process is past `sendBatch`, each device's
  job is completed or has used up its attempts, crashes and stalls included.

Bull is external: its guarantees are those of its documentation (attempts, one stalled
restart, removal at the end). Not modelled: `clearOldLog`, the reads, notifications to
topics (which do nothing), and the registration of devices (commented out).

### Files

A file is known by the call that makes it. `rows` are the documents, `objects` and
`uploads` the object store, `setting` is FILE_STORAGE. `create` reads the setting, puts
the object and writes the row; a multipart upload is opened in the store before its row is
committed, and completed by a second call; `getFileData` reads row and object;
`compressFiles` runs a task of up to five steps for every file at once. Any call of the
database or the store may fail (`CallFails`, `TaskFails`), and then nothing is undone; a
row that is written, committed, updated or deleted, or an upload that is joined, may be so
although the call learns of a failure. The size of a multipart upload is what its client
announces (`file.service.ts:370`); the parts it puts and names at the end may be of any
other (`JoinParts`), and nobody compares the two.

* `FileIsWhereItsRowSays`: an uploaded file can be read where its row says, whatever happens
  to the setting meanwhile; an answered call has made its file; an object without a row
  is of a failed call or a deleted file (nothing removes these).
* `SizeTellsContent`: row and content agree on the size once the server has seen the content
  (`Measured`): from the start for a file that it has received, from a compression on for a
  multipart upload, whatever its client has announced. Not so if two compressions overlap or
  one fails between object and row, which the code does not repair; nor, before it is
  compressed, for a multipart upload: asked of these too, the run finds one whose size is
  wrong.

One more thing the model shows: an upload that was opened and never completed makes
every later `compressFiles` reject (`file.service.ts:280`), though the other files are
done. Not modelled: the scope of a file and the token of the reader, which only decide
whether a read is refused, and the resizing of images.

## 3. Runs, bounds and fairness

| Run | Instance | Why it is enough |
|---|---|---|
| `judge_nodes` | 2 nodes, 3 requests, limits 1 and 2, one body per kind of edit, a load of -1 and a status outside the enum among them | two requests race on a row while a third intervenes; a health check passes two nodes with an interruption at each step |
| `load_call_atomic` | the same | the counterexample needs two requests |
| `import` | 3 rows, 2 keys, 1 or 2 concurrent rows, 1 failure, all settings | a row before, at and after the one that fails; two rows that clash and one that does not |
| `mongo_service` | 2 documents, 2 fields, one of them incremented, 2 requests, 1 failure | every pair of commands, on one document and on both, with conflicts and an open transaction left behind |
| `sql_service` | 2 rows, 2 columns, 2 requests, 1 or 2 connections, 1 failure | every pair of commands; one column shared and one not; the pool at its limit |
| `auth_sessions` | 2 users, 2 sessions, 3 requests, life of an access token 1, of a session 2, clock up to 2 | a login, a use and a revocation interleaved; the session expires |
| `bootstrap` | 3 instances, 2 crashes, 2 edits | two instances start together while a third is up or is refused; a crash between the writes of each of two |
| `judge_reads` | 4 ids, 2 or 3 rows at first, 2 owners, 2 updates by the judge, 2 writing statements, 2 days, pages of 2 rows, clients that send the first day or null | a write or two between any two statements of a reader; a page that is full, one that is not, and rows that move between them; two rows with one `submission_id` |
| `daily_stats` | the same, statistics of the present day | the counterexample needs an old row and a new one |
| `queries` | 57 rows of few values and none, 2 requests, 1 change of a role or membership | every operator alone, under OR and under nested AND with the partition's field; a request between guard and repository of another |
| `deliveries` | 1 audited request, 1 notification, 2 devices on pages of 1, 2 attempts of a log and 1 of a push, 1 stall, 1 crash | a crash or expiry between two pages; a retry after an effect |
| `files` | 4 calls of 1 user (whose a file is decides only whether a deletion is refused, and any may fail), 2 sizes, 1 change of the setting | two files, a compression and a deletion, or two compressions, interleaved with a failure at any step |

Attempts are 2 and 1 instead of 3 and 5, batches have 1 device, lifetimes are 1 and 2 ticks, and columns
have two values: the code only compares them. Identifiers are model values.
`CHECK_DEADLOCK FALSE` everywhere: in every model all requests may have been
answered, and then nothing is left to do. `auth_sessions` uses symmetry of users and
sessions, `files` of calls, and both check safety only.

Fairness: Node.js resumes a handler when its database call has been answered, and
the database answers; so every step after the first of a request is weakly fair.
No request has to arrive. In `SqlService` taking a connection and running a
statement are strongly fair, since pool and database serve those who wait in
order; without that a call could be overtaken for ever. `MongoService` needs weak
fairness only, since its calls never wait for each other, and no fairness of `Reap`.
`Bootstrap` assumes that an instance that has exited is started again. `Deliveries`
assumes it too, and that Bull takes the next job when a worker is free (weak fairness of
`Take` for each queue) and that an attempt ends, well or not, by the job's timeout
(`Complete`, `Fail` or `Stall`): no job need succeed, and no client need call.

## 4. Findings

Each is a property that a comment or API description of the code states, and a
counterexample found by TLC.

* **Load calls** (`load_call_atomic`, `judge-nodes.services.ts:59`): increments are lost,
  and a status set meanwhile is overwritten, when calls overlap.
* **Statistics by day** (`daily_stats`, `judge-node-logs.services.ts:288`): the days are
  asked for with symbols as keys, which the translation of conditions does not see. The
  statistics count all rows or none (what Sequelize makes of the empty object that is left
  decides), and not those of the days asked for; those of submissions likewise
  (`student-submissions.services.ts:381`).

Other disagreements that the models met are told with their modules in section 2.

## 5. Proofs

`JudgeNodesProofs` proves for every set of nodes, requests, initial rows and bodies:

* `TypeCorrect`: `Spec => []TypeOK`. Inductive as it stands; it contains that a
  request about to write knows its node, and that a decrement never writes a negative
  load although loads may be negative, for which `Math.max` in `decrementLoad` is needed.
  One step per action.
* `LoadBounded`: `Spec => []LoadBelowCeiling`. The invariant is not inductive: an
  increment writes a value that it computed from an older row. The strengthening
  `LoadInv` adds that limits are below the ceiling (`CapBelowCeiling`) and that
  every load about to be written by a load call is (`PendingBelowCeiling`); the
  latter is stable because ceilings only grow.

* `UncontendedCallsAreAtomic`: `Spec => UncontendedLoadCallIsAtomic`, an action
  property. `AtomicInv` says of each load call about to write that, unless its node
  is `dirty`, the patch is still what one would compute from the row as it is now.
* `ScansSweep`: `Spec => []ScanSweeps`. `SweepInv` adds that a request before the
  write of a load call or update is no health check, so that a write that sets a
  node online always excuses the checks under way.

`AuthSessionsProofs` proves for every set of users, sessions and requests and every
pair of lifetimes:

* `TypeCorrect`: `Spec => []TypeOK`.
* `NotProlonged` and `TokensBelong`: `Spec => []SessionsAreNotProlonged` and
  `Spec => []TokensBelongToTheirUser`, from one invariant `AuthInv`. It needs
  that a request under way agrees with the row of its session about user and exp
  (`Known`), and that a session with signed tokens is deleted or has its exp in
  its row (`Dated`): a refresh could otherwise read a session without exp and
  choose a new one. `AloneInv` says why two requests never choose an exp for one
  session: a session without exp is known to nobody but the login that created it.
* `RevocationIsFinal`: `Spec => NoTokensAfterRevocation`. `RevocationInv`: what a
  request found revoked when it arrived stays revoked, and what it has looked up
  since was not among it.

and for every set of requests, partitions, users, rows and questions, and every database
that meets `DatabaseAssumption`, about `Guards`:

* `AnswersWithinPartition`: `GuardSpec => []WithinPartition`. What has to be true between
  guard and repository is `PartitionIsKept`: the local storage of the request holds the
  partition that it named, whoever else has been through the guard since. The rest is
  `ScopedNamesPartition`: a scoped condition names the partition at its top level, whatever
  the client put in its place. Both are needed of the questions that are `Restricted`, and
  of those only. With a storage that requests share, or a client's condition
  that wins, these are the steps that do not go through.

`FilesProofs` proves for every number of calls, users, sizes and changes of the setting:

* `FilesAreWhereTheirRowsSay`: `Spec => []FileIsWhereItsRowSays`. The property looks at
  finished calls; the invariant `IInv` says what holds on the way there. For each file:
  a row is of a call that is over, answered or not, has the storage type that this call has
  read, and the object if it has put one (`RowOK`); an object is of the call that makes the file, and is there from the put on
  (`ObjectOK`), which stays true because nothing ever removes an object; an answered
  call has a row unless its author has deleted it (`MadeOK`). For each call: a reader
  holds a row whose content exists, even when the row is deleted meanwhile (`ReadOK`),
  and a task of a compression that is about to overwrite an object has seen it
  (`TaskOK`): so a put never makes an object out of nothing. One lemma per action.
* `SizesTellContents`: `Spec => []SizeTellsContent`. The invariant `Sizes` follows the size
  from the call that creates the file (`UnmadeSize`: an object that still has no row has the
  size of its call) to the tasks of a compression: as long as no two calls overlap, only
  one has tasks that still run (`OneCompresses`), the size a task is about to write is that
  of the object it has put (`TaskSize`), and a row that no task is about to write, and none
  has failed to write, has the size of its content (`RowSize`). Of a multipart upload this
  is said from its first compression on, and nothing is joined after that: what is not
  joined has no object (`Unjoined`), and no task is done of a file without one
  (`TaskOfMade`, which also keeps the two kinds of storage apart).

`ImportProofs` proves for every number of rows and keys, every `Limit` of concurrency, all
options of the import, and every number of failures of the database:

* `TypeCorrect`: `Spec => []TypeOK`. Here this is more than it says: that at most `N + 1`
  transactions are started, so that `tx` has one for each, needs `Counted`.
* `RowsKeepTheirTransaction` and `NoTransactionIsLeft`:
  `Spec => []RowsUseTheirOwnTransaction` and `Spec => []NoTransactionLeaks`, from the
  invariant `IInv`. Rows leave the queue in order, and the limit is one where the shared
  variable `transaction` is used (`InOrder`); only the transaction of that variable is ever
  open, and while it is somebody is there to end it (`OneIsOpen`); no two rows have started
  the same one (`OwnDiffer`). `Where` says which settings lead to which statement.
* `ImportKeepsPromise`: `Spec => KeepsPromise`, the refinement of `ImportPromise`: its first
  states map to first states, and each action to a step of the abstract module or to none.
  `Isolated` is what this needs: nobody else writes the table while a row has a transaction
  of its own, so that the writes it commits are those of one whole row. For mode "update"
  it needs `Found`: what a row has found is still what is there, unless another row of the
  file has the same key and rows run at the same time (`Shared`), and only then is a row of
  the table ever mixed.
* `ReportTellsTheSequence`: `Spec => []ReportIsSequential`, with a second invariant, `Tells`,
  on top of `IInv`. As long as rows are taken one at a time and no call has failed, they
  take turns (`InTurn`: a row moves only when all before it are done, and it has its
  transaction), the row whose turn it is finds the table that the sequential import has at
  that row (`TableTells`), and those that have met their table are reported as there
  (`ReportTells`). A dry run without savepoints keeps this up to the first row that it
  undoes (`Unspoilt`), as the property says. `Sequel` is a recursive function; that it
  satisfies its equation for files of every length (`SequelUnfolds`) is an induction, which
  is made by hand: of the rows that the recursion does not reach there would be a first one
  (`WFMin`), and the one before it is reached.

`SqlServiceProofs` proves for every number of rows, columns, values, calls, connections and
failures:

* `TypeCorrect`: `Spec => []TypeOK`.
* `UndisturbedIsSerial`: `Spec => AloneIsSerial`, an action property. `Undisturbed` says of
  a call that is not `dirty` that what it has read is the row as it is, and that the table
  with its writes is what it would have made of it alone.
* `CallsKeepPromise`: `Spec => KeepsPromise`, the refinement of `TablePromise`. It has to be
  true of calls that others have disturbed, too: `Holds` says of every call about to commit
  that what it writes is what its command may make of each row *as it is now*, which is
  stable because the rows a call has written are locked (`Locks`: nobody else has them
  among its writes). `Answers` says what a call can answer by the way it has come.

`MongoProofs` proves for every finite set of documents, every set of fields and calls and
every number of failures, about `MongoService`:

* `TypeCorrect`: `Spec => []TypeOK`. A document holds values and never `$inc`: an insert
  has no operators, and an update counts up from a number.
* `CommandsAreSerial`: `Spec => CallsAreSerial`, an action property, and `CallsKeepPromise`:
  `Spec => KeepsPromise`, the refinement of `TablePromise`. Both rest on `IInv`. `Locks`:
  open transactions hold different documents, those included that their call has left open
  for the server to abort. `Answers`: what a call answers is fixed by the way it has come.
  `Holds`: what a call is about to commit is what its command would write of each document
  *as it is now*; a call on one document still writes a document that it selects, and a call
  on many misses only those that others have made meet its condition meanwhile (`dirty`).
  Unlike in the SQL repository nothing is read before the command, so that the property
  holds without the condition that nobody else has written.

and for every number of instances, crashes and edits, about `Bootstrap`:

* `Initialised`: `BootSpec => []UpMeansInitialised`. The strengthening `Untouched` adds
  that an instance about to store the setting has found or created the user, and that
  without edits the setting is absent or set.
* `OnlyCrashesTear`: `BootSpec => []TornOnlyByCrash`, inductive with `BootTypeOK`, which is
  proved on the way (`BootTypeCorrect`) and is not checked by a run.

`DeliveriesProofs` proves for every set of requests, notifications and devices, every size
of a page, number of attempts, stalls and ends of the process:

* `TypeCorrect`: `Spec => []TypeOK` (of the proof module). It holds that the jobs of a
  request are numbered from one on (`JobsNumbered`), without which `add` could overwrite a
  job, and the account of attempts: a job that has not ended has had its effect at the most
  once for each attempt made and each time it stalled, and has an attempt left (`JobOK`).
* `LogsTellTheOutcome`: `Spec => []LogTellsTheOutcome`. `Logs` says that a request has at
  the most one log, be it on its way to Redis or a job, and that this is true of the
  request as it is; a log that is put before the handler runs must stay true of every end.
* `DevicesAreInOneBatch`: `Spec => []DeviceInOneBatch`. `Pages` says that the pages go up:
  each batch lies beyond all before it, and every device that is left, up to the last one
  yielded, is in a batch. The lemma it rests on, `PageIsWhole`, is about `getBatch`: a page
  is empty only if nothing is left beyond it, and leaves out nothing before its last device.
  It uses that a set of numbers has a least element, and a finite one a greatest
  (`LeastIsThere`, `GreatestIsThere`). Fairness plays no part in the three.

`JudgeReadsProofs` proves for all identifiers (finitely many), owners, judges, every number of
statements that write, and every size of a page, about `JudgeTables` and `JudgeReads`:

* `VerdictsHaveTheirTime`: `Spec => []VerdictHasItsTime`. Inductive (`TimesOK`) together
  with the types of rows; the steps that matter are the two statements that set a status
  and the clock, which never goes back. What a client has written is known to be its own
  (`ByHand`), and stays exempt.
* `AnswersShowOwnWrites`: `Spec => []AnswerShowsOwnWrite`. The strengthening `UpdatesOK`
  says of a judge between its two statements that, while no other statement has written,
  every row with its `submission_id` has the status it has set and there is one (`Own`),
  so that whichever row `findOne` takes will do.
* `CountsDriftByWrites`: `Spec => []CountsDriftOnlyByWrites`. `SummaryOK` says of each count
  that has been read how far it may be from the rows of its owner *now*, namely by as many
  rows as statements have written since the start; a statement moves the rows of an owner by
  one at the most (`OfStep`), and the counts by kind, which the model adds up with a fold,
  are as many as the rows (`SumOfKinds`, for the two kinds that logs have). For a page and
  its total it is `Fits`: where a page ends says how many rows there are.
* `ListsShowRows`: `Spec => []ListsShowTheirRows`. Of a walk `WalkOK` counts, for every row,
  the rows that come before it in the order asked for (`Place`). While none is deleted or
  displaced, a row that has not been shown has at least as many before it as the pages answered
  hold; while none is created or displaced, a row that has been shown has fewer. Creations only
  raise `Place`, deletions only lower it, and an edit leaves it alone unless it is of the time
  that the walk orders by (`PlaceMoves`, `Displaces`): then it may go either way, and nothing
  is said of that walk. A walk by `_id` alone is not disturbed by it. That the n-th row of a sorted sequence has n - 1 before it
  (`SortedPlace`) needs an order without ties, which is what the appended `_id` is for
  (`BeforeIsTotal`). The finders, which may leave ties, rest on `NewestAre` and `OldestAre`:
  what a limit leaves out comes after all it shows.
* `ReplacementReachesRows`: `Spec => []ReplacementReaches`. `ReplaceOK` says of a row that was
  there at the start, that nobody else has written, and that still has its mention, that it
  is `Ahead`: on the page in hand and not yet written, or with at least as many rows before
  it (`Rank`) as the pages read so far hold. A creation before it only raises its rank
  (`RankGrows`); a deletion would lower it, which is why the property excludes them. For
  MongoDB, `ReplaceMongoOK` has no such number: a document is still to be met by the cursor,
  or in what is to be written, or done.

The five share `IInv`: `TInv` for the tables, and of the request that reads, `ReaderOK` and
`ReadsOK`. `StartOK`, part of the former, is what ties a request to its history: the rows
at its start have been used, identifiers that were used are not given again, and so they are
there unless deleted. Writers are summed up once, by what their statement may do to the rows
(`Effect`), so that the invariant of each reader is proved against six effects and not
against every action.

The assumptions are those named in `JudgeNodes` (rows and bodies hold what the columns take,
requests are numbered, `None` is no node), in `AuthSessions` (lifetimes are
positive, users and sessions are told apart), in `Bootstrap` (bounds are numbers), in
`Files` (bounds are numbers, `None` is no call, row or content), in `JudgeTables` and
`JudgeReads` (bounds are numbers, identifiers are finitely many numbers, the first rows are
typed and not yet judged, times that clients send are days or null, null is no key, number or
event), in `ImportEngine` (there is a
row, and bounds are numbers), in `SqlService` (bounds are numbers, calls are typed, there
is a value, `None` is no identifier and no value), in `MongoService` (identifiers are finitely
many, bounds are numbers, calls are typed and create documents from values), in `Guards`
(the table is finite, members and roles are typed, questions are of the four kinds, their
conditions are sequences, null is no partition; `DatabaseAssumption`, above) and in `Deliveries` (devices are finitely many numbers, for `_id`
orders them; a page has room for one and a job has an attempt; no request is of both kinds);
TLC evaluates them in every run.

Every inductive invariant was checked by TLC on the instances of section 3 before it was
proved. The proofs changed the models in four respects. A `CASE` whose guards overlap leaves
open which arm is taken, so that `Outcome` and `SetColumns`, on which TLC takes the first
arm, did not say what was meant; they are nested `IF`s now. The cursor of `JudgeReads` had
an order, which MongoDB does not promise for a find without a sort; it has none now. That
null is not the name of an event, which a filter by it needs, was not assumed. And the
guards and the databases were one module, with the recursion of the translations in it.

Only model-checked: the properties of `Queries` (`SelectsWhatIsMeant`, `OnlyNullsDivide`,
`ExportShowsEveryValue`) and that its databases meet `DatabaseAssumption`, since they use
RECURSIVE operators on nested conditions and trees of columns, so that a proof would be an
induction over data; liveness under fairness (`ImportEnds` among them), out of these
provers' reach.

## 6. Not modelled, and what is left

* Codes and sequence numbers (`modules/increment`, `modules/quy-tac-ma`): one atomic `$inc`
  per number; the codes have an empty map of repositories and no caller.
* The identity provider, its certificates and the creation of a user at the first SSO
  login (`sso.service.ts:35`; `initUser` has no caller): the unique index on usernames
  decides the race, as in `Bootstrap`.
* Courses: enrolling and assigning answer a record that is never stored, and the lists are
  always empty (`courses-sql.repository.ts:27`): these are stubs. The table itself is
  behind the generic service.
* Editing a session by the inherited routes (`auth.service.ts:99` writes a row back that an
  administrator may have edited); `changePasswordMe`, which always throws, since it is
  called without a user (`user.controller.ts:62`).
* `updateMany` answers the length of Sequelize's result array as the number of rows
  (`sql.repository.ts:391`); the number is not part of `SqlService`.
* Transport configuration, decorators, documentation, the code generator (`src/lib`) and
  migrations (`src/sequelize`): no protocol state.

Next: `Conditions` written with recursive functions over conditions of a bounded depth, so
that `DatabaseAssumption` could be proved of it.
