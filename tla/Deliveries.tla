----------------------------- MODULE Deliveries -----------------------------
(***************************************************************************)
(* What the server does after it has answered: rows of the audit log and   *)
(* push messages go through two Bull queues in Redis.                      *)
(*                                                                         *)
(* AuditLogInterceptor puts a job in its queue before or after the handler *)
(* of a request, as the options of the route say, and createNotification   *)
(* writes a notification and starts sendBatch, which reads the devices of  *)
(* the users a page at a time and puts a job for each page.  Nobody waits  *)
(* for either: what is not in Redis when the process ends is lost, and so  *)
(* is what Redis refuses, which also ends the process unless Sentry has    *)
(* put a handler for it.                                                   *)
(*                                                                         *)
(* A worker tries a job a number of times.  An attempt may have its effect *)
(* and fail all the same, or have it after its time is over, which is told *)
(* here at once; the job of a worker that has died or lost its lock is     *)
(* stalled, and is tried again once.                                       *)
(***************************************************************************)
EXTENDS Integers, FiniteSets

CONSTANTS
  Audited,      \* requests of routes with UseAuditLog
  Notices,      \* requests to create a notification
  Devices,      \* the devices of their users, by _id: nothing adds one
  Limit,        \* devices of a page
  Attempts,     \* attempts of the jobs of each queue
  MaxStalled,   \* how often a job may stall
  MaxCrashes    \* how often the process ends

ASSUME DeliveriesAssumption ==
  /\ Devices \subseteq Nat \ {0} /\ IsFiniteSet(Devices)
  /\ Limit \in Nat \ {0} /\ MaxStalled \in Nat /\ MaxCrashes \in Nat
  /\ Attempts \in [{"log", "push"} -> Nat \ {0}]
  /\ Audited \cap Notices = {}

VARIABLES
  crashes,   \* how often the process has ended and been started again
  route,     \* what the routes of the audited requests log
  receivers, \* the receiverType of the notifications
  req,       \* requests: what they do, and how they have ended
  adding,    \* logs for which Redis has not answered yet
  sending,   \* sendBatch of each notification
  stored,    \* notifications that have a row
  devices,   \* devices that are still there
  jobs       \* jobs ever put in a queue, by their request and number; those that
             \* are "completed" or "failed" are removed from it

vars == <<crashes, route, receivers, req, adding, sending, stored, devices, jobs>>

NotSending == [pc |-> "none"]
Ended == {"completed", "failed"}
JobsOf(r) == {j \in DOMAIN jobs : j[1] = r}

\* A new job; done counts the effects of its attempts.
Job(queue, what) ==
  [queue |-> queue, what |-> what, state |-> "waiting", made |-> 0, stalled |-> 0, done |-> 0]

Add(of, job) ==
  LET new == <<of, Cardinality(JobsOf(of)) + 1>>
  IN  jobs' = [j \in DOMAIN jobs \cup {new} |-> IF j = new THEN job ELSE jobs[j]]

\* logError says nothing without logResponse.
Routes == {p \in [logResponse : BOOLEAN, logError : BOOLEAN] : p.logError => p.logResponse}

Init ==
  /\ crashes = 0
  /\ route \in [Audited -> Routes]
  /\ receivers \in [Notices -> {"Topic", "User"}]
  /\ req = [r \in Audited \cup Notices |-> "idle"]
  /\ adding = {}
  /\ sending = [n \in Notices |-> NotSending]
  /\ stored = {}
  /\ devices = Devices
  /\ jobs = [j \in {} |-> {}]

-----------------------------------------------------------------------------
(* The audit log *)

\* intercept: the user is read first, and there may be none any more.
Refuse(r) ==
  /\ req[r] = "idle"
  /\ req' = [req EXCEPT ![r] = "unauthorized"]
  /\ UNCHANGED <<crashes, route, receivers, adding, sending, stored, devices, jobs>>

\* The handler starts.  A route that does not log its response has put its job by then.
Intercept(r) ==
  /\ req[r] = "idle"
  /\ req' = [req EXCEPT ![r] = "handling"]
  /\ adding' = IF route[r].logResponse THEN adding
               ELSE adding \cup {[of |-> r, what |-> "request"]}
  /\ UNCHANGED <<crashes, route, receivers, sending, stored, devices, jobs>>

\* The response is logged of whatever end.
LogsOfAny(r, end) ==
  IF route[r].logResponse THEN {[of |-> r, what |-> "response"]} ELSE {}

\* What is logged of a response, or of an error.
LogsOf(r, end) ==
  {[of |-> r, what |-> what] : what \in
     {w \in {"response", "error"} :
        /\ route[r].logResponse
        /\ w = "response" => end = "answered"
        /\ w = "error" => end = "thrown" /\ route[r].logError}}

\* The handler ends, and the client has its answer: nobody waits for add.
Handled(r) ==
  /\ req[r] = "handling"
  /\ \E end \in {"answered", "thrown"} :
       /\ req' = [req EXCEPT ![r] = end]
       /\ adding' = adding \cup LogsOf(r, end)
  /\ UNCHANGED <<crashes, route, receivers, sending, stored, devices, jobs>>

LogIsQueued ==
  /\ \E log \in adding :
       /\ adding' = adding \ {log}
       /\ Add(log.of, Job("log", log.what))
  /\ UNCHANGED <<crashes, route, receivers, req, sending, stored, devices>>

-----------------------------------------------------------------------------
(* Notifications *)

\* create of the notification, then sendNotification, which does nothing yet
\* for a topic; then the answer.
CreateNotification(n) ==
  /\ req[n] = "idle"
  /\ \/ req' = [req EXCEPT ![n] = "thrown"] /\ UNCHANGED <<stored, sending>>
     \/ /\ req' = [req EXCEPT ![n] = "answered"]
        /\ stored' = stored \cup {n}
        /\ sending' = IF receivers[n] = "User"
                      THEN [sending EXCEPT ![n] = [pc |-> "page", after |-> 0]]
                      ELSE sending
  /\ UNCHANGED <<crashes, route, receivers, adding, devices, jobs>>

\* The page after as many rows as have been yielded, as LIMIT and OFFSET have it.
BatchBySkip(n, after) ==
  {d \in devices : LET before == Cardinality({e \in devices : e < d})
                       skip == Cardinality(UNION {jobs[j].what : j \in JobsOf(n)})
                   IN  before >= skip /\ before < skip + Limit}

\* getBatch: the first rows with an _id beyond that of the last row yielded.
Batch(n, after) ==
  {d \in devices : d > after /\ Cardinality({e \in devices : e > after /\ e < d}) < Limit}

ReadBatch(n) ==
  /\ sending[n].pc = "page"
  /\ LET s == sending[n]
         batch == Batch(n, s.after)
     IN  sending' = [sending EXCEPT ![n] = IF batch = {} THEN [pc |-> "sent"]
           ELSE [pc |-> "add", batch |-> batch, after |-> CHOOSE d \in batch : \A e \in batch : e <= d]]
  /\ UNCHANGED <<crashes, route, receivers, req, adding, stored, devices, jobs>>

BatchIsQueued(n) ==
  /\ sending[n].pc = "add"
  /\ Add(n, Job("push", sending[n].batch))
  /\ sending' = [sending EXCEPT ![n] = [pc |-> "page", after |-> @.after]]
  /\ UNCHANGED <<crashes, route, receivers, req, adding, stored, devices>>

\* expireAt: the database removes a device when its session is over.
Expire ==
  /\ \E d \in devices : devices' = devices \ {d}
  /\ UNCHANGED <<crashes, route, receivers, req, adding, sending, stored, jobs>>

-----------------------------------------------------------------------------
(* The workers.  The POST of a push and the row of a log are the effect. *)

Put(j, job) ==
  /\ jobs' = [jobs EXCEPT ![j] = job]
  /\ UNCHANGED <<crashes, route, receivers, req, adding, sending, stored, devices>>

\* A worker has one job at a time.
Take(j) ==
  /\ jobs[j].state = "waiting"
  /\ \A k \in DOMAIN jobs : jobs[k].queue = jobs[j].queue => jobs[k].state # "active"
  /\ Put(j, [jobs[j] EXCEPT !.state = "active"])

\* removeOnComplete, removeOnFail: Redis keeps no counts of a job that has ended.
Removed(job, state) == [job EXCEPT !.state = state, !.made = 0, !.stalled = 0]

Complete(j) ==
  /\ jobs[j].state = "active"
  /\ Put(j, Removed([jobs[j] EXCEPT !.done = @ + 1], "completed"))

\* A failed attempt: the job waits again unless it was the last.
Failed(job) ==
  IF job.made + 1 < Attempts[job.queue]
  THEN [job EXCEPT !.made = @ + 1, !.state = "waiting"]
  ELSE Removed(job, "failed")

\* The database or OneSignal refuses; or does it and does not answer in time,
\* or the timeout of the job is over and the attempt goes on.
Fail(j) ==
  /\ jobs[j].state = "active"
  /\ \E effect \in {0, 1} : Put(j, Failed([jobs[j] EXCEPT !.done = @ + effect]))

\* Nobody looks for jobs whose lock is over.
StalledForGood(job) == [job EXCEPT !.state = "stalled"]

\* The lock of a job is over and nobody has renewed it: it waits again, once.
Stalled(job) ==
  IF job.stalled < MaxStalled THEN [job EXCEPT !.state = "waiting", !.stalled = @ + 1]
  ELSE Removed(job, "failed")

\* Its worker has been too busy to renew the lock, and still runs.
Stall(j) ==
  /\ jobs[j].state = "active"
  /\ \E effect \in {0, 1} : Put(j, Stalled([jobs[j] EXCEPT !.done = @ + effect]))

-----------------------------------------------------------------------------
(* The end of the process takes with it whatever is not in Redis.  It is   *)
(* started again, and finds the jobs it had stalled; had are those whose   *)
(* attempt had its effect before the end.                                  *)

Lost(s) == IF s.pc \in {"page", "add"} THEN [pc |-> "lost"] ELSE s

End ==
  /\ crashes < MaxCrashes
  /\ crashes' = crashes + 1
  /\ LET active == {j \in DOMAIN jobs : jobs[j].state = "active"}
     IN  \E had \in SUBSET active :
           jobs' = [j \in DOMAIN jobs |->
             IF j \notin active THEN jobs[j]
             ELSE Stalled([jobs[j] EXCEPT !.done = @ + (IF j \in had THEN 1 ELSE 0)])]
  /\ req' = [r \in DOMAIN req |-> IF req[r] = "handling" THEN "cut" ELSE req[r]]
  /\ adding' = {}
  /\ sending' = [n \in Notices |-> Lost(sending[n])]
  /\ UNCHANGED <<route, receivers, stored, devices>>

\* Redis or the database refuses what nobody waits for.  With Sentry's handler
\* the process goes on; without it the rejection is the end of the process.
Reject ==
  /\ \/ \E log \in adding :
          adding' = adding \ {log} /\ UNCHANGED <<crashes, req, sending, jobs>>
     \/ \E n \in Notices :
          /\ sending[n].pc \in {"page", "add"}
          /\ sending' = [sending EXCEPT ![n] = Lost(@)]
          /\ UNCHANGED <<crashes, req, adding, jobs>>
     \/ /\ adding # {} \/ \E n \in Notices : sending[n].pc \in {"page", "add"}
        /\ End
  /\ UNCHANGED <<route, receivers, stored, devices>>

Next ==
  \/ \E r \in Audited : Refuse(r) \/ Intercept(r) \/ Handled(r)
  \/ \E n \in Notices : CreateNotification(n) \/ ReadBatch(n) \/ BatchIsQueued(n)
  \/ LogIsQueued \/ Expire \/ End \/ Reject
  \/ \E j \in DOMAIN jobs :
       Take(j) \/ Complete(j) \/ Fail(j) \/ Stall(j)

\* What jobs there may be: at the most one for each device.
JobIds == (Audited \cup Notices) \X (1 .. Cardinality(Devices))

\* What has been started goes on, in the process or in the one started after
\* it, and an attempt ends by its timeout at the latest.  A client need not
\* call, and no job need succeed.
Fairness ==
  /\ \A n \in Notices : WF_vars(ReadBatch(n)) /\ WF_vars(BatchIsQueued(n))
  /\ \A q \in {"log", "push"} :
       WF_vars(\E j \in DOMAIN jobs : jobs[j].queue = q /\ Take(j))
  /\ \A j \in JobIds :
       WF_vars(j \in DOMAIN jobs /\ (Complete(j) \/ Fail(j) \/ Stall(j)))

Spec == Init /\ [][Next]_vars /\ Fairness

-----------------------------------------------------------------------------
(* Properties *)

\* The audit log says of a request what happened to it: a response only if the
\* handler gave one, an error only if it threw one and the route logs errors,
\* nothing of a refused request, all in one job.  No job has its effect more
\* often than its attempts and one stalled execution allow, and a job that is
\* completed has had it.
LogTellsTheOutcome ==
  /\ \A j \in DOMAIN jobs : jobs[j].queue = "log" =>
       LET r == j[1]
       IN  /\ req[r] \notin {"idle", "unauthorized"}
           /\ jobs[j].what = "response" => req[r] = "answered"
           /\ jobs[j].what = "error" => req[r] = "thrown" /\ route[r].logError
           /\ JobsOf(r) = {j}
  /\ \A j \in DOMAIN jobs :
       /\ jobs[j].done <= Attempts[jobs[j].queue] + MaxStalled
       /\ jobs[j].state = "completed" => jobs[j].done > 0

\* No device is in two batches of a notification, though its effects may be
\* several; and once sendBatch is through, every device that is still there
\* is in one, whatever has expired between its pages.
DeviceInOneBatch ==
  \A n \in Notices :
    /\ JobsOf(n) # {} => n \in stored
    /\ \A j, k \in JobsOf(n) : j # k => jobs[j].what \cap jobs[k].what = {}
    /\ sending[n].pc = "sent" => devices \subseteq UNION {jobs[j].what : j \in JobsOf(n)}

\* A notification for users gets through: in the end each device that is left
\* has had its job completed, or tried as often as it may be, unless the
\* process ended or something was refused before it was in Redis.
NotificationGetsThrough ==
  \A n \in Notices :
    (n \in stored /\ receivers[n] = "User") ~>
      \/ sending[n].pc = "lost"
      \/ \A d \in devices : \E j \in JobsOf(n) : d \in jobs[j].what /\ jobs[j].state \in Ended
=============================================================================
