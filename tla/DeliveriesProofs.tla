--------------------------- MODULE DeliveriesProofs ---------------------------
(***************************************************************************)
(* Proofs about Deliveries, for any number of requests, devices, attempts  *)
(* and ends of the process: the audit log tells what happened to a         *)
(* request, and no device is in two batches of a notification.             *)
(***************************************************************************)
EXTENDS Deliveries, FiniteSetTheorems, WellFoundedInduction, TLAPS

Texts == {"request", "response", "error"}
Ends == {"idle", "unauthorized", "handling", "answered", "thrown", "cut"}
JobStates == {"waiting", "active"} \cup Ended

LogJob ==
  [queue : {"log"}, what : Texts, state : JobStates, made : Nat, stalled : Nat, done : Nat]
PushJob ==
  [queue : {"push"}, what : SUBSET Devices, state : JobStates,
   made : Nat, stalled : Nat, done : Nat]

(* A job that has not ended has had its effect at the most once for each   *)
(* attempt made and each time it has stalled, and has an attempt left.     *)
JobOK(job) ==
  /\ job \in LogJob \/ job \in PushJob
  /\ job.state \notin Ended =>
       /\ job.made < Attempts[job.queue] /\ job.stalled <= MaxStalled
       /\ job.done <= job.made + job.stalled
  /\ job.done <= Attempts[job.queue] + MaxStalled
  /\ job.state = "completed" => job.done > 0

Sending ==
  {NotSending} \cup [pc : {"page"}, after : Nat] \cup [pc : {"sent", "lost"}]
    \cup [pc : {"add"}, batch : SUBSET Devices, after : Nat]

(* The jobs of a request are numbered from one on, so that a new job has a *)
(* number of its own.                                                      *)
JobsNumbered ==
  /\ IsFiniteSet(DOMAIN jobs) /\ jobs = [j \in DOMAIN jobs |-> jobs[j]]
  /\ \A r \in Audited \cup Notices : JobsOf(r) = {r} \X (1 .. Cardinality(JobsOf(r)))

JobsTyped ==
  \A j \in DOMAIN jobs :
    /\ j[1] \in Audited \cup Notices
    /\ JobOK(jobs[j])
    /\ jobs[j].queue = "log" <=> j[1] \in Audited

TypeOK ==
  /\ route \in [Audited -> Routes]
  /\ req \in [Audited \cup Notices -> Ends]
  /\ adding \subseteq [of : Audited, what : Texts]
  /\ sending \in [Notices -> Sending]
  /\ stored \subseteq Notices
  /\ devices \subseteq Devices
  /\ JobsNumbered /\ JobsTyped

(* What a log may say of a request as it is now. *)
Tells(r, what) ==
  /\ req[r] \notin {"idle", "unauthorized"}
  /\ what = "request" <=> ~route[r].logResponse
  /\ what = "response" => req[r] = "answered"
  /\ what = "error" => req[r] = "thrown" /\ route[r].logError

(* A request has one log, on its way to Redis or as a job. *)
Logs ==
  /\ \A a \in adding : Tells(a.of, a.what)
  /\ \A a, b \in adding : a.of = b.of => a = b
  /\ \A a \in adding : JobsOf(a.of) = {}
  /\ \A r \in Audited : \A j \in JobsOf(r) : Tells(r, jobs[j].what) /\ JobsOf(r) = {j}

Batched(n) == UNION {jobs[j].what : j \in JobsOf(n)}

(* The pages go up: each batch lies beyond those before it, and a device   *)
(* up to the last of them is in one.                                       *)
PagesOf(n) ==
  /\ req[n] = "idle" => sending[n].pc = "none"
  /\ sending[n].pc = "none" => JobsOf(n) = {}
  /\ JobsOf(n) # {} => n \in stored
  /\ sending[n].pc # "none" => n \in stored
  /\ \A j, k \in JobsOf(n) : j # k => jobs[j].what \cap jobs[k].what = {}
  /\ sending[n].pc = "page" =>
       /\ \A d \in Batched(n) : d <= sending[n].after
       /\ \A d \in devices : d <= sending[n].after => d \in Batched(n)
  /\ sending[n].pc = "add" =>
       /\ \A d \in Batched(n), e \in sending[n].batch : d < e
       /\ \A d \in Batched(n) \cup sending[n].batch : d <= sending[n].after
       /\ \A d \in devices : d <= sending[n].after => d \in Batched(n) \cup sending[n].batch
  /\ sending[n].pc = "sent" => devices \subseteq Batched(n)

Pages == \A n \in Notices : PagesOf(n)

IInv == TypeOK /\ Logs /\ Pages

-----------------------------------------------------------------------------
(* Sets of numbers *)

LEMMA LeastIsThere ==
  ASSUME NEW T \in SUBSET Nat, T # {}
  PROVE  \E x \in T : \A y \in T : x <= y
<1> DEFINE R == OpToRel(<, Nat)
<1>1. IsWellFoundedOn(R, Nat)
  BY NatLessThanWellFounded
<1>2. PICK x \in T : \A y \in T : ~(<<y, x>> \in R)
  <2> HIDE DEF R
  <2> QED
    BY <1>1, WFMin
<1>3. ASSUME NEW y \in T PROVE x <= y
  <2>1. <<y, x>> \notin R
    BY <1>2
  <2>2. ~(y < x)
    BY <2>1 DEF OpToRel
  <2> QED
    BY <2>2
<1> QED
  BY <1>3

(* The greatest is the one with the fewest above it. *)
LEMMA GreatestIsThere ==
  ASSUME NEW T \in SUBSET Nat, T # {}, IsFiniteSet(T)
  PROVE  \E x \in T : \A y \in T : y <= x
<1> DEFINE Above(x) == {y \in T : x < y}
           C == {Cardinality(Above(x)) : x \in T}
<1>1. ASSUME NEW x \in T
      PROVE  IsFiniteSet(Above(x)) /\ Cardinality(Above(x)) \in Nat
  <2>1. Above(x) \in SUBSET T
    OBVIOUS
  <2> QED
    BY <2>1, FS_Subset, FS_CardinalityType
<1>2. PICK c \in C : \A d \in C : c <= d
  <2>1. C \in SUBSET Nat /\ C # {}
    BY <1>1
  <2> QED
    BY <2>1, LeastIsThere
<1>3. PICK x \in T : c = Cardinality(Above(x))
  BY <1>2
<1>4. ASSUME NEW y \in T, x < y PROVE FALSE
  <2>1. x \in Nat /\ y \in Nat /\ y \in Above(x) /\ y \notin Above(y)
    BY <1>4
  <2>2. \A z \in Above(y) : z \in Above(x)
    BY <1>4, <2>1
  <2>3. Above(y) \in SUBSET Above(x) /\ Above(y) # Above(x)
    BY <2>1, <2>2
  <2>4. Cardinality(Above(y)) <= Cardinality(Above(x)) /\ Cardinality(Above(y)) # Cardinality(Above(x))
    BY <1>1, <2>3, FS_Subset
  <2>5. Cardinality(Above(x)) <= Cardinality(Above(y))
    BY <1>2, <1>3
  <2> QED
    BY <1>1, <2>4, <2>5
<1> QED
  BY <1>4

(* A page is empty only when nothing is left beyond it, and otherwise      *)
(* leaves out nothing up to its last device.                               *)
LEMMA PageIsWhole ==
  ASSUME TypeOK, NEW n \in Notices, NEW after \in Nat
  PROVE  /\ Batch(n, after) \in SUBSET devices /\ IsFiniteSet(Batch(n, after))
         /\ Batch(n, after) = {} => \A d \in devices : d <= after
         /\ \A e \in Batch(n, after), d \in devices :
              after < d /\ d <= e => d \in Batch(n, after)
         /\ \A e \in Batch(n, after) : after < e
<1> DEFINE Before(d) == {e \in devices : e > after /\ e < d}
<1>1. devices \in SUBSET Nat /\ IsFiniteSet(devices)
  BY DeliveriesAssumption, FS_Subset DEF TypeOK
<1>2. ASSUME NEW d \in devices
      PROVE  IsFiniteSet(Before(d)) /\ Cardinality(Before(d)) \in Nat
  <2>1. Before(d) \in SUBSET devices
    OBVIOUS
  <2> QED
    BY <1>1, <2>1, FS_Subset, FS_CardinalityType
<1>3. Batch(n, after) = {d \in devices : d > after /\ Cardinality(Before(d)) < Limit}
  BY DEF Batch
<1>4. Batch(n, after) \in SUBSET devices /\ IsFiniteSet(Batch(n, after))
  <2>1. Batch(n, after) \in SUBSET devices
    BY <1>3
  <2> QED
    BY <1>1, <2>1, FS_Subset
<1>5. ASSUME Batch(n, after) = {}, NEW d \in devices, ~(d <= after) PROVE FALSE
  <2> DEFINE Left == {e \in devices : e > after}
  <2>1. Left \in SUBSET Nat /\ Left # {}
    <3>1. d \in Nat
      BY <1>1
    <3>2. d > after
      BY <1>5, <3>1
    <3> QED
      BY <1>1, <3>2
  <2>2. PICK e \in Left : \A x \in Left : e <= x
    BY <2>1, LeastIsThere
  <2>3. Before(e) = {}
    <3>1. ASSUME NEW x \in Before(e) PROVE FALSE
      <4>1. x \in Left /\ x < e /\ e <= x
        BY <2>2, <3>1
      <4>2. x \in Nat /\ e \in Nat
        BY <1>1, <2>2, <4>1
      <4> QED
        BY <4>1, <4>2
    <3> QED
      BY <3>1
  <2>4. Cardinality(Before(e)) = 0
    BY <2>3, FS_EmptySet
  <2> QED
    BY <1>3, <1>5, <2>2, <2>4, DeliveriesAssumption
<1>6. ASSUME NEW e \in Batch(n, after), NEW d \in devices, after < d, d <= e
      PROVE  d \in Batch(n, after)
  <2>1. e \in devices /\ Cardinality(Before(e)) < Limit
    BY <1>3
  <2>2. Before(d) \in SUBSET Before(e)
    <3>1. ASSUME NEW x \in Before(d) PROVE x \in Before(e)
      <4>1. x \in devices /\ x > after /\ x < d
        BY <3>1
      <4>2. x \in Nat /\ d \in Nat /\ e \in Nat
        BY <1>1, <2>1, <4>1
      <4>3. x < e
        BY <1>6, <4>1, <4>2
      <4> QED
        BY <4>1, <4>3
    <3> QED
      BY <3>1
  <2>3. Cardinality(Before(d)) <= Cardinality(Before(e))
    BY <1>2, <2>1, <2>2, FS_Subset
  <2>4. Cardinality(Before(d)) < Limit
    BY <1>2, <2>1, <2>3, DeliveriesAssumption
  <2> QED
    BY <1>3, <1>6, <2>4
<1>7. \A e \in Batch(n, after) : after < e
  BY <1>1, <1>3
<1> QED
  BY <1>4, <1>5, <1>6, <1>7

-----------------------------------------------------------------------------
(* Jobs *)

(* Every job is named by a request and a number. *)
LEMMA JobsArePairs ==
  ASSUME TypeOK, NEW j \in DOMAIN jobs
  PROVE  /\ j[1] \in Audited \cup Notices /\ j \in JobsOf(j[1])
         /\ j = <<j[1], j[2]>> /\ j[2] \in Nat
<1>1. j[1] \in Audited \cup Notices /\ j \in JobsOf(j[1])
  BY DEF TypeOK, JobsTyped, JobsOf
<1>2. j \in {j[1]} \X (1 .. Cardinality(JobsOf(j[1])))
  BY <1>1 DEF TypeOK, JobsNumbered
<1> QED
  BY <1>1, <1>2

LEMMA JobsOfAreFinite ==
  ASSUME TypeOK, NEW r
  PROVE  /\ JobsOf(r) \in SUBSET DOMAIN jobs /\ IsFiniteSet(JobsOf(r))
         /\ Cardinality(JobsOf(r)) \in Nat
<1>1. JobsOf(r) \in SUBSET DOMAIN jobs
  BY DEF JobsOf
<1> QED
  BY <1>1, FS_Subset, FS_CardinalityType DEF TypeOK, JobsNumbered

(* A job that is added has a new number, and the others stay as they are.  *)
LEMMA AddKeepsJobs ==
  ASSUME TypeOK, NEW r \in Audited \cup Notices, NEW job, Add(r, job)
  PROVE  /\ JobsNumbered'
         /\ \E new : /\ new \notin DOMAIN jobs /\ new[1] = r
                     /\ DOMAIN jobs' = DOMAIN jobs \cup {new} /\ jobs'[new] = job
                     /\ \A j \in DOMAIN jobs : jobs'[j] = jobs[j]
                     /\ JobsOf(r)' = JobsOf(r) \cup {new}
         /\ \A q : q # r => JobsOf(q)' = JobsOf(q)
<1> DEFINE c == Cardinality(JobsOf(r))
           new == <<r, c + 1>>
<1>1. c \in Nat /\ IsFiniteSet(JobsOf(r)) /\ JobsOf(r) = {r} \X (1 .. c)
  BY JobsOfAreFinite DEF TypeOK, JobsNumbered
<1>2. new[1] = r /\ new \notin JobsOf(r)
  BY <1>1
<1>3. new \notin DOMAIN jobs
  BY <1>2 DEF JobsOf
<1>4. jobs' = [j \in DOMAIN jobs \cup {new} |-> IF j = new THEN job ELSE jobs[j]]
  BY DEF Add
<1> HIDE DEF new
<1>5. /\ DOMAIN jobs' = DOMAIN jobs \cup {new} /\ jobs'[new] = job
      /\ \A j \in DOMAIN jobs : jobs'[j] = jobs[j]
      /\ jobs' = [j \in DOMAIN jobs' |-> jobs'[j]]
  BY <1>3, <1>4
<1>6. JobsOf(r)' = JobsOf(r) \cup {new} /\ \A q : q # r => JobsOf(q)' = JobsOf(q)
  BY <1>2, <1>5 DEF JobsOf
<1>7. Cardinality(JobsOf(r) \cup {new}) = c + 1
  BY <1>1, <1>2, FS_AddElement
<1>8. JobsOf(r) \cup {new} = {r} \X (1 .. c + 1)
  <2>1. 1 .. c + 1 = (1 .. c) \cup {c + 1}
    BY <1>1
  <2>2. JobsOf(r) \cup {new} = {r} \X ((1 .. c) \cup {c + 1})
    <3> HIDE DEF c
    <3> QED
      BY <1>1 DEF new
  <2> QED
    BY <2>1, <2>2
<1>9. ASSUME NEW q \in Audited \cup Notices
      PROVE  JobsOf(q)' = {q} \X (1 .. Cardinality(JobsOf(q)'))
  <2>1. CASE q = r
    BY <1>6, <1>7, <1>8, <2>1
  <2>2. CASE q # r
    BY <1>6, <2>2 DEF TypeOK, JobsNumbered
  <2> QED
    BY <2>1, <2>2
<1>10. IsFiniteSet(DOMAIN jobs')
  BY <1>5, FS_AddElement DEF TypeOK, JobsNumbered
<1>11. JobsNumbered'
  BY <1>5, <1>9, <1>10 DEF JobsNumbered
<1> QED
  BY <1>2, <1>3, <1>5, <1>6, <1>11

(* The jobs are those there were, whatever has become of them. *)
SameJobs ==
  /\ jobs' = [j \in DOMAIN jobs |-> jobs'[j]]
  /\ \A j \in DOMAIN jobs :
       /\ JobOK(jobs'[j])
       /\ jobs'[j].what = jobs[j].what /\ jobs'[j].queue = jobs[j].queue

(* The jobs of a request carry what they carried. *)
SameJobsOf(r) ==
  JobsOf(r)' = JobsOf(r) /\ \A j \in JobsOf(r) : jobs'[j].what = jobs[j].what

LEMMA SameJobsStay ==
  ASSUME TypeOK, SameJobs
  PROVE  JobsNumbered' /\ JobsTyped' /\ \A r : SameJobsOf(r)
<1>1. DOMAIN jobs' = DOMAIN jobs
  BY DEF SameJobs
<1>2. \A r : JobsOf(r)' = JobsOf(r)
  BY <1>1 DEF JobsOf
<1>3. JobsNumbered'
  BY <1>1, <1>2 DEF TypeOK, JobsNumbered, SameJobs
<1>4. JobsTyped'
  BY <1>1 DEF TypeOK, JobsTyped, SameJobs
<1>5. \A r : SameJobsOf(r)
  BY <1>2 DEF SameJobs, JobsOf, SameJobsOf
<1> QED
  BY <1>3, <1>4, <1>5

LEMMA UnchangedJobsAreSame ==
  ASSUME TypeOK, UNCHANGED jobs
  PROVE  SameJobs
BY DEF TypeOK, JobsNumbered, JobsTyped, SameJobs
-----------------------------------------------------------------------------
(* What keeps the parts of the invariant *)

(* Logs stay true while what they may say of their request stays so. *)
LEMMA LogsStay ==
  ASSUME TypeOK, Logs, adding' \in SUBSET adding, \A r \in Audited : SameJobsOf(r),
         \A r \in Audited, what \in Texts : Tells(r, what) => Tells(r, what)'
  PROVE  Logs'
<1>1. \A r \in Audited : JobsOf(r)' = JobsOf(r)
  BY DEF SameJobsOf
<1>2. \A a \in adding : a.of \in Audited /\ a.what \in Texts
  BY DEF TypeOK
<1>3. \A a \in adding' : Tells(a.of, a.what)' /\ JobsOf(a.of)' = {}
  BY <1>1, <1>2 DEF Logs
<1>4. ASSUME NEW r \in Audited, NEW j \in JobsOf(r)', NEW what, what = jobs'[j].what
      PROVE  Tells(r, what)' /\ JobsOf(r)' = {j}
  <2>1. j \in JobsOf(r) /\ j \in DOMAIN jobs /\ j[1] = r
    BY <1>1, <1>4 DEF JobsOf
  <2>2. what = jobs[j].what
    BY <1>4, <2>1 DEF SameJobsOf
  <2>3. Tells(r, what) /\ JobsOf(r) = {j}
    BY <2>1, <2>2 DEF Logs
  <2>4. what \in Texts
    <3>1. JobOK(jobs[j]) /\ jobs[j].queue = "log"
      BY <2>1 DEF TypeOK, JobsTyped
    <3>2. jobs[j] \in LogJob
      BY <3>1 DEF JobOK, PushJob
    <3> QED
      BY <2>2, <3>2 DEF LogJob
  <2> QED
    BY <1>1, <2>3, <2>4
<1>5. \A r \in Audited : \A j \in JobsOf(r)' : Tells(r, jobs[j].what)' /\ JobsOf(r)' = {j}
  BY <1>4
<1>6. \A a, b \in adding' : a.of = b.of => a = b
  BY DEF Logs
<1> QED
  BY <1>3, <1>5, <1>6 DEF Logs

(* The pages of a notification stay as they are while sendBatch neither    *)
(* reads nor adds one; it may end.                                         *)
LEMMA PagesOfStay ==
  ASSUME TypeOK, NEW n \in Notices, PagesOf(n), SameJobsOf(n),
         devices' \in SUBSET devices, stored \in SUBSET stored',
         \/ sending'[n] = sending[n]
         \/ sending[n].pc # "none" /\ sending'[n].pc = "lost",
         req'[n] = "idle" => req[n] = "idle"
  PROVE  PagesOf(n)'
<1>1. JobsOf(n)' = JobsOf(n) /\ Batched(n)' = Batched(n)
  BY DEF SameJobsOf, Batched
<1>2. \A j \in JobsOf(n) : jobs'[j].what = jobs[j].what
  BY DEF SameJobsOf
<1>3. \A j, k \in JobsOf(n)' : j # k => jobs'[j].what \cap jobs'[k].what = {}
  BY <1>1, <1>2 DEF PagesOf
<1>4. CASE sending'[n] = sending[n]
  BY <1>1, <1>3, <1>4 DEF PagesOf
<1>5. CASE sending[n].pc # "none" /\ sending'[n].pc = "lost"
  BY <1>1, <1>3, <1>5 DEF PagesOf
<1> QED
  BY <1>4, <1>5

(* Jobs that go on by themselves disturb nothing. *)
LEMMA SameJobsKeep ==
  ASSUME IInv, SameJobs,
         UNCHANGED <<route, req, adding, sending, stored, devices>>
  PROVE  IInv'
<1>1. TypeOK'
  BY SameJobsStay DEF IInv, TypeOK
<1>2. Logs'
  <2>1. \A r \in Audited, what \in Texts : Tells(r, what) => Tells(r, what)'
    BY DEF Tells
  <2> QED
    BY <2>1, LogsStay, SameJobsStay DEF IInv
<1>3. Pages'
  BY PagesOfStay, SameJobsStay DEF IInv, Pages
<1> QED
  BY <1>1, <1>2, <1>3 DEF IInv

-----------------------------------------------------------------------------
(* The workers *)

Follows(job, next) == JobOK(next) /\ next.what = job.what /\ next.queue = job.queue

LEMMA AttemptsOfQueues ==
  Attempts["log"] \in Nat \ {0} /\ Attempts["push"] \in Nat \ {0} /\ MaxStalled \in Nat
BY DeliveriesAssumption

(* An attempt that has ended leaves a job that has had its effect no more  *)
(* often than it may.                                                      *)
LEMMA AttemptEnds ==
  ASSUME NEW job, JobOK(job), job.state = "active", NEW effect \in {0, 1}
  PROVE  /\ Follows(job, Failed([job EXCEPT !.done = @ + effect]))
         /\ Follows(job, Stalled([job EXCEPT !.done = @ + effect]))
         /\ Follows(job, Removed([job EXCEPT !.done = @ + 1], "completed"))
<1>1. /\ Attempts[job.queue] \in Nat \ {0} /\ MaxStalled \in Nat
      /\ job.made < Attempts[job.queue] /\ job.stalled <= MaxStalled
      /\ job.done <= job.made + job.stalled
      /\ job.made \in Nat /\ job.stalled \in Nat /\ job.done \in Nat
  BY AttemptsOfQueues DEF JobOK, LogJob, PushJob, Ended
<1>2. ASSUME NEW S \in {LogJob, PushJob}, job \in S
      PROVE  /\ Follows(job, Failed([job EXCEPT !.done = @ + effect]))
             /\ Follows(job, Stalled([job EXCEPT !.done = @ + effect]))
             /\ Follows(job, Removed([job EXCEPT !.done = @ + 1], "completed"))
  <2>1. /\ job.done + effect \in Nat /\ job.done + effect <= Attempts[job.queue] + MaxStalled
        /\ job.done + 1 \in Nat /\ job.done + 1 <= Attempts[job.queue] + MaxStalled
        /\ job.done + 1 > 0
    BY <1>1
  <2>2. ASSUME NEW d \in Nat, d <= Attempts[job.queue] + MaxStalled,
               NEW state \in Ended, state = "completed" => d > 0
        PROVE  Follows(job, Removed([job EXCEPT !.done = d], state))
    BY <1>1, <1>2, <2>2 DEF Follows, JobOK, Removed, LogJob, PushJob, JobStates, Ended
  <2>3. ASSUME job.made + 1 < Attempts[job.queue]
        PROVE  Follows(job, Failed([job EXCEPT !.done = job.done + effect]))
    <3>1. ASSUME NEW done \in Nat, NEW made \in Nat
          PROVE  LET next == [job EXCEPT !.done = done, !.made = made, !.state = "waiting"]
                 IN  /\ next \in S /\ next.what = job.what /\ next.queue = job.queue
                     /\ next.state = "waiting" /\ next.made = made
                     /\ next.stalled = job.stalled /\ next.done = done
      <4>1. CASE S = LogJob
        BY <1>2, <4>1 DEF LogJob, JobStates
      <4>2. CASE S = PushJob
        BY <1>2, <4>2 DEF PushJob, JobStates
      <4> QED
        BY <4>1, <4>2
    <3> DEFINE next == [job EXCEPT !.done = job.done + effect, !.made = job.made + 1, !.state = "waiting"]
    <3>2. Failed([job EXCEPT !.done = job.done + effect]) = next
      BY <1>2, <2>3 DEF Failed, LogJob, PushJob
    <3>3. /\ next \in S /\ next.what = job.what /\ next.queue = job.queue
          /\ next.state = "waiting" /\ next.made = job.made + 1
          /\ next.stalled = job.stalled /\ next.done = job.done + effect
      <4>1. job.made + 1 \in Nat
        BY <1>1
      <4> QED
        BY <2>1, <3>1, <4>1
    <3>4. /\ next.done <= next.made + next.stalled /\ next.done <= Attempts[job.queue] + MaxStalled
          /\ next.made < Attempts[job.queue] /\ next.stalled <= MaxStalled
      BY <1>1, <2>1, <2>3, <3>3
    <3> HIDE DEF next
    <3> QED
      BY <3>2, <3>3, <3>4 DEF Follows, JobOK
  <2>4. ASSUME ~(job.made + 1 < Attempts[job.queue])
        PROVE  Follows(job, Failed([job EXCEPT !.done = job.done + effect]))
    <3>1. Failed([job EXCEPT !.done = job.done + effect])
            = Removed([job EXCEPT !.done = job.done + effect], "failed")
      BY <1>2, <2>4 DEF Failed, LogJob, PushJob
    <3> QED
      BY <2>1, <2>2, <3>1 DEF Ended
  <2>5. ASSUME job.stalled < MaxStalled
        PROVE  Follows(job, Stalled([job EXCEPT !.done = job.done + effect]))
    <3>1. ASSUME NEW done \in Nat, NEW stalled \in Nat
          PROVE  LET next == [job EXCEPT !.done = done, !.stalled = stalled, !.state = "waiting"]
                 IN  /\ next \in S /\ next.what = job.what /\ next.queue = job.queue
                     /\ next.state = "waiting" /\ next.stalled = stalled
                     /\ next.made = job.made /\ next.done = done
      <4>1. CASE S = LogJob
        BY <1>2, <4>1 DEF LogJob, JobStates
      <4>2. CASE S = PushJob
        BY <1>2, <4>2 DEF PushJob, JobStates
      <4> QED
        BY <4>1, <4>2
    <3> DEFINE next == [job EXCEPT !.done = job.done + effect, !.stalled = job.stalled + 1, !.state = "waiting"]
    <3>2. Stalled([job EXCEPT !.done = job.done + effect]) = next
      <4>1. [job EXCEPT !.done = job.done + effect].stalled = job.stalled
        BY <1>2 DEF LogJob, PushJob
      <4>2. Stalled([job EXCEPT !.done = job.done + effect])
              = [[job EXCEPT !.done = job.done + effect] EXCEPT !.state = "waiting", !.stalled = job.stalled + 1]
        BY <2>5, <4>1 DEF Stalled
      <4>3. CASE S = LogJob
        BY <1>2, <4>2, <4>3 DEF LogJob
      <4>4. CASE S = PushJob
        BY <1>2, <4>2, <4>4 DEF PushJob
      <4> QED
        BY <4>3, <4>4
    <3>3. /\ next \in S /\ next.what = job.what /\ next.queue = job.queue
          /\ next.state = "waiting" /\ next.stalled = job.stalled + 1
          /\ next.made = job.made /\ next.done = job.done + effect
      <4>1. job.stalled + 1 \in Nat
        BY <1>1
      <4> QED
        BY <2>1, <3>1, <4>1
    <3>4. /\ next.done <= next.made + next.stalled /\ next.done <= Attempts[job.queue] + MaxStalled
          /\ next.made < Attempts[job.queue] /\ next.stalled <= MaxStalled
      BY <1>1, <2>1, <2>5, <3>3
    <3> HIDE DEF next
    <3> QED
      BY <3>2, <3>3, <3>4 DEF Follows, JobOK
  <2>6. ASSUME ~(job.stalled < MaxStalled)
        PROVE  Follows(job, Stalled([job EXCEPT !.done = job.done + effect]))
    <3>1. Stalled([job EXCEPT !.done = job.done + effect])
            = Removed([job EXCEPT !.done = job.done + effect], "failed")
      BY <1>2, <2>6 DEF Stalled, LogJob, PushJob
    <3> QED
      BY <2>1, <2>2, <3>1 DEF Ended
  <2>7. Follows(job, Removed([job EXCEPT !.done = job.done + 1], "completed"))
    BY <2>1, <2>2 DEF Ended
  <2> QED
    BY <2>3, <2>4, <2>5, <2>6, <2>7
<1> QED
  BY <1>2 DEF JobOK

(* One job that follows on itself, and the others as they are. *)
LEMMA PutKeeps ==
  ASSUME IInv, NEW j \in DOMAIN jobs, NEW job, Put(j, job), Follows(jobs[j], job)
  PROVE  IInv'
<1>1. jobs' = [jobs EXCEPT ![j] = job]
  BY DEF Put
<1>2. /\ jobs' = [k \in DOMAIN jobs |-> jobs'[k]] /\ jobs'[j] = job
      /\ \A k \in DOMAIN jobs : k # j => jobs'[k] = jobs[k]
  BY <1>1
<1>3. \A k \in DOMAIN jobs : JobOK(jobs[k])
  BY DEF IInv, TypeOK, JobsTyped
<1>4. SameJobs
  BY <1>2, <1>3 DEF SameJobs, Follows
<1> QED
  BY <1>4, SameJobsKeep DEF Put

LEMMA WorkersKeep ==
  ASSUME IInv, NEW j \in DOMAIN jobs, Take(j) \/ Complete(j) \/ Fail(j) \/ Stall(j)
  PROVE  IInv'
<1>1. JobOK(jobs[j])
  BY DEF IInv, TypeOK, JobsTyped
<1>2. CASE Take(j)
  <2>1. Follows(jobs[j], [jobs[j] EXCEPT !.state = "active"])
    BY <1>1, <1>2 DEF Take, Follows, JobOK, LogJob, PushJob, JobStates, Ended
  <2> QED
    BY <1>2, <2>1, PutKeeps DEF Take
<1>3. CASE Complete(j)
  BY <1>1, <1>3, AttemptEnds, PutKeeps DEF Complete
<1>4. CASE Fail(j)
  <2>1. PICK effect \in {0, 1} : Put(j, Failed([jobs[j] EXCEPT !.done = @ + effect]))
    BY <1>4 DEF Fail
  <2>2. Follows(jobs[j], Failed([jobs[j] EXCEPT !.done = @ + effect]))
    BY <1>1, <1>4, AttemptEnds DEF Fail
  <2> QED
    BY <2>1, <2>2, PutKeeps
<1>5. CASE Stall(j)
  <2>1. PICK effect \in {0, 1} : Put(j, Stalled([jobs[j] EXCEPT !.done = @ + effect]))
    BY <1>5 DEF Stall
  <2>2. Follows(jobs[j], Stalled([jobs[j] EXCEPT !.done = @ + effect]))
    BY <1>1, <1>5, AttemptEnds DEF Stall
  <2> QED
    BY <2>1, <2>2, PutKeeps
<1> QED
  BY <1>2, <1>3, <1>4, <1>5
-----------------------------------------------------------------------------
(* The audit log *)

(* A request without a log gets one that is true. *)
LEMMA LogAdded ==
  ASSUME TypeOK, Logs, UNCHANGED jobs, NEW r \in Audited,
         NEW new \in SUBSET [of : {r}, what : Texts], adding' = adding \cup new,
         \A a, b \in new : a = b, \A a \in new : Tells(r, a.what)',
         new = {} \/ (JobsOf(r) = {} /\ \A a \in adding : a.of # r),
         \A q \in Audited, what \in Texts : Tells(q, what) => Tells(q, what)'
  PROVE  Logs'
<1>1. \A q : JobsOf(q)' = JobsOf(q)
  BY DEF JobsOf
<1>2. \A a \in adding : a.of \in Audited /\ a.what \in Texts
  BY DEF TypeOK
<1>3. \A a \in new : a.of = r
  OBVIOUS
<1>4. ASSUME NEW a \in adding' PROVE Tells(a.of, a.what)' /\ JobsOf(a.of)' = {}
  <2>1. CASE a \in adding
    BY <1>1, <1>2, <2>1 DEF Logs
  <2>2. CASE a \in new
    BY <1>1, <1>3, <2>2
  <2> QED
    BY <2>1, <2>2
<1>5. ASSUME NEW a \in adding', NEW b \in adding', a.of = b.of PROVE a = b
  <2>1. CASE a \in adding /\ b \in adding
    BY <1>5, <2>1 DEF Logs
  <2>2. CASE a \in new \/ b \in new
    BY <1>3, <1>5, <2>2
  <2> QED
    BY <2>1, <2>2
<1>6. ASSUME NEW q \in Audited, NEW j \in JobsOf(q)'
      PROVE  Tells(q, jobs[j].what)' /\ JobsOf(q)' = {j}
  <2>1. Tells(q, jobs[j].what) /\ JobsOf(q) = {j} /\ j \in DOMAIN jobs /\ j[1] = q
    BY <1>1 DEF Logs, JobsOf
  <2>2. JobOK(jobs[j]) /\ jobs[j].queue = "log"
    BY <2>1 DEF TypeOK, JobsTyped
  <2>3. jobs[j].what \in Texts
    BY <2>2 DEF JobOK, LogJob, PushJob
  <2>4. Tells(q, jobs[j].what)'
    <3>1. ASSUME NEW what \in Texts, Tells(q, what), jobs[j].what = what
          PROVE  Tells(q, jobs[j].what)'
      BY <3>1 DEF Tells
    <3> QED
      BY <2>1, <2>3, <3>1
  <2> QED
    BY <1>1, <2>1, <2>4
<1> QED
  BY <1>4, <1>5, <1>6 DEF Logs

(* What the steps of a request leave alone. *)
LEMMA RequestKeeps ==
  ASSUME IInv, NEW r \in Audited, NEW end \in Ends \ {"idle"},
         req' = [req EXCEPT ![r] = end], adding' \in SUBSET [of : Audited, what : Texts],
         UNCHANGED <<route, sending, stored, devices, jobs>>
  PROVE  /\ TypeOK' /\ Pages' /\ SameJobs /\ req'[r] = end
         /\ \A q \in Audited \cup Notices : q # r => req'[q] = req[q]
         /\ \A q \in Audited \ {r}, what \in Texts : Tells(q, what) => Tells(q, what)'
<1>1. SameJobs
  BY UnchangedJobsAreSame DEF IInv
<1>2. req \in [Audited \cup Notices -> Ends]
  BY DEF IInv, TypeOK
<1>3. /\ req' \in [Audited \cup Notices -> Ends] /\ req'[r] = end
      /\ \A q \in Audited \cup Notices : q # r => req'[q] = req[q]
  BY <1>2
<1>4. TypeOK'
  BY <1>1, <1>3, SameJobsStay DEF IInv, TypeOK
<1>5. \A n \in Notices : PagesOf(n)'
  BY <1>1, <1>3, PagesOfStay, SameJobsStay, DeliveriesAssumption DEF IInv, Pages
<1>6. \A q \in Audited \ {r}, what \in Texts : Tells(q, what) => Tells(q, what)'
  BY <1>3 DEF Tells
<1> QED
  BY <1>1, <1>3, <1>4, <1>5, <1>6 DEF Pages

LEMMA RefuseKeeps ==
  ASSUME IInv, NEW r \in Audited, Refuse(r)
  PROVE  IInv'
<1>1. req' = [req EXCEPT ![r] = "unauthorized"] /\ adding' \in SUBSET [of : Audited, what : Texts]
  BY DEF Refuse, IInv, TypeOK
<1>2. "unauthorized" \in Ends \ {"idle"}
  BY DEF Ends
<1>3. UNCHANGED <<route, sending, stored, devices, jobs>>
  BY DEF Refuse
<1>4. /\ TypeOK' /\ Pages' /\ SameJobs
      /\ \A q \in Audited \ {r}, what \in Texts : Tells(q, what) => Tells(q, what)'
  BY <1>1, <1>2, <1>3, RequestKeeps
<1>5. \A what \in Texts : ~Tells(r, what)
  BY DEF Refuse, Tells
<1>6. \A q \in Audited, what \in Texts : Tells(q, what) => Tells(q, what)'
  BY <1>4, <1>5
<1>7. Logs'
  BY <1>4, <1>6, LogsStay, SameJobsStay DEF IInv, Refuse
<1> QED
  BY <1>4, <1>7 DEF IInv

LEMMA InterceptKeeps ==
  ASSUME IInv, NEW r \in Audited, Intercept(r)
  PROVE  IInv'
<1> DEFINE new == IF route[r].logResponse THEN {} ELSE {[of |-> r, what |-> "request"]}
<1>1. adding' = adding \cup new /\ UNCHANGED <<route, sending, stored, devices, jobs>>
  BY DEF Intercept
<1>2. new \in SUBSET [of : {r}, what : Texts]
  BY DEF Texts
<1>3. req' = [req EXCEPT ![r] = "handling"] /\ adding' \in SUBSET [of : Audited, what : Texts]
  BY <1>1, <1>2 DEF Intercept, IInv, TypeOK
<1>4. "handling" \in Ends \ {"idle"}
  BY DEF Ends
<1>5. /\ TypeOK' /\ Pages' /\ req'[r] = "handling"
      /\ \A q \in Audited \ {r}, what \in Texts : Tells(q, what) => Tells(q, what)'
  BY <1>1, <1>3, <1>4, RequestKeeps
<1>6. \A what : ~Tells(r, what)
  BY DEF Intercept, Tells
<1>7. JobsOf(r) = {} /\ \A a \in adding : a.of # r
  BY <1>6 DEF IInv, Logs
<1>8. \A a \in new : Tells(r, a.what)'
  BY <1>1, <1>5 DEF Tells
<1>9. Logs'
  <2>1. \A a, b \in new : a = b
    OBVIOUS
  <2> HIDE DEF new
  <2> QED
    BY <1>1, <1>2, <1>5, <1>6, <1>7, <1>8, <2>1, LogAdded DEF IInv
<1> QED
  BY <1>5, <1>9 DEF IInv

LEMMA HandledKeeps ==
  ASSUME IInv, NEW r \in Audited, Handled(r)
  PROVE  IInv'
<1>1. PICK end \in {"answered", "thrown"} :
        req' = [req EXCEPT ![r] = end] /\ adding' = adding \cup LogsOf(r, end)
  BY DEF Handled
<1>2. req[r] = "handling" /\ UNCHANGED <<route, sending, stored, devices, jobs>>
  BY DEF Handled
<1>3. LogsOf(r, end) \in SUBSET [of : {r}, what : Texts]
  BY DEF LogsOf, Texts
<1>4. adding' \in SUBSET [of : Audited, what : Texts] /\ end \in Ends \ {"idle"}
  BY <1>1, <1>3 DEF IInv, TypeOK, Ends
<1>5. /\ TypeOK' /\ Pages' /\ req'[r] = end
      /\ \A q \in Audited \ {r}, what \in Texts : Tells(q, what) => Tells(q, what)'
  BY <1>1, <1>2, <1>4, RequestKeeps
<1>6. ASSUME NEW what \in Texts, Tells(r, what)
      PROVE  Tells(r, what)' /\ ~route[r].logResponse
  BY <1>1, <1>2, <1>5, <1>6 DEF Tells, Texts
<1>7. ASSUME LogsOf(r, end) # {}
      PROVE  JobsOf(r) = {} /\ \A a \in adding : a.of # r
  <2>1. route[r].logResponse
    BY <1>7 DEF LogsOf
  <2>2. \A what \in Texts : ~Tells(r, what)
    BY <1>6, <2>1
  <2>3. \A j \in JobsOf(r) : jobs[j].what \in Texts
    BY DEF IInv, TypeOK, JobsTyped, JobsOf, JobOK, LogJob, PushJob
  <2>4. \A a \in adding : a.what \in Texts
    BY DEF IInv, TypeOK
  <2> QED
    BY <2>2, <2>3, <2>4 DEF IInv, Logs
<1>8. /\ \A a, b \in LogsOf(r, end) : a = b
      /\ \A a \in LogsOf(r, end) : Tells(r, a.what)'
  BY <1>1, <1>2, <1>5 DEF LogsOf, Tells
<1>9. Logs'
  BY <1>1, <1>2, <1>3, <1>5, <1>6, <1>7, <1>8, LogAdded DEF IInv
<1> QED
  BY <1>5, <1>9 DEF IInv

LEMMA LogIsQueuedKeeps ==
  ASSUME IInv, LogIsQueued
  PROVE  IInv'
<1>1. PICK log \in adding : adding' = adding \ {log} /\ Add(log.of, Job("log", log.what))
  BY DEF LogIsQueued
<1> DEFINE r == log.of
           job == Job("log", log.what)
<1>2. r \in Audited /\ log.what \in Texts /\ UNCHANGED <<route, req, sending, stored, devices>>
  BY DEF LogIsQueued, IInv, TypeOK
<1>3. PICK new : /\ new \notin DOMAIN jobs /\ new[1] = r
                 /\ DOMAIN jobs' = DOMAIN jobs \cup {new} /\ jobs'[new] = job
                 /\ \A j \in DOMAIN jobs : jobs'[j] = jobs[j]
                 /\ JobsOf(r)' = JobsOf(r) \cup {new}
  BY <1>1, <1>2, AddKeepsJobs DEF IInv
<1>4. JobsNumbered' /\ \A q : q # r => JobsOf(q)' = JobsOf(q)
  BY <1>1, <1>2, AddKeepsJobs DEF IInv
<1>5. JobOK(job) /\ job.queue = "log" /\ job.what = log.what
  BY <1>2, AttemptsOfQueues DEF Job, JobOK, LogJob, JobStates, Ended
<1> HIDE DEF job, r
<1>6. JobsTyped'
  BY <1>2, <1>3, <1>5 DEF IInv, TypeOK, JobsTyped
<1>7. TypeOK'
  BY <1>1, <1>2, <1>4, <1>6 DEF IInv, TypeOK
<1>8. JobsOf(r) = {} /\ JobsOf(r)' = {new} /\ Tells(r, log.what)
  BY <1>3 DEF IInv, Logs, r
<1>9. ASSUME NEW q \in Audited \cup Notices, q # r
      PROVE  SameJobsOf(q)
  BY <1>3, <1>4, <1>9 DEF SameJobsOf, JobsOf
<1>10. \A n \in Notices : PagesOf(n)'
  BY <1>2, <1>9, PagesOfStay, DeliveriesAssumption DEF IInv, Pages
<1>11. Logs'
  <2>1. \A what : \A q \in Audited : Tells(q, what)' <=> Tells(q, what)
    BY <1>2 DEF Tells
  <2>2. \A a \in adding' : a \in adding /\ a.of \in Audited /\ a.of # r
    BY <1>1 DEF IInv, Logs, TypeOK, r
  <2>3. \A a \in adding' : Tells(a.of, a.what)' /\ JobsOf(a.of)' = {}
    BY <1>4, <2>1, <2>2 DEF IInv, Logs
  <2>4. \A a, b \in adding' : a.of = b.of => a = b
    BY <2>2 DEF IInv, Logs
  <2>5. ASSUME NEW q \in Audited, NEW j \in JobsOf(q)', NEW what, what = jobs'[j].what
        PROVE  Tells(q, what)' /\ JobsOf(q)' = {j}
    <3>1. CASE q = r
      BY <1>3, <1>5, <1>8, <2>1, <2>5, <3>1
    <3>2. CASE q # r
      <4>1. j \in JobsOf(q) /\ what = jobs[j].what /\ JobsOf(q)' = JobsOf(q)
        BY <1>9, <2>5, <3>2 DEF SameJobsOf
      <4> QED
        BY <2>1, <4>1 DEF IInv, Logs
    <3> QED
      BY <3>1, <3>2
  <2>6. \A q \in Audited : \A j \in JobsOf(q)' : Tells(q, jobs[j].what)' /\ JobsOf(q)' = {j}
    BY <2>5
  <2> QED
    BY <2>3, <2>4, <2>6 DEF Logs
<1> QED
  BY <1>7, <1>10, <1>11 DEF IInv, Pages
-----------------------------------------------------------------------------
(* Notifications *)

(* Nothing that is said of audited requests is about a notification. *)
LEMMA NoticesLeaveLogs ==
  ASSUME IInv, NEW n \in Notices, UNCHANGED <<route, adding>>,
         \A r \in Audited : req'[r] = req[r],
         \A r \in Audited : SameJobsOf(r)
  PROVE  Logs'
<1>1. \A r \in Audited, what \in Texts : Tells(r, what) => Tells(r, what)'
  BY DEF Tells
<1> QED
  BY <1>1, LogsStay DEF IInv

LEMMA CreateNotificationKeeps ==
  ASSUME IInv, NEW n \in Notices, CreateNotification(n)
  PROVE  IInv'
<1>1. /\ req[n] = "idle" /\ n \notin Audited
      /\ UNCHANGED <<route, adding, devices, jobs>>
  BY DeliveriesAssumption DEF CreateNotification
<1>2. PICK end \in {"thrown", "answered"} : req' = [req EXCEPT ![n] = end]
  BY DEF CreateNotification
<1>3. /\ req' \in [Audited \cup Notices -> Ends] /\ req'[n] # "idle"
      /\ \A r \in Audited \cup Notices : r # n => req'[r] = req[r]
  BY <1>2 DEF IInv, TypeOK, Ends
<1>4. stored' \in SUBSET Notices /\ stored \in SUBSET stored'
  BY DEF CreateNotification, IInv, TypeOK
<1>5. SameJobs /\ \A r : SameJobsOf(r)
  BY <1>1, UnchangedJobsAreSame, SameJobsStay DEF IInv
<1>6. sending[n].pc = "none" /\ JobsOf(n) = {} /\ sending \in [Notices -> Sending]
  BY <1>1 DEF IInv, Pages, PagesOf, TypeOK
<1>7. CASE sending' = sending
  <2>1. TypeOK'
    BY <1>1, <1>3, <1>4, <1>5, <1>7, SameJobsStay DEF IInv, TypeOK
  <2>2. \A m \in Notices : PagesOf(m)'
    BY <1>1, <1>3, <1>4, <1>5, <1>7, PagesOfStay DEF IInv, Pages
  <2>3. Logs'
    BY <1>1, <1>3, <1>5, NoticesLeaveLogs
  <2> QED
    BY <2>1, <2>2, <2>3 DEF IInv, Pages
<1>8. CASE n \in stored' /\ sending' = [sending EXCEPT ![n] = [pc |-> "page", after |-> 0]]
  <2>1. [pc |-> "page", after |-> 0] \in Sending
    BY DEF Sending
  <2>2. /\ sending' \in [Notices -> Sending]
        /\ sending'[n].pc = "page" /\ sending'[n].after = 0
        /\ \A m \in Notices : m # n => sending'[m] = sending[m]
    BY <1>6, <1>8, <2>1
  <2>3. TypeOK'
    BY <1>1, <1>3, <1>4, <1>5, <2>2, SameJobsStay DEF IInv, TypeOK
  <2>4. \A m \in Notices : m # n => PagesOf(m)'
    BY <1>1, <1>3, <1>4, <1>5, <2>2, PagesOfStay DEF IInv, Pages
  <2>5. JobsOf(n)' = {} /\ Batched(n)' = {}
    BY <1>5, <1>6 DEF SameJobsOf, Batched
  <2>6. \A d \in devices' : ~(d <= 0)
    BY <1>1, DeliveriesAssumption DEF IInv, TypeOK
  <2>7. PagesOf(n)'
    BY <1>3, <1>8, <2>2, <2>5, <2>6 DEF PagesOf
  <2>8. Logs'
    BY <1>1, <1>3, <1>5, NoticesLeaveLogs
  <2> QED
    BY <2>3, <2>4, <2>7, <2>8 DEF IInv, Pages
<1> QED
  BY <1>6, <1>7, <1>8 DEF CreateNotification, IInv, TypeOK

(* The page that is read lies beyond all that was batched, and when it is  *)
(* empty every device has been.                                            *)
LEMMA ReadBatchKeeps ==
  ASSUME IInv, NEW n \in Notices, ReadBatch(n)
  PROVE  IInv'
<1> DEFINE after == sending[n].after
           batch == Batch(n, after)
           top == CHOOSE d \in batch : \A e \in batch : e <= d
<1>1. /\ sending[n].pc = "page" /\ sending \in [Notices -> Sending]
      /\ UNCHANGED <<route, req, adding, stored, devices, jobs>>
  BY DEF ReadBatch, IInv, TypeOK
<1>2. sending' = [sending EXCEPT ![n] = IF batch = {} THEN [pc |-> "sent"]
                                        ELSE [pc |-> "add", batch |-> batch, after |-> top]]
  BY DEF ReadBatch
<1>3. after \in Nat /\ n \in stored
  BY <1>1 DEF Sending, NotSending, IInv, Pages, PagesOf
<1>4. /\ batch \in SUBSET devices /\ IsFiniteSet(batch)
      /\ batch = {} => \A d \in devices : d <= after
      /\ \A e \in batch, d \in devices : after < d /\ d <= e => d \in batch
      /\ \A e \in batch : after < e
  BY <1>3, PageIsWhole DEF IInv
<1>5. devices \in SUBSET Devices /\ Devices \in SUBSET Nat
  BY DeliveriesAssumption DEF IInv, TypeOK
<1>6. /\ \A d \in Batched(n) : d <= after /\ d \in Nat
      /\ \A d \in devices : d <= after => d \in Batched(n)
  <2>1. ASSUME NEW j \in JobsOf(n) PROVE jobs[j].what \in SUBSET Devices
    <3>1. JobOK(jobs[j]) /\ jobs[j].queue # "log"
      BY DeliveriesAssumption DEF JobsOf, IInv, TypeOK, JobsTyped
    <3> QED
      BY <3>1 DEF JobOK, LogJob, PushJob
  <2>2. \A d \in Batched(n) : d \in Nat
    BY <1>5, <2>1 DEF Batched
  <2> QED
    BY <1>1, <2>2 DEF IInv, Pages, PagesOf
<1>7. SameJobs /\ \A r : SameJobsOf(r)
  BY <1>1, UnchangedJobsAreSame, SameJobsStay DEF IInv
<1>8. JobsOf(n)' = JobsOf(n) /\ Batched(n)' = Batched(n)
  BY <1>7 DEF SameJobsOf, Batched
<1>9. Logs'
  BY <1>1, <1>7, NoticesLeaveLogs
<1>10. ASSUME sending'[n] \in Sending, \A m \in Notices : m # n => sending'[m] = sending[m],
              sending' = [m \in Notices |-> sending'[m]], PagesOf(n)'
       PROVE  IInv'
  <2>1. TypeOK'
    BY <1>1, <1>7, <1>10, SameJobsStay DEF IInv, TypeOK
  <2>2. \A m \in Notices : m # n => PagesOf(m)'
    BY <1>1, <1>7, <1>10, PagesOfStay DEF IInv, Pages
  <2> QED
    BY <1>9, <1>10, <2>1, <2>2 DEF IInv, Pages
<1>11. /\ \A m \in Notices : m # n => sending'[m] = sending[m]
       /\ sending' = [m \in Notices |-> sending'[m]]
  BY <1>1, <1>2
<1>12. /\ \A j, k \in JobsOf(n)' : j # k => jobs'[j].what \cap jobs'[k].what = {}
       /\ req'[n] # "idle"
  BY <1>1, <1>8 DEF IInv, Pages, PagesOf
<1> HIDE DEF batch, top
<1>13. CASE batch = {}
  <2>1. sending'[n] = [pc |-> "sent"]
    BY <1>1, <1>2, <1>13
  <2>2. sending'[n] \in Sending /\ sending'[n].pc = "sent"
    BY <2>1 DEF Sending
  <2>3. devices' \subseteq Batched(n)'
    BY <1>1, <1>4, <1>6, <1>8, <1>13
  <2>4. PagesOf(n)'
    BY <1>1, <1>3, <1>12, <2>2, <2>3 DEF PagesOf
  <2> QED
    BY <1>10, <1>11, <2>2, <2>4
<1>14. CASE batch # {}
  <2>1. sending'[n] = [pc |-> "add", batch |-> batch, after |-> top]
    BY <1>1, <1>2, <1>14
  <2>2. top \in batch /\ \A e \in batch : e <= top
    <3>1. batch \in SUBSET Nat
      BY <1>4, <1>5
    <3>2. \E d \in batch : \A e \in batch : e <= d
      BY <1>4, <1>14, <3>1, GreatestIsThere
    <3> QED
      BY <3>2 DEF top
  <2>3. top \in Nat /\ batch \in SUBSET Devices
    BY <1>4, <1>5, <2>2
  <2>4. /\ sending'[n] \in Sending /\ sending'[n].pc = "add"
        /\ sending'[n].batch = batch /\ sending'[n].after = top
    BY <2>1, <2>3 DEF Sending
  <2>5. ASSUME NEW d \in Batched(n), NEW e \in batch PROVE d < e
    BY <1>3, <1>4, <1>5, <1>6, <2>5
  <2>6. ASSUME NEW d \in Batched(n) \cup batch PROVE d <= top
    <3>1. CASE d \in batch
      BY <2>2, <3>1
    <3>2. CASE d \in Batched(n)
      <4>1. d < top /\ d \in Nat
        BY <1>6, <2>2, <2>5, <3>2
      <4> QED
        BY <2>3, <4>1
    <3> QED
      BY <2>6, <3>1, <3>2
  <2>7. ASSUME NEW d \in devices, d <= top PROVE d \in Batched(n) \cup batch
    <3>1. d \in Nat
      BY <1>5
    <3>2. CASE d <= after
      BY <1>6, <3>2
    <3>3. CASE after < d
      BY <1>4, <2>2, <2>7, <3>3
    <3> QED
      BY <1>3, <3>1, <3>2, <3>3
  <2>8. PagesOf(n)'
    BY <1>1, <1>3, <1>8, <1>12, <2>4, <2>5, <2>6, <2>7 DEF PagesOf
  <2> QED
    BY <1>10, <1>11, <2>4, <2>8
<1> QED
  BY <1>13, <1>14

(* The batch becomes a job; all of it lies beyond the jobs before it. *)
LEMMA BatchIsQueuedKeeps ==
  ASSUME IInv, NEW n \in Notices, BatchIsQueued(n)
  PROVE  IInv'
<1> DEFINE batch == sending[n].batch
           after == sending[n].after
           job == Job("push", batch)
<1>1. /\ sending[n].pc = "add" /\ sending \in [Notices -> Sending]
      /\ UNCHANGED <<route, req, adding, stored, devices>>
      /\ Add(n, job) /\ sending' = [sending EXCEPT ![n] = [pc |-> "page", after |-> after]]
  BY DEF BatchIsQueued, IInv, TypeOK
<1>2. batch \in SUBSET Devices /\ after \in Nat
  BY <1>1 DEF Sending, NotSending
<1>3. PICK new : /\ new \notin DOMAIN jobs /\ new[1] = n
                 /\ DOMAIN jobs' = DOMAIN jobs \cup {new} /\ jobs'[new] = job
                 /\ \A j \in DOMAIN jobs : jobs'[j] = jobs[j]
                 /\ JobsOf(n)' = JobsOf(n) \cup {new}
  BY <1>1, AddKeepsJobs DEF IInv
<1>4. JobsNumbered' /\ \A q : q # n => JobsOf(q)' = JobsOf(q)
  BY <1>1, AddKeepsJobs DEF IInv
<1>5. JobOK(job) /\ job.queue = "push" /\ job.what = batch
  BY <1>2, AttemptsOfQueues DEF Job, JobOK, PushJob, JobStates, Ended
<1>6. /\ \A d \in Batched(n), e \in batch : d < e
      /\ \A d \in Batched(n) \cup batch : d <= after
      /\ \A d \in devices : d <= after => d \in Batched(n) \cup batch
      /\ n \in stored /\ req[n] # "idle"
      /\ \A j, k \in JobsOf(n) : j # k => jobs[j].what \cap jobs[k].what = {}
  BY <1>1 DEF IInv, Pages, PagesOf
<1> HIDE DEF job, batch, after
<1>7. JobsTyped'
  BY <1>3, <1>5, DeliveriesAssumption DEF IInv, TypeOK, JobsTyped
<1>8. [pc |-> "page", after |-> after] \in Sending
  BY <1>2 DEF Sending
<1>9. /\ sending' \in [Notices -> Sending]
      /\ sending'[n].pc = "page" /\ sending'[n].after = after
      /\ \A m \in Notices : m # n => sending'[m] = sending[m]
  BY <1>1, <1>8
<1>10. TypeOK'
  BY <1>1, <1>4, <1>7, <1>9 DEF IInv, TypeOK
<1>11. ASSUME NEW q, q # n PROVE SameJobsOf(q)
  BY <1>3, <1>4, <1>11 DEF SameJobsOf, JobsOf
<1>12. Logs'
  BY <1>1, <1>11, NoticesLeaveLogs, DeliveriesAssumption
<1>13. \A m \in Notices : m # n => PagesOf(m)'
  BY <1>1, <1>9, <1>11, PagesOfStay DEF IInv, Pages
<1>14. \A j \in JobsOf(n) : jobs'[j].what = jobs[j].what /\ jobs[j].what \in SUBSET Batched(n)
  BY <1>3 DEF JobsOf, Batched
<1>15. Batched(n)' = Batched(n) \cup batch
  BY <1>3, <1>5, <1>14 DEF Batched
<1>16. ASSUME NEW j \in JobsOf(n)', NEW k \in JobsOf(n)', j # k
       PROVE  jobs'[j].what \cap jobs'[k].what = {}
  <2>1. Batched(n) \cap batch = {}
    <3>1. \A d \in batch : ~(d < d)
      BY <1>2, DeliveriesAssumption
    <3> QED
      BY <1>6, <3>1
  <2>2. jobs'[new].what = batch
    BY <1>3, <1>5
  <2>3. CASE j # new /\ k # new
    BY <1>3, <1>6, <1>14, <1>16, <2>3
  <2>4. CASE j = new
    BY <1>3, <1>14, <1>16, <2>1, <2>2, <2>4
  <2>5. CASE k = new
    BY <1>3, <1>14, <1>16, <2>1, <2>2, <2>5
  <2> QED
    BY <2>3, <2>4, <2>5
<1>17. PagesOf(n)'
  BY <1>1, <1>6, <1>9, <1>15, <1>16 DEF PagesOf
<1> QED
  BY <1>10, <1>12, <1>13, <1>17 DEF IInv, Pages

LEMMA ExpireKeeps ==
  ASSUME IInv, Expire
  PROVE  IInv'
<1>1. /\ devices' \in SUBSET devices
      /\ UNCHANGED <<route, req, adding, sending, stored, jobs>>
  BY DEF Expire
<1>2. SameJobs /\ \A r : SameJobsOf(r)
  BY <1>1, UnchangedJobsAreSame, SameJobsStay DEF IInv
<1>3. TypeOK'
  BY <1>1, <1>2, SameJobsStay DEF IInv, TypeOK
<1>4. Logs'
  <2>1. \A r \in Audited, what \in Texts : Tells(r, what) => Tells(r, what)'
    BY <1>1 DEF Tells
  <2> QED
    BY <1>1, <1>2, <2>1, LogsStay DEF IInv
<1>5. \A n \in Notices : PagesOf(n)'
  BY <1>1, <1>2, PagesOfStay DEF IInv, Pages
<1> QED
  BY <1>3, <1>4, <1>5 DEF IInv, Pages

-----------------------------------------------------------------------------
(* The end of the process *)

(* What has been lost was on its way. *)
LEMMA LostIsEnded ==
  ASSUME NEW s \in Sending
  PROVE  Lost(s) \in Sending /\ (Lost(s) = s \/ (s.pc # "none" /\ Lost(s).pc = "lost"))
<1>1. CASE s.pc \in {"page", "add"}
  BY <1>1 DEF Lost, Sending
<1>2. CASE s.pc \notin {"page", "add"}
  BY <1>2 DEF Lost
<1> QED
  BY <1>1, <1>2

LEMMA EndKeeps ==
  ASSUME IInv, End
  PROVE  IInv'
<1> DEFINE active == {j \in DOMAIN jobs : jobs[j].state = "active"}
<1>1. PICK had \in SUBSET active :
        jobs' = [j \in DOMAIN jobs |->
          IF j \notin active THEN jobs[j]
          ELSE Stalled([jobs[j] EXCEPT !.done = @ + (IF j \in had THEN 1 ELSE 0)])]
  BY DEF End
<1>2. SameJobs
  <2>1. ASSUME NEW j \in DOMAIN jobs PROVE Follows(jobs[j], jobs'[j])
    <3>1. JobOK(jobs[j])
      BY DEF IInv, TypeOK, JobsTyped
    <3>2. CASE j \notin active
      BY <1>1, <3>1, <3>2 DEF Follows
    <3>3. CASE j \in active
      <4>1. PICK effect \in {0, 1} : effect = IF j \in had THEN 1 ELSE 0
        OBVIOUS
      <4>2. jobs'[j] = Stalled([jobs[j] EXCEPT !.done = @ + effect])
        BY <1>1, <3>3, <4>1
      <4>3. jobs[j].state = "active"
        BY <3>3
      <4> QED
        BY <3>1, <4>2, <4>3, AttemptEnds
    <3> QED
      BY <3>2, <3>3
  <2>2. DOMAIN jobs' = DOMAIN jobs /\ jobs' = [j \in DOMAIN jobs |-> jobs'[j]]
    BY <1>1
  <2> QED
    BY <2>1, <2>2 DEF SameJobs, Follows
<1>3. JobsNumbered' /\ JobsTyped' /\ \A r : SameJobsOf(r)
  BY <1>2, SameJobsStay DEF IInv
<1>4. /\ req' = [r \in DOMAIN req |-> IF req[r] = "handling" THEN "cut" ELSE req[r]]
      /\ adding' = {} /\ sending' = [n \in Notices |-> Lost(sending[n])]
      /\ UNCHANGED <<route, receivers, stored, devices>>
  BY DEF End
<1>5. /\ req' \in [Audited \cup Notices -> Ends]
      /\ \A r \in Audited \cup Notices :
           req'[r] = IF req[r] = "handling" THEN "cut" ELSE req[r]
  BY <1>4 DEF IInv, TypeOK, Ends
<1>6. \A n \in Notices :
        /\ sending[n] \in Sending /\ sending'[n] = Lost(sending[n])
        /\ Lost(sending[n]) \in Sending
        /\ \/ Lost(sending[n]) = sending[n]
           \/ sending[n].pc # "none" /\ Lost(sending[n]).pc = "lost"
  BY <1>4, LostIsEnded DEF IInv, TypeOK
<1>7. sending' \in [Notices -> Sending]
  BY <1>4, <1>6
<1>8. TypeOK'
  BY <1>3, <1>4, <1>5, <1>7 DEF IInv, TypeOK
<1>9. \A n \in Notices : PagesOf(n)'
  BY <1>3, <1>4, <1>5, <1>6, PagesOfStay DEF IInv, Pages
<1>10. Logs'
  <2>1. \A r \in Audited, what \in Texts : Tells(r, what) => Tells(r, what)'
    BY <1>4, <1>5 DEF Tells
  <2> QED
    BY <1>3, <1>4, <2>1, LogsStay DEF IInv
<1> QED
  BY <1>8, <1>9, <1>10 DEF IInv, Pages

LEMMA RejectKeeps ==
  ASSUME IInv, Reject
  PROVE  IInv'
<1>1. CASE End
  BY <1>1, EndKeeps
<1>2. ASSUME NEW log \in adding, adding' = adding \ {log},
             UNCHANGED <<route, req, sending, stored, devices, jobs>>
      PROVE  IInv'
  <2>1. SameJobs /\ \A r : SameJobsOf(r)
    BY <1>2, UnchangedJobsAreSame, SameJobsStay DEF IInv
  <2>2. TypeOK'
    BY <1>2, <2>1, SameJobsStay DEF IInv, TypeOK
  <2>3. \A r \in Audited, what \in Texts : Tells(r, what) => Tells(r, what)'
    BY <1>2 DEF Tells
  <2>4. Logs'
    BY <1>2, <2>1, <2>3, LogsStay DEF IInv
  <2>5. \A n \in Notices : PagesOf(n)'
    BY <1>2, <2>1, PagesOfStay DEF IInv, Pages
  <2> QED
    BY <2>2, <2>4, <2>5 DEF IInv, Pages
<1>3. ASSUME NEW n \in Notices, sending' = [sending EXCEPT ![n] = Lost(@)],
             UNCHANGED <<route, req, adding, stored, devices, jobs>>
      PROVE  IInv'
  <2>1. SameJobs /\ \A r : SameJobsOf(r)
    BY <1>3, UnchangedJobsAreSame, SameJobsStay DEF IInv
  <2>2. sending \in [Notices -> Sending] /\ sending[n] \in Sending
    BY DEF IInv, TypeOK
  <2>3. /\ Lost(sending[n]) \in Sending
        /\ \/ Lost(sending[n]) = sending[n]
           \/ sending[n].pc # "none" /\ Lost(sending[n]).pc = "lost"
    BY <2>2, LostIsEnded
  <2>4. /\ sending' \in [Notices -> Sending] /\ sending'[n] = Lost(sending[n])
        /\ \A m \in Notices : m # n => sending'[m] = sending[m]
    BY <1>3, <2>2, <2>3
  <2>5. TypeOK'
    BY <1>3, <2>1, <2>4, SameJobsStay DEF IInv, TypeOK
  <2>6. \A m \in Notices : PagesOf(m)'
    BY <1>3, <2>1, <2>3, <2>4, PagesOfStay DEF IInv, Pages
  <2>7. Logs'
    BY <1>3, <2>1, NoticesLeaveLogs
  <2> QED
    BY <2>5, <2>6, <2>7 DEF IInv, Pages
<1> QED
  BY <1>1, <1>2, <1>3 DEF Reject

-----------------------------------------------------------------------------
(* The invariant, and what follows from it *)

LEMMA InitIsKept == Init => IInv
<1> SUFFICES ASSUME Init PROVE IInv
  OBVIOUS
<1>1. DOMAIN jobs = {} /\ jobs = [j \in DOMAIN jobs |-> jobs[j]] /\ \A r : JobsOf(r) = {}
  BY DEF Init, JobsOf
<1>2. JobsNumbered
  <2>1. IsFiniteSet(DOMAIN jobs)
    BY <1>1, FS_EmptySet
  <2>2. \A r : JobsOf(r) = {r} \X (1 .. Cardinality(JobsOf(r)))
    <3>1. Cardinality({}) = 0
      BY FS_EmptySet
    <3>2. 1 .. 0 = {}
      OBVIOUS
    <3> QED
      BY <1>1, <3>1, <3>2
  <2> QED
    BY <1>1, <2>1, <2>2 DEF JobsNumbered
<1>3. JobsTyped
  BY <1>1 DEF JobsTyped
<1>4. TypeOK
  BY <1>2, <1>3 DEF Init, TypeOK, Ends, Sending
<1>5. Logs
  BY <1>1 DEF Init, Logs
<1>6. Pages
  BY <1>1 DEF Init, Pages, PagesOf, NotSending
<1> QED
  BY <1>4, <1>5, <1>6 DEF IInv

LEMMA Inductive == IInv /\ [Next]_vars => IInv'
<1> SUFFICES ASSUME IInv, [Next]_vars PROVE IInv'
  OBVIOUS
<1>1. ASSUME NEW r \in Audited, Refuse(r) \/ Intercept(r) \/ Handled(r) PROVE IInv'
  BY <1>1, RefuseKeeps, InterceptKeeps, HandledKeeps
<1>2. ASSUME NEW n \in Notices, CreateNotification(n) \/ ReadBatch(n) \/ BatchIsQueued(n)
      PROVE  IInv'
  BY <1>2, CreateNotificationKeeps, ReadBatchKeeps, BatchIsQueuedKeeps
<1>3. CASE LogIsQueued \/ Expire \/ End \/ Reject
  BY <1>3, LogIsQueuedKeeps, ExpireKeeps, EndKeeps, RejectKeeps
<1>4. ASSUME NEW j \in DOMAIN jobs, Take(j) \/ Complete(j) \/ Fail(j) \/ Stall(j)
      PROVE  IInv'
  BY <1>4, WorkersKeep
<1>5. CASE UNCHANGED vars
  BY <1>5, SameJobsKeep, UnchangedJobsAreSame DEF vars, IInv
<1> QED
  BY <1>1, <1>2, <1>3, <1>4, <1>5 DEF Next

LEMMA AlwaysKept == Spec => []IInv
BY InitIsKept, Inductive, PTL DEF Spec

(* Types are as they should be: jobs are numbered by their request, those  *)
(* of audited requests are logs, those of notifications batches of devices.*)
THEOREM TypeCorrect == Spec => []TypeOK
<1>1. IInv => TypeOK
  BY DEF IInv
<1> QED
  BY <1>1, AlwaysKept, PTL

(* However requests, workers and ends of the process interleave, a log in  *)
(* a queue says what happened to its request, alone, and no job has its    *)
(* effect more often than its attempts and stalls allow.                   *)
THEOREM LogsTellTheOutcome == Spec => []LogTellsTheOutcome
<1>1. IInv => LogTellsTheOutcome
  <2> SUFFICES ASSUME IInv PROVE LogTellsTheOutcome
    OBVIOUS
  <2>1. ASSUME NEW j \in DOMAIN jobs, jobs[j].queue = "log"
        PROVE  /\ req[j[1]] \notin {"idle", "unauthorized"}
               /\ jobs[j].what = "response" => req[j[1]] = "answered"
               /\ jobs[j].what = "error" => req[j[1]] = "thrown" /\ route[j[1]].logError
               /\ JobsOf(j[1]) = {j}
    <3>1. j[1] \in Audited /\ j \in JobsOf(j[1])
      BY <2>1, JobsArePairs DEF IInv, TypeOK, JobsTyped
    <3> QED
      BY <3>1 DEF IInv, Logs, Tells
  <2>2. \A j \in DOMAIN jobs :
          /\ jobs[j].done <= Attempts[jobs[j].queue] + MaxStalled
          /\ jobs[j].state = "completed" => jobs[j].done > 0
    BY DEF IInv, TypeOK, JobsTyped, JobOK
  <2> QED
    BY <2>1, <2>2 DEF LogTellsTheOutcome
<1> QED
  BY <1>1, AlwaysKept, PTL

(* Whatever expires between the pages of sendBatch, no device is in two    *)
(* batches of a notification, and none that is left is in no batch once it *)
(* is through.                                                             *)
THEOREM DevicesAreInOneBatch == Spec => []DeviceInOneBatch
<1>1. IInv => DeviceInOneBatch
  BY DEF IInv, Pages, PagesOf, Batched, DeviceInOneBatch
<1> QED
  BY <1>1, AlwaysKept, PTL
=============================================================================
