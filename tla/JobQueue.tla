------------------------------- MODULE JobQueue -------------------------------
(***************************************************************************)
(* The background jobs of one project, from the request that creates them  *)
(* to the worker that takes them: admission under the project's row lock   *)
(* (job_admission.py and its callers), manual retry and exact rerun, the   *)
(* outbox dispatcher (outbox_dispatcher.py) and the queue in Redis.        *)
(*                                                                         *)
(* Jobs are numbered in the order of their insertion. What a worker does   *)
(* with a job is reduced to its status; the job modules have the details.  *)
(***************************************************************************)
EXTENDS Integers, FiniteSets

CONSTANTS
  MaxJobs,      \* bound on the jobs ever created
  Submitters,   \* request threads of the API
  Dispatchers,  \* outbox dispatcher processes
  Keys,         \* what identifies an ingest (its artifact) or an export
  Capacity,     \* per class: max_active_..._jobs_per_project
  ProjectCap,   \* max_active_jobs_per_project
  MatrixSize,   \* children of a scenario matrix
  BatchLimit,   \* limit of dispatch_due
  MaxAttempts,  \* Job.max_attempts
  MaxCrashes    \* bound on the crashes of dispatchers

Ids == 1..MaxJobs
Classes == {"generation", "ingest", "export"}

ASSUME QueueAssumption ==
  /\ MaxJobs \in Nat
  /\ Capacity \in [Classes -> Nat] /\ ProjectCap \in Nat
  /\ MatrixSize \in Nat \ {0} /\ BatchLimit \in Nat \ {0}
  /\ MaxAttempts \in Nat \ {0} /\ MaxCrashes \in Nat

VARIABLES
  status,    \* Job.status; "none" before the insertion
  origin,    \* the request that inserted the job
  attempts,  \* Job.attempt_count
  outbox,    \* JobOutbox.status; "none" before the insertion
  due,       \* next_attempt_at is null or past
  redis,     \* ARQ's keys of the job: "absent", "queued" or its kept "result"
  handed,    \* jobs that Redis has accepted at least once
  pc,        \* per submitter: "idle", or "admitted" with the project locked
  req,       \* per submitter: the request
  relay,     \* per dispatcher: "scan", "deliver" or "poll"
  claimed,   \* per dispatcher: the rows its transaction has locked
  sent,      \* per dispatcher: those of them marked dispatched, uncommitted
  missed,    \* per dispatcher: those of them to be tried later, uncommitted
  crashes    \* crashes of dispatchers so far

jobs == <<status, origin, attempts>>
rows == <<outbox, due>>
queue == <<redis, handed>>
api == <<pc, req>>
daemon == <<relay, claimed, sent, missed>>
vars == <<jobs, rows, queue, api, daemon, crashes>>

Active == {"queued", "running"}
Terminal == {"succeeded", "failed", "cancelled"}

\* A request: its class, the idempotency key of an ingest or an export, the run
\* a retry or an exact rerun repeats, and how many jobs it adds.
Request(kind, class, key, src) == [kind |-> kind, class |-> class, key |-> key, source |-> src]
Requests ==
  [kind : {"create", "matrix"}, class : {"generation"}, key : {"none"}, source : {0}]
  \cup [kind : {"retry", "exact"}, class : {"generation"}, key : {"none"}, source : Ids]
  \cup [kind : {"submit"}, class : {"ingest", "export"}, key : Keys, source : {0}]
Additional(r) == IF r.kind = "matrix" THEN MatrixSize ELSE 1

Created == {j \in Ids : status[j] # "none"}
ActiveJobs == {j \in Ids : status[j] \in Active}
ActiveOf(c) == {j \in ActiveJobs : origin[j].class = c}

TypeOK ==
  /\ status \in [Ids -> {"none"} \cup Active \cup Terminal]
  /\ origin \in [Ids -> Requests]
  /\ attempts \in [Ids -> 0..MaxAttempts]
  /\ outbox \in [Ids -> {"none", "pending", "dispatched"}] /\ due \in [Ids -> BOOLEAN]
  /\ redis \in [Ids -> {"absent", "queued", "result"}] /\ handed \subseteq Ids
  /\ pc \in [Submitters -> {"idle", "admitted"}] /\ req \in [Submitters -> Requests]
  /\ relay \in [Dispatchers -> {"scan", "deliver", "poll"}]
  /\ claimed \in [Dispatchers -> SUBSET Ids]
  /\ sent \in [Dispatchers -> SUBSET Ids] /\ missed \in [Dispatchers -> SUBSET Ids]
  /\ crashes \in 0..MaxCrashes

NoRequest == Request("create", "generation", "none", 0)

Init ==
  /\ status = [j \in Ids |-> "none"] /\ origin = [j \in Ids |-> NoRequest]
  /\ attempts = [j \in Ids |-> 0]
  /\ outbox = [j \in Ids |-> "none"] /\ due = [j \in Ids |-> TRUE]
  /\ redis = [j \in Ids |-> "absent"] /\ handed = {}
  /\ pc = [s \in Submitters |-> "idle"] /\ req = [s \in Submitters |-> NoRequest]
  /\ relay = [d \in Dispatchers |-> "scan"] /\ claimed = [d \in Dispatchers |-> {}]
  /\ sent = [d \in Dispatchers |-> {}] /\ missed = [d \in Dispatchers |-> {}]
  /\ crashes = 0

-----------------------------------------------------------------------------
(* Admission. *)

\* Mutant: the project is read without FOR UPDATE.
ProjectFreeAlways == TRUE

\* Nobody is between locking the project's row and committing.
ProjectFree == \A s \in Submitters : pc[s] = "idle"

\* Mutant: only what is still active is found.
ExistingActive(r) ==
  {j \in ActiveJobs :
     \/ r.kind = "retry" /\ origin[j].source = r.source
     \/ r.kind = "submit" /\ origin[j].class = r.class /\ origin[j].key = r.key}

\* What the request finds done: the run that repeats the same source, or the job
\* with the same idempotency key.
Existing(r) ==
  {j \in Created :
     \/ r.kind = "retry" /\ origin[j].source = r.source
     \/ r.kind = "submit" /\ origin[j].class = r.class /\ origin[j].key = r.key}

\* enforce_project_job_capacity
Fits(r) ==
  /\ Cardinality(ActiveJobs) + Additional(r) <= ProjectCap
  /\ Cardinality(ActiveOf(r.class)) + Additional(r) <= Capacity[r.class]

\* A failed or cancelled generation is final, so the test of the source need not
\* be repeated at the commit.
Retryable(j) == origin[j].class = "generation" /\ status[j] \in {"failed", "cancelled"}

\* The transaction has locked the project, found nothing done and room enough.
\* One that finds otherwise changes nothing.
Admit(s, r) ==
  /\ r.kind # "exact"
  /\ pc[s] = "idle" /\ ProjectFree
  /\ r.kind = "retry" => Retryable(r.source)
  /\ Existing(r) = {}
  /\ Fits(r)
  /\ pc' = [pc EXCEPT ![s] = "admitted"]
  /\ req' = [req EXCEPT ![s] = r]
  /\ UNCHANGED <<jobs, rows, queue, daemon, crashes>>

\* Run, job and outbox message of every job of the request.
Insert(r) ==
  LET first == Cardinality(Created) + 1
      new == first..(first + Additional(r) - 1)
  IN  /\ new \subseteq Ids
      /\ status' = [j \in Ids |-> IF j \in new THEN "queued" ELSE status[j]]
      /\ origin' = [j \in Ids |-> IF j \in new THEN r ELSE origin[j]]
      /\ outbox' = [j \in Ids |-> IF j \in new THEN "pending" ELSE outbox[j]]
      /\ UNCHANGED <<attempts, due, queue, daemon, crashes>>

Commit(s) ==
  /\ pc[s] = "admitted"
  /\ Insert(req[s])
  /\ pc' = [pc EXCEPT ![s] = "idle"]
  /\ req' = [req EXCEPT ![s] = NoRequest]

\* The request fails between the checks and the commit.
Rollback(s) ==
  /\ pc[s] = "admitted"
  /\ pc' = [pc EXCEPT ![s] = "idle"]
  /\ req' = [req EXCEPT ![s] = NoRequest]
  /\ UNCHANGED <<jobs, rows, queue, daemon, crashes>>

\* The exact rerun takes the project's row FOR SHARE, and counts nothing.
ExactRerun(j) ==
  /\ origin[j].class = "generation" /\ status[j] = "succeeded"
  /\ ProjectFree
  /\ Insert(Request("exact", "generation", "none", j))
  /\ UNCHANGED api

-----------------------------------------------------------------------------
(* The outbox dispatcher. *)

\* FOR UPDATE SKIP LOCKED
Locked == UNION {claimed[d] : d \in Dispatchers}

Waiting == {j \in Ids : outbox[j] = "pending" /\ due[j]} \ Locked

\* One transaction: at most BatchLimit due rows. The order of created_at need not
\* be the order of the commits, so any rows may be the oldest.
Scan(d, js) ==
  /\ relay[d] = "scan"
  /\ js \subseteq Waiting
  /\ Cardinality(js) = BatchLimit \/ (js = Waiting /\ Cardinality(js) < BatchLimit)
  /\ relay' = [relay EXCEPT ![d] = IF js = {} THEN "poll" ELSE "deliver"]
  /\ claimed' = [claimed EXCEPT ![d] = js]
  /\ UNCHANGED <<jobs, rows, queue, api, sent, missed, crashes>>

Undecided(d) == claimed[d] \ (sent[d] \cup missed[d])

\* ARQ answers None when it still has a key of this job, and that counts as
\* accepted too.
Accepted(j) ==
  /\ redis' = [redis EXCEPT ![j] = IF @ = "absent" THEN "queued" ELSE @]
  /\ handed' = handed \cup {j}

Enqueue(d, j) ==
  /\ relay[d] = "deliver" /\ j \in Undecided(d)
  /\ Accepted(j)
  /\ sent' = [sent EXCEPT ![d] = @ \cup {j}]
  /\ UNCHANGED <<jobs, rows, api, relay, claimed, missed, crashes>>

\* The enqueue raises or runs into its timeout; Redis may have accepted the job.
EnqueueFails(d, j) ==
  /\ relay[d] = "deliver" /\ j \in Undecided(d)
  /\ Accepted(j) \/ UNCHANGED queue
  /\ missed' = [missed EXCEPT ![d] = @ \cup {j}]
  /\ UNCHANGED <<jobs, rows, api, relay, claimed, sent, crashes>>

Release(d) ==
  /\ claimed' = [claimed EXCEPT ![d] = {}]
  /\ sent' = [sent EXCEPT ![d] = {}]
  /\ missed' = [missed EXCEPT ![d] = {}]

\* Mutant: a failed delivery is marked dispatched as well.
MarkRowsAll(d) ==
  /\ outbox' = [j \in Ids |-> IF j \in claimed[d] THEN "dispatched" ELSE outbox[j]]
  /\ UNCHANGED due

\* mark_dispatched and record_delivery_failure
MarkRows(d) ==
  /\ outbox' = [j \in Ids |-> IF j \in sent[d] THEN "dispatched" ELSE outbox[j]]
  /\ due' = [j \in Ids |-> IF j \in missed[d] THEN FALSE ELSE due[j]]

\* After a full batch the next scan follows at once.
CommitBatch(d) ==
  /\ relay[d] = "deliver" /\ Undecided(d) = {}
  /\ MarkRows(d)
  /\ relay' = [relay EXCEPT ![d] = IF Cardinality(claimed[d]) = BatchLimit THEN "scan" ELSE "poll"]
  /\ Release(d)
  /\ UNCHANGED <<jobs, queue, api, crashes>>

\* The process dies with its transaction, and is started again.
DispatcherCrash(d) ==
  /\ crashes < MaxCrashes
  /\ relay[d] = "deliver"
  /\ crashes' = crashes + 1
  /\ relay' = [relay EXCEPT ![d] = "scan"]
  /\ Release(d)
  /\ UNCHANGED <<jobs, rows, queue, api>>

PollElapses(d) ==
  /\ relay[d] = "poll"
  /\ relay' = [relay EXCEPT ![d] = "scan"]
  /\ UNCHANGED <<jobs, rows, queue, api, claimed, sent, missed, crashes>>

BackoffElapses(j) ==
  /\ ~due[j]
  /\ due' = [due EXCEPT ![j] = TRUE]
  /\ UNCHANGED <<jobs, outbox, queue, api, daemon, crashes>>

-----------------------------------------------------------------------------
(* Workers and clients, as far as the queue and the capacity see them. *)

\* A failed ingest or export is claimed again; a generation only when queued.
Claimable(j) ==
  /\ status[j] = "queued" \/ (status[j] = "failed" /\ origin[j].class # "generation")
  /\ attempts[j] < MaxAttempts

Claim(j) ==
  /\ redis[j] = "queued" /\ Claimable(j)
  /\ status' = [status EXCEPT ![j] = "running"]
  /\ attempts' = [attempts EXCEPT ![j] = @ + 1]
  /\ UNCHANGED <<origin, rows, queue, api, daemon, crashes>>

\* The job ends, and ARQ keeps its result for a while.
Finish(j, outcome) ==
  /\ status[j] = "running"
  /\ status' = [status EXCEPT ![j] = outcome]
  /\ redis' = [redis EXCEPT ![j] = "result"]
  /\ UNCHANGED <<origin, attempts, rows, handed, api, daemon, crashes>>

\* A transient error: ARQ keeps the job. The row of a generation is queued again,
\* that of an ingest or an export failed.
Retry(j) ==
  /\ status[j] = "running" /\ attempts[j] < MaxAttempts
  /\ status' = [status EXCEPT ![j] =
                  IF origin[j].class = "generation" THEN "queued" ELSE "failed"]
  /\ UNCHANGED <<origin, attempts, rows, queue, api, daemon, crashes>>

CancelQueued(j) ==
  /\ origin[j].class = "generation" /\ status[j] = "queued"
  /\ status' = [status EXCEPT ![j] = "cancelled"]
  /\ UNCHANGED <<origin, attempts, rows, queue, api, daemon, crashes>>

\* The worker finds nothing to do.
Consume(j) ==
  /\ redis[j] = "queued" /\ status[j] \in Terminal /\ ~Claimable(j)
  /\ redis' = [redis EXCEPT ![j] = "result"]
  /\ UNCHANGED <<jobs, rows, handed, api, daemon, crashes>>

\* From then on a repeated enqueue is a new delivery.
ResultExpires(j) ==
  /\ redis[j] = "result"
  /\ redis' = [redis EXCEPT ![j] = "absent"]
  /\ UNCHANGED <<jobs, rows, handed, api, daemon, crashes>>

-----------------------------------------------------------------------------
Submit == \E s \in Submitters : Commit(s) \/ Rollback(s) \/ \E r \in Requests : Admit(s, r)

Dispatch == \E d \in Dispatchers :
  \/ \E js \in SUBSET Waiting : Scan(d, js)
  \/ \E j \in Ids : Enqueue(d, j) \/ EnqueueFails(d, j)
  \/ CommitBatch(d) \/ DispatcherCrash(d) \/ PollElapses(d)

Work == \E j \in Ids :
  \/ Claim(j) \/ Retry(j) \/ CancelQueued(j) \/ Consume(j) \/ ResultExpires(j)
  \/ \E outcome \in Terminal : Finish(j, outcome)

Next == Submit \/ Dispatch \/ Work \/ \E j \in Ids : ExactRerun(j) \/ BackoffElapses(j)

\* The dispatchers run for ever, time passes, and Redis accepts a job that is
\* offered to it again and again.
DispatcherStep(d) ==
  \/ \E js \in SUBSET Waiting : Scan(d, js)
  \/ \E j \in Ids : Enqueue(d, j) \/ EnqueueFails(d, j)
  \/ CommitBatch(d) \/ PollElapses(d)
Fairness ==
  /\ \A d \in Dispatchers : WF_vars(DispatcherStep(d))
  /\ \A j \in Ids : WF_vars(BackoffElapses(j))
  /\ \A j \in Ids : SF_vars(\E d \in Dispatchers : Enqueue(d, j))

Spec == Init /\ [][Next]_vars /\ Fairness

-----------------------------------------------------------------------------
(* Properties. *)

\* However requests of several clients, workers and cancellations interleave,
\* the generations that went through admission never exceed their capacity; a
\* matrix is admitted as a whole (the lock from the count to the commit, and that
\* no generation becomes active again once it is over).
Admitted == {j \in ActiveOf("generation") : origin[j].kind # "exact"}
GenerationWithinLimit == Cardinality(Admitted) <= Capacity["generation"]

\* Clicking twice does not work twice: a source run has one manual retry, an
\* artifact one ingest, a request one export, whoever asks at the same time
\* (RunControl.retry, the idempotency keys of ingest and exports).
NoDuplicateWork ==
  \A j, k \in Created :
    j # k /\ origin[j].kind = origin[k].kind =>
      /\ origin[j].kind = "retry" => origin[j].source # origin[k].source
      /\ origin[j].kind = "submit" =>
           <<origin[j].class, origin[j].key>> # <<origin[k].class, origin[k].key>>

\* Every committed job reaches Redis, none does before its commit, whatever
\* dispatchers crash or overlap and whatever enqueues fail (docs/adr/0004).
Delivery == INSTANCE DeliveryContract WITH Jobs <- Ids, owed <- Created \ handed
ImplementsDelivery == Delivery!Spec

=============================================================================
