------------------------------ MODULE IngestJob ------------------------------
(***************************************************************************)
(* One ingest job: the attempts of worker threads to turn an uploaded      *)
(* source into a ready DatasetVersion (ingest_job_repository.py, ingest.py *)
(* and run_ingest), with what the pipeline leaves behind: the canonical    *)
(* rows of a vector source or the normalized raster of a GeoTIFF.          *)
(*                                                                         *)
(* Every transaction that locks the job and the version is one step, but   *)
(* complete, which holds the version's row lock while others wait for it,  *)
(* and the replacement of the source rows, which reads the version without *)
(* a lock and locks it only with its first row (lock_published_tile_parent *)
(* of migration 0023).                                                     *)
(* Time appears only as "stale": 70 minutes since the attempt's start.     *)
(***************************************************************************)
EXTENDS Integers

CONSTANTS
  Threads,      \* worker threads; asyncio.to_thread survives a timeout
  MaxAttempts,  \* Job.max_attempts
  MaxTries      \* ARQ's limit of executions of one enqueued job

ASSUME IngestAssumption ==
  /\ MaxAttempts \in Nat \ {0}
  /\ MaxTries \in Nat

VARIABLES
  job,        \* Job.status
  version,    \* DatasetVersion.status
  attempt,    \* Job.attempt_count
  retryable,  \* Job.error_json.retryable of the recorded failure
  stale,      \* Job.started_at is older than stale_after
  kind,       \* of the source: "vector" or "raster"
  rows,       \* the attempt that wrote the committed source rows; 0: none
  temporary,  \* the normalized raster is in the temporary namespace
  ready,      \* the normalized raster is in the ready namespace
  delivery,   \* the job waits in Redis
  tries,      \* ARQ's job_try
  pc,         \* per thread: where it is in run_ingest
  mine,       \* per thread: IngestJobContext.attempt_count
  seen,       \* per thread: the source rows its DELETE has seen
  err,        \* per thread: the class of the error it is about to record
  detached    \* per thread: ARQ has given up on its task (job_timeout)

record == <<job, version, attempt, retryable, stale>>
source == <<kind, rows>>
blobs == <<temporary, ready>>
queue == <<delivery, tries>>
local == <<pc, mine, seen, err, detached>>
vars == <<record, source, blobs, queue, local>>

Errors == {"transient", "permanent"}
Positions == {"idle", "executing", "replacing", "inserted", "normalizing",
              "promoting", "completing", "finalizing", "failing"}

TypeOK ==
  /\ job \in {"queued", "running", "failed", "succeeded"}
  /\ version \in {"uploaded", "processing", "failed", "ready"}
  /\ attempt \in 0..MaxAttempts
  /\ retryable \in BOOLEAN /\ stale \in BOOLEAN
  /\ kind \in {"vector", "raster"} /\ rows \in 0..MaxAttempts
  /\ temporary \in BOOLEAN /\ ready \in BOOLEAN
  /\ delivery \in BOOLEAN /\ tries \in 0..MaxTries
  /\ pc \in [Threads -> Positions]
  /\ mine \in [Threads -> 0..MaxAttempts]
  /\ seen \in [Threads -> 0..MaxAttempts]
  /\ err \in [Threads -> Errors \cup {"none"}]
  /\ detached \in [Threads -> BOOLEAN]

\* ingest_submission.create: version, job and outbox message together.
Init ==
  /\ job = "queued" /\ version = "uploaded"
  /\ attempt = 0 /\ retryable = FALSE /\ stale = FALSE
  /\ kind \in {"vector", "raster"}
  /\ rows = 0 /\ temporary = FALSE /\ ready = FALSE
  /\ delivery = TRUE /\ tries = 0
  /\ pc = [t \in Threads |-> "idle"]
  /\ mine = [t \in Threads |-> 0]
  /\ seen = [t \in Threads |-> 0]
  /\ err = [t \in Threads |-> "none"]
  /\ detached = [t \in Threads |-> FALSE]

Goto(t, label) == pc' = [pc EXCEPT ![t] = label]

\* The pipeline or the completion raised an error of this class.
Raises(t, class) ==
  /\ Goto(t, "failing")
  /\ err' = [err EXCEPT ![t] = class]
  /\ UNCHANGED <<mine, seen, detached>>

\* The task of the thread has returned or raised.
Leave(t) ==
  /\ Goto(t, "idle")
  /\ mine' = [mine EXCEPT ![t] = 0]
  /\ seen' = [seen EXCEPT ![t] = 0]
  /\ err' = [err EXCEPT ![t] = "none"]
  /\ detached' = [detached EXCEPT ![t] = FALSE]

\* Retry reaches ARQ only while ARQ still waits for the task.
Redeliver(t) ==
  /\ delivery' = (delivery \/ ~detached[t])
  /\ UNCHANGED tries

\* Mutant: the triggers test the status but lock nothing.
HoldsShareNever(u) == FALSE

\* lock_published_tile_parent: the version is locked FOR SHARE with the first
\* source row deleted or inserted, until the transaction ends.
HoldsShare(u) == pc[u] = "inserted" \/ (pc[u] = "replacing" /\ seen[u] # 0 /\ seen[u] = rows)

\* FOR SHARE waits for the transaction of a complete.
Shareable == \A u \in Threads : pc[u] # "finalizing"

\* FOR UPDATE of the version waits for complete and for the writers of its rows.
VersionFree(t) == \A u \in Threads \ {t} : pc[u] # "finalizing" /\ ~HoldsShare(u)

-----------------------------------------------------------------------------
(* claim *)

Taken(t) ==
  /\ pc[t] = "idle"
  /\ delivery /\ tries < MaxTries
  /\ VersionFree(t)
  /\ delivery' = FALSE
  /\ tries' = tries + 1

\* _is_active_attempt
Active == job = "running" /\ ~stale

Exhausted == attempt >= MaxAttempts

\* The transaction of a claim that starts an attempt, whatever error the last
\* one has recorded.
AttemptTx ==
  /\ ~Active /\ ~Exhausted /\ version # "ready" /\ job # "succeeded"
  /\ job' = "running" /\ version' = "processing"
  /\ attempt' = attempt + 1
  /\ retryable' = FALSE /\ stale' = FALSE

ClaimStarted(t) ==
  /\ Taken(t)
  /\ AttemptTx
  /\ Goto(t, "executing")
  /\ mine' = [mine EXCEPT ![t] = attempt']
  /\ UNCHANGED <<source, blobs, seen, err, detached>>

ClaimReady(t) ==
  /\ Taken(t)
  /\ version = "ready"
  /\ job' = "succeeded" /\ retryable' = FALSE
  /\ UNCHANGED <<version, attempt, stale, source, blobs, local>>

\* The delivery is consumed.
ClaimInProgress(t) ==
  /\ Taken(t)
  /\ version # "ready" /\ Active
  /\ UNCHANGED <<record, source, blobs, local>>

ClaimExhausted(t) ==
  /\ Taken(t)
  /\ version # "ready" /\ ~Active /\ Exhausted
  /\ version' = "failed" /\ job' = "failed"
  /\ retryable' = (job = "failed" /\ retryable)
  /\ UNCHANGED <<attempt, stale, source, blobs, local>>

\* The database is unavailable: run_ingest raises Retry on TransientError.
ClaimUnavailable(t) ==
  /\ pc[t] = "idle" /\ delivery /\ tries < MaxTries
  /\ tries' = tries + 1
  /\ UNCHANGED <<record, source, blobs, delivery, local>>

\* The claim has started an attempt, but the thread was told it failed.
ClaimUnacknowledged(t) ==
  /\ pc[t] = "idle" /\ delivery /\ tries < MaxTries /\ VersionFree(t)
  /\ tries' = tries + 1
  /\ AttemptTx
  /\ UNCHANGED <<source, blobs, delivery, local>>

-----------------------------------------------------------------------------
(* The pipeline: a vector source. *)

\* The status test of replace and of the trigger guard_source_entity_row.
Writable == version # "ready"

\* Also in the middle of the replacement, whose transaction is rolled back: its
\* batches are read from the file as they are written.
PipelineFails(t, class) ==
  /\ pc[t] \in {"executing", "replacing", "inserted"}
  /\ Raises(t, class)
  /\ UNCHANGED <<record, source, blobs, queue>>

\* The status is read without a lock; a DELETE that finds rows locks the version.
ReplaceDelete(t) ==
  /\ kind = "vector"
  /\ pc[t] = "executing"
  /\ Writable
  /\ rows # 0 => Shareable
  /\ Goto(t, "replacing")
  /\ seen' = [seen EXCEPT ![t] = rows]
  /\ UNCHANGED <<record, source, blobs, queue, mine, err, detached>>

\* The triggers lock the version and then test its status; the unique key of the
\* source features makes the INSERTs of two attempts wait for each other.
ReplaceInsert(t) ==
  /\ pc[t] = "replacing"
  /\ Shareable /\ Writable
  /\ rows = seen[t]
  /\ \A u \in Threads : pc[u] # "inserted"
  /\ Goto(t, "inserted")
  /\ UNCHANGED <<record, source, blobs, queue, mine, seen, err, detached>>

\* The version has become ready, or another attempt has committed its rows.
ReplaceRefused(t) ==
  /\ pc[t] \in {"executing", "replacing"} /\ kind = "vector"
  /\ ~Writable \/ (pc[t] = "replacing" /\ rows # seen[t])
  /\ Raises(t, "permanent")
  /\ UNCHANGED <<record, source, blobs, queue>>

ReplaceCommit(t) ==
  /\ pc[t] = "inserted"
  /\ rows' = mine[t]
  /\ Goto(t, "completing")
  /\ UNCHANGED <<record, kind, blobs, queue, mine, seen, err, detached>>

-----------------------------------------------------------------------------
(* The pipeline: a raster. *)

\* A ready raster of an earlier attempt is reused.
StatRaster(t) ==
  /\ kind = "raster"
  /\ pc[t] = "executing"
  /\ Goto(t, IF ready THEN "completing" ELSE "normalizing")
  /\ UNCHANGED <<record, source, blobs, queue, mine, seen, err, detached>>

PutRaster(t) ==
  /\ pc[t] = "normalizing"
  /\ ~ready
  /\ temporary' = TRUE
  /\ Goto(t, "promoting")
  /\ UNCHANGED <<record, source, ready, queue, mine, seen, err, detached>>

PromoteRaster(t) ==
  /\ pc[t] = "promoting"
  /\ temporary # ready
  /\ temporary' = FALSE /\ ready' = TRUE
  /\ Goto(t, "completing")
  /\ UNCHANGED <<record, source, queue, mine, seen, err, detached>>

\* Whatever went wrong, also "ready artifact already exists", both namespaces
\* are cleared.
RasterFails(t, class) ==
  /\ pc[t] \in {"normalizing", "promoting"}
  /\ temporary' = FALSE /\ ready' = FALSE
  /\ Raises(t, class)
  /\ UNCHANGED <<record, source, queue>>

-----------------------------------------------------------------------------
(* complete *)

Completable == version = "processing" /\ job = "running"

\* complete and fail find the version ready: the job is succeeded, and so it was.
CompleteReady(t) ==
  /\ pc[t] = "completing" /\ VersionFree(t)
  /\ version = "ready"
  /\ job' = "succeeded" /\ retryable' = FALSE
  /\ Leave(t)
  /\ UNCHANGED <<version, attempt, stale, source, blobs, queue>>

CompleteRefused(t) ==
  /\ pc[t] = "completing" /\ VersionFree(t)
  /\ version # "ready" /\ ~Completable
  /\ Raises(t, "permanent")
  /\ UNCHANGED <<record, source, blobs, queue>>

CompleteLock(t) ==
  /\ pc[t] = "completing" /\ VersionFree(t)
  /\ version # "ready" /\ Completable
  /\ Goto(t, "finalizing")
  /\ UNCHANGED <<record, source, blobs, queue, mine, seen, err, detached>>

CompleteTx ==
  /\ version' = "ready"
  /\ job' = "succeeded" /\ retryable' = FALSE
  /\ UNCHANGED <<attempt, stale>>

CompleteCommit(t) ==
  /\ pc[t] = "finalizing"
  /\ CompleteTx
  /\ Leave(t)
  /\ UNCHANGED <<source, blobs, queue>>

\* The transaction is rolled back, or commits without telling the thread.
CompleteLost(t) ==
  /\ pc[t] = "finalizing"
  /\ CompleteTx \/ UNCHANGED record
  /\ Raises(t, "transient")
  /\ UNCHANGED <<source, blobs, queue>>

-----------------------------------------------------------------------------
(* fail *)

\* fail does not ask whose attempt the job is at.
FailTx(t) ==
  /\ IF version = "ready"
     THEN job' = "succeeded" /\ retryable' = FALSE /\ UNCHANGED version
     ELSE version' = "failed" /\ job' = "failed" /\ retryable' = (err[t] = "transient")
  /\ UNCHANGED <<attempt, stale>>

\* Mutant: a retryable failure consumes the delivery.
RetriesNever(t) == FALSE

\* The value of fail.
Retries(t) == version # "ready" /\ err[t] = "transient" /\ attempt < MaxAttempts

Fail(t) ==
  /\ pc[t] = "failing" /\ VersionFree(t)
  /\ FailTx(t)
  /\ IF Retries(t) THEN Redeliver(t) ELSE UNCHANGED queue
  /\ Leave(t)
  /\ UNCHANGED <<source, blobs>>

\* fail itself raises TransientError, which run_ingest turns into Retry; its
\* transaction may have committed.
FailUnavailable(t) ==
  /\ pc[t] = "failing"
  /\ UNCHANGED record \/ (VersionFree(t) /\ FailTx(t))
  /\ Redeliver(t)
  /\ Leave(t)
  /\ UNCHANGED <<source, blobs>>

-----------------------------------------------------------------------------
(* The environment. *)

\* 70 minutes have passed since the last claim, whether its thread lives or not.
StaleElapses ==
  /\ job = "running" /\ ~stale
  /\ stale' = TRUE
  /\ UNCHANGED <<job, version, attempt, retryable, source, blobs, queue, local>>

\* job_timeout: the task ends, its thread goes on.
Timeout(t) ==
  /\ pc[t] # "idle" /\ ~detached[t]
  /\ detached' = [detached EXCEPT ![t] = TRUE]
  /\ UNCHANGED <<record, source, blobs, queue, pc, mine, seen, err>>

\* The process dies; ARQ executes the job again unless it had given it up.
Crash(t) ==
  /\ pc[t] # "idle"
  /\ Redeliver(t)
  /\ Leave(t)
  /\ UNCHANGED <<record, source, blobs>>

\* The outbox dispatcher enqueues again what its crash left pending.
DuplicateDelivery ==
  /\ delivery' = TRUE /\ tries' = 0
  /\ UNCHANGED <<record, source, blobs, local>>

DropDelivery ==
  /\ delivery /\ tries = MaxTries
  /\ delivery' = FALSE
  /\ UNCHANGED <<record, source, blobs, tries, local>>

-----------------------------------------------------------------------------
Claim(t) == ClaimStarted(t) \/ ClaimReady(t) \/ ClaimInProgress(t) \/ ClaimExhausted(t)

Execute(t) ==
  \/ \E class \in Errors : PipelineFails(t, class) \/ RasterFails(t, class)
  \/ ReplaceDelete(t) \/ ReplaceInsert(t) \/ ReplaceRefused(t) \/ ReplaceCommit(t)
  \/ StatRaster(t) \/ PutRaster(t) \/ PromoteRaster(t)

Complete(t) ==
  CompleteReady(t) \/ CompleteRefused(t) \/ CompleteLock(t) \/ CompleteCommit(t)

ThreadStep(t) == Claim(t) \/ Execute(t) \/ Complete(t) \/ Fail(t)

\* The database fails a transaction or its acknowledgement.
Outage(t) ==
  \/ ClaimUnavailable(t) \/ ClaimUnacknowledged(t)
  \/ CompleteLost(t) \/ FailUnavailable(t)

Next ==
  \/ \E t \in Threads : ThreadStep(t) \/ Outage(t) \/ Timeout(t) \/ Crash(t)
  \/ StaleElapses \/ DuplicateDelivery \/ DropDelivery

Spec == Init /\ [][Next]_vars

\* A thread that took the job goes on with it, and a waiting job is taken.
Fairness == \A t \in Threads : WF_vars(ThreadStep(t))

\* No outage, no crash, no timeout.
CalmNext == (\E t \in Threads : ThreadStep(t)) \/ StaleElapses \/ DropDelivery
CalmSpec == Init /\ [][CalmNext]_vars /\ Fairness

-----------------------------------------------------------------------------
(* Properties. *)

\* The version is ready exactly when its job has succeeded, whichever of several
\* attempts, current or not, completes, fails or claims (complete, fail, claim).
ReadyAgrees == (version = "ready") = (job = "succeeded")

\* A ready version stays ready, and its attempts are over: no late failure of
\* another attempt takes it back, no delivery starts one more.
ReadyIsFinal ==
  [][version = "ready" => version' = "ready" /\ attempt' = attempt]_vars

\* Two living attempts never carry the same number, so attempt_count tells them
\* apart although fail and complete do not compare it.
AttemptsDistinct ==
  \A t, u \in Threads : t # u /\ mine[t] # 0 => mine[t] # mine[u]

\* A ready vector version has source rows, of an attempt that was counted.
ReadyHasRows == kind = "vector" /\ version = "ready" => rows \in 1..attempt

\* Without failures of the environment, the job ends ready, or failed with an
\* error that is not to be retried, or with its attempts used up: it is never
\* left showing a retry (retry_pending) that nobody will make.
Settles ==
  <>[](version = "ready" \/ (job = "failed" /\ (~retryable \/ attempt = MaxAttempts)))

\* The source rows of a ready version never change, although replace reads the
\* status without a lock while another attempt of the same job may complete.
SourceRowsFrozen == [][version = "ready" => rows' = rows]_vars

\* docs/INGEST_SUBMISSION.md: only a complete version is ready. The failure of an
\* overlapping attempt deletes the raster a ready version consists of.
ReadyHasRaster == kind = "raster" /\ version = "ready" => ready
=============================================================================
