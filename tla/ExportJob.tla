------------------------------ MODULE ExportJob ------------------------------
(***************************************************************************)
(* One GeoJSON or GeoPackage export: the attempts of worker threads to     *)
(* write one artifact under the job's key and to make the job succeed with *)
(* it (the two export repositories, job services and pipelines are the     *)
(* same program), over either store: the four files in which               *)
(* LocalArtifactStore keeps the temporary and the ready artifact of a key, *)
(* or the two objects of S3ArtifactStore, which carry their metadata.      *)
(*                                                                         *)
(* A transaction locks the job and is one step; every rename of a file and *)
(* every request of S3 is one step.  Bytes are numbers: a GeoJSON export   *)
(* always has the bytes 1, a GeoPackage those of the attempt that wrote    *)
(* it; 0 is a missing file.                                                *)
(***************************************************************************)
EXTENDS Integers

CONSTANTS
  Threads,      \* worker threads; asyncio.to_thread survives a timeout
  MaxAttempts,  \* Job.max_attempts
  MaxTries      \* ARQ's limit of executions of one enqueued job

ASSUME ExportAssumption == MaxAttempts \in Nat \ {0} /\ MaxTries \in Nat

VARIABLES
  format,     \* "geojson" or "geopackage"
  backend,    \* ARTIFACT_STORE_BACKEND: "local" or "s3"
  job,        \* Job.status
  attempt,    \* Job.attempt_count
  stale,      \* Job.started_at is older than stale_after
  artifact,   \* checksum of the Artifact the export references; 0: none
  payload,    \* per namespace: the payload file, or the body of the object
  meta,       \* per namespace: the checksum in the metadata file or in the object
  late,       \* requests to S3 that nobody waits for, executed later or never
  delivery,   \* the job waits in Redis
  tries,      \* ARQ's job_try
  pc,         \* per thread: where it is in run_geojson_export
  mine,       \* per thread: attempt_count of the job context
  moves,      \* per thread: the files promote has found to rename
  stat,       \* per thread: checksum of the pipeline's result; promote of S3 keeps
              \* in it that of the temporary object
  err,        \* per thread: the class of the error it is about to record
  detached    \* per thread: ARQ has given up on its task (job_timeout)

setup == <<format, backend>>
record == <<job, attempt, stale, artifact>>
files == <<payload, meta, late>>
queue == <<delivery, tries>>
local == <<pc, mine, moves, stat, err, detached>>
vars == <<setup, record, files, queue, local>>

Bytes == 0..MaxAttempts
Namespaces == {"temporary", "ready"}
Errors == {"transient", "permanent"}
Positions == {"idle", "executing", "writing", "staging", "describing", "promoting",
              "moving_payload", "moving_meta", "checking", "recovering",
              "comparing", "copying", "verifying", "deleting", "completing", "failing"}

\* Requests that change an object: PUT of a temporary one, CopyObject, DELETE.
Put(b) == <<"put", b>>
Copy == <<"copy", 0>>
Delete == <<"delete", 0>>

TypeOK ==
  /\ format \in {"geojson", "geopackage"} /\ backend \in {"local", "s3"}
  /\ job \in {"queued", "running", "failed", "succeeded"}
  /\ attempt \in 0..MaxAttempts
  /\ stale \in BOOLEAN
  /\ artifact \in Bytes
  /\ payload \in [Namespaces -> Bytes]
  /\ meta \in [Namespaces -> Bytes]
  /\ late \in SUBSET ({Put(b) : b \in Bytes} \cup {Copy, Delete})
  /\ delivery \in BOOLEAN /\ tries \in 0..MaxTries
  /\ pc \in [Threads -> Positions]
  /\ mine \in [Threads -> 0..MaxAttempts]
  /\ moves \in [Threads -> SUBSET {"payload", "meta"}]
  /\ stat \in [Threads -> Bytes]
  /\ err \in [Threads -> Errors \cup {"none"}]
  /\ detached \in [Threads -> BOOLEAN]

\* create: job, export and outbox message in one transaction.
Init ==
  /\ format \in {"geojson", "geopackage"} /\ backend \in {"local", "s3"}
  /\ job = "queued" /\ attempt = 0 /\ stale = FALSE /\ artifact = 0
  /\ payload = [n \in Namespaces |-> 0]
  /\ meta = [n \in Namespaces |-> 0] /\ late = {}
  /\ delivery = TRUE /\ tries = 0
  /\ pc = [t \in Threads |-> "idle"]
  /\ mine = [t \in Threads |-> 0]
  /\ moves = [t \in Threads |-> {}]
  /\ stat = [t \in Threads |-> 0]
  /\ err = [t \in Threads |-> "none"]
  /\ detached = [t \in Threads |-> FALSE]

-----------------------------------------------------------------------------
(* Where a thread goes next. *)

Goto(t, label) ==
  /\ pc' = [pc EXCEPT ![t] = label]
  /\ UNCHANGED <<mine, moves, stat, err, detached>>

Raises(t, class) ==
  /\ pc' = [pc EXCEPT ![t] = "failing"]
  /\ err' = [err EXCEPT ![t] = class]
  /\ UNCHANGED <<mine, moves, stat, detached>>

Returns(t, checksum) ==
  /\ pc' = [pc EXCEPT ![t] = "completing"]
  /\ stat' = [stat EXCEPT ![t] = checksum]
  /\ UNCHANGED <<mine, moves, err, detached>>

\* The task of the thread has returned or raised.
Leave(t) ==
  /\ pc' = [pc EXCEPT ![t] = "idle"]
  /\ mine' = [mine EXCEPT ![t] = 0]
  /\ moves' = [moves EXCEPT ![t] = {}]
  /\ stat' = [stat EXCEPT ![t] = 0]
  /\ err' = [err EXCEPT ![t] = "none"]
  /\ detached' = [detached EXCEPT ![t] = FALSE]

\* Only Retry brings the job back, and only while ARQ waits for the task.
Redeliver(t) ==
  /\ delivery' = (delivery \/ ~detached[t])
  /\ UNCHANGED tries

-----------------------------------------------------------------------------
(* claim *)

Taken(t) ==
  /\ pc[t] = "idle"
  /\ delivery /\ tries < MaxTries
  /\ delivery' = FALSE
  /\ tries' = tries + 1

Startable ==
  /\ job \in {"queued", "failed"} \/ (job = "running" /\ stale)
  /\ attempt < MaxAttempts

AttemptTx ==
  /\ Startable
  /\ job' = "running" /\ stale' = FALSE
  /\ attempt' = attempt + 1
  /\ UNCHANGED artifact

ClaimStarted(t) ==
  /\ Taken(t)
  /\ AttemptTx
  /\ pc' = [pc EXCEPT ![t] = "executing"]
  /\ mine' = [mine EXCEPT ![t] = attempt']
  /\ UNCHANGED <<setup, files, moves, stat, err, detached>>

\* ALREADY_SUCCEEDED, EXHAUSTED or IN_PROGRESS: nothing is recorded, not even
\* that the attempts of a running job are used up, and the delivery is consumed.
ClaimDeclined(t) ==
  /\ Taken(t)
  /\ ~Startable
  /\ UNCHANGED <<setup, record, files, local>>

\* The database fails, or its answer is lost: an error that is not Retry leaves
\* the task.
ClaimUnavailable(t) ==
  /\ Taken(t)
  /\ AttemptTx \/ UNCHANGED record
  /\ UNCHANGED <<setup, files, local>>

-----------------------------------------------------------------------------
(* The pipeline and the store. *)

\* The bytes the attempt of this thread writes.
Written(t) == IF format = "geojson" THEN 1 ELSE mine[t]

\* stat(ready) compares the size, not the bytes, with the metadata: whether
\* different containers have the same size is left open.
Stats ==
  IF payload["ready"] = 0 THEN {"absent"}
  ELSE IF meta["ready"] = 0 THEN {"broken"}
  ELSE IF payload["ready"] = meta["ready"] THEN {"whole"}
  ELSE {"whole", "broken"}

\* _require_same_artifact for GeoJSON; a GeoPackage is inspected, not compared.
Reuse(t) ==
  IF format = "geojson" /\ meta["ready"] # Written(t)
  THEN Raises(t, "permanent")
  ELSE Returns(t, meta["ready"])

\* Reading pages, writing and reading the container; a GeoPackage is written
\* only after the ready artifact was looked for.
PipelineFails(t, class) ==
  /\ pc[t] = "executing" \/ (pc[t] = "writing" /\ format = "geopackage")
  /\ Raises(t, class)
  /\ UNCHANGED <<setup, record, files, queue>>

\* An OSError of the store, also of a directory that another thread has pruned.
StorageFails(t) ==
  /\ backend = "local"
  /\ pc[t] \in {"staging", "describing", "moving_payload", "moving_meta"}
  /\ Raises(t, "transient")
  /\ UNCHANGED <<setup, record, files, queue>>

\* A ready artifact of an earlier attempt is reused; a broken one raises
\* ArtifactContractError, which nobody catches here.
StatReady(t) ==
  /\ pc[t] = "executing"
  /\ \E seen \in Stats :
       CASE seen = "absent" -> Goto(t, "writing")
         [] seen = "broken" -> Raises(t, "transient")
         [] seen = "whole"  -> Reuse(t)
  /\ UNCHANGED <<setup, record, files, queue>>

\* put: a ready artifact, even half of one, is never overwritten.
PutCheck(t) ==
  /\ pc[t] = "writing"
  /\ Goto(t, IF payload["ready"] # 0 \/ meta["ready"] # 0 THEN "recovering" ELSE "staging")
  /\ UNCHANGED <<setup, record, files, queue>>

PutPayload(t) ==
  /\ backend = "local" /\ pc[t] = "staging"
  /\ payload' = [payload EXCEPT !["temporary"] = Written(t)]
  /\ Goto(t, "describing")
  /\ UNCHANGED <<setup, record, meta, late, queue>>

PutMeta(t) ==
  /\ backend = "local" /\ pc[t] = "describing"
  /\ meta' = [meta EXCEPT !["temporary"] = Written(t)]
  /\ Goto(t, "promoting")
  /\ UNCHANGED <<setup, record, payload, late, queue>>

\* promote refuses to replace a ready file by a temporary one.
InTheWay ==
  \/ payload["ready"] # 0 /\ payload["temporary"] # 0
  \/ meta["ready"] # 0 /\ meta["temporary"] # 0

Gone(f) == f["temporary"] = 0 /\ f["ready"] = 0

\* The four files are read in one step. A complete ready artifact, with nothing
\* temporary left, is returned by the stat at the end.
PromoteCheck(t) ==
  /\ backend = "local" /\ pc[t] = "promoting"
  /\ IF Gone(payload) /\ Gone(meta) THEN Raises(t, "transient")
     ELSE IF \/ InTheWay \/ Gone(payload) \/ Gone(meta)
             \/ payload["ready"] # 0 /\ meta["ready"] # 0
                /\ (payload["temporary"] # 0 \/ meta["temporary"] # 0)
     THEN Goto(t, "recovering")
     ELSE /\ pc' = [pc EXCEPT ![t] = "moving_payload"]
          /\ moves' = [moves EXCEPT ![t] =
               {f \in {"payload", "meta"} :
                  IF f = "payload" THEN payload["temporary"] # 0 ELSE meta["temporary"] # 0}]
          /\ UNCHANGED <<mine, stat, err, detached>>
  /\ UNCHANGED <<setup, record, files, queue>>

\* os.replace of a file that another thread has renamed raises.
MovePayload(t) ==
  /\ pc[t] = "moving_payload"
  /\ \/ /\ "payload" \notin moves[t]
        /\ Goto(t, "moving_meta")
        /\ UNCHANGED payload
     \/ /\ "payload" \in moves[t] /\ payload["temporary"] = 0
        /\ Raises(t, "transient")
        /\ UNCHANGED payload
     \/ /\ "payload" \in moves[t] /\ payload["temporary"] # 0
        /\ payload' = [temporary |-> 0, ready |-> payload["temporary"]]
        /\ Goto(t, "moving_meta")
  /\ UNCHANGED <<setup, record, meta, late, queue>>

MoveMeta(t) ==
  /\ pc[t] = "moving_meta"
  /\ \/ /\ "meta" \notin moves[t]
        /\ Goto(t, "checking")
        /\ UNCHANGED meta
     \/ /\ "meta" \in moves[t] /\ meta["temporary"] = 0
        /\ Raises(t, "transient")
        /\ UNCHANGED meta
     \/ /\ "meta" \in moves[t] /\ meta["temporary"] # 0
        /\ meta' = [temporary |-> 0, ready |-> meta["temporary"]]
        /\ Goto(t, "checking")
  /\ UNCHANGED <<setup, record, payload, late, queue>>

\* The stat that promote returns; the GeoPackage pipeline compares it with the
\* stat of put.
ReturnsReady(t) ==
  \E seen \in Stats :
    CASE seen = "absent" -> Raises(t, "transient")
      [] seen = "broken" -> Goto(t, "recovering")
      [] seen = "whole"  ->
           IF format = "geopackage" /\ meta["ready"] # Written(t)
           THEN Raises(t, "transient")
           ELSE Returns(t, meta["ready"])

PromoteReturns(t) ==
  /\ pc[t] = "checking"
  /\ ReturnsReady(t)
  /\ UNCHANGED <<setup, record, files, queue>>

\* except ArtifactContractError: another attempt's ready artifact is adopted.
Recover(t) ==
  /\ pc[t] = "recovering"
  /\ \E seen \in Stats : IF seen = "whole" THEN Reuse(t) ELSE Raises(t, "transient")
  /\ UNCHANGED <<setup, record, files, queue>>

-----------------------------------------------------------------------------
(* S3ArtifactStore. *)

\* Mutant: the copy has no condition.
CopyUnconditional == TRUE

\* If-None-Match: *
CopyAllowed == payload["ready"] = 0

\* What a request does to the objects when the server executes it. There is nothing
\* to copy when the temporary object has gone.
Executed(request) ==
  LET content == [n \in Namespaces |->
        IF n = "temporary"
        THEN IF request[1] = "put" THEN request[2]
             ELSE IF request = Delete THEN 0 ELSE payload[n]
        ELSE IF request = Copy /\ CopyAllowed /\ payload["temporary"] # 0
             THEN payload["temporary"] ELSE payload[n]]
  IN  payload' = content /\ meta' = content

\* put has asked for the ready object (PutCheck) and sends what it has spooled.
PutObject(t) ==
  /\ backend = "s3" /\ pc[t] = "staging"
  /\ Executed(Put(Written(t)))
  /\ Goto(t, "promoting")
  /\ UNCHANGED <<setup, record, late, queue>>

\* promote: the stat of the temporary object, then that of the ready one.
StatTemporary(t) ==
  /\ backend = "s3" /\ pc[t] = "promoting"
  /\ pc' = [pc EXCEPT ![t] = "comparing"]
  /\ stat' = [stat EXCEPT ![t] = meta["temporary"]]
  /\ UNCHANGED <<setup, record, files, queue, mine, moves, err, detached>>

\* Without a temporary object the ready one is the result, whatever it contains; a
\* ready object that differs from the temporary one is refused.
CompareObjects(t) ==
  /\ pc[t] = "comparing"
  /\ IF stat[t] = 0 THEN ReturnsReady(t)
     ELSE Goto(t, IF meta["ready"] = 0 THEN "copying"
                  ELSE IF meta["ready"] = stat[t] THEN "deleting" ELSE "recovering")
  /\ UNCHANGED <<setup, record, files, queue>>

\* 409 and 412 are no error; a temporary object that has gone is.
CopyObject(t) ==
  /\ pc[t] = "copying"
  /\ Executed(Copy)
  /\ IF payload["ready"] = 0 /\ payload["temporary"] = 0
     THEN Raises(t, "transient") ELSE Goto(t, "verifying")
  /\ UNCHANGED <<setup, record, late, queue>>

\* The stat behind the copy: the temporary object may have been replaced meanwhile.
VerifyCopy(t) ==
  /\ pc[t] = "verifying"
  /\ Goto(t, IF meta["ready"] = stat[t] THEN "deleting" ELSE "recovering")
  /\ UNCHANGED <<setup, record, files, queue>>

\* promote returns what it has compared; the GeoPackage pipeline compares it with
\* the stat of put.
DeleteTemporary(t) ==
  /\ pc[t] = "deleting"
  /\ Executed(Delete)
  /\ IF format = "geopackage" /\ stat[t] # Written(t)
     THEN Raises(t, "transient") ELSE Returns(t, stat[t])
  /\ UNCHANGED <<setup, record, late, queue>>

\* The request that would change an object, if one is under way.
InFlight(t) ==
  {request \in {Put(Written(t)), Copy, Delete} :
     /\ backend = "s3"
     /\ pc[t] = CASE request = Copy -> "copying" [] request = Delete -> "deleting"
                    [] OTHER -> "staging"}

\* No answer, or a refusal: S3ArtifactStoreError. A request that changes an object may
\* have been executed, or be executed at any later time.
RequestFails(t) ==
  /\ backend = "s3"
  /\ pc[t] \in {"writing", "staging", "promoting", "comparing", "copying",
                   "verifying", "deleting", "recovering"}
  /\ late' = late \cup InFlight(t)
  /\ Raises(t, "transient")
  /\ UNCHANGED <<setup, record, payload, meta, queue>>

RequestArrives(request) ==
  /\ request \in late
  /\ Executed(request)
  /\ late' = late \ {request}
  /\ UNCHANGED <<setup, record, queue, local>>

-----------------------------------------------------------------------------
(* complete and fail *)

\* Mutant: only the job's status is compared.
CurrentByStatus(t) == job = "running"

\* _require_attempt
Current(t) == job = "running" /\ attempt = mine[t]

Completable(t) == Current(t) /\ artifact \in {0, stat[t]}

CompleteTx(t) ==
  /\ Completable(t)
  /\ job' = "succeeded"
  /\ artifact' = stat[t]
  /\ UNCHANGED <<attempt, stale>>

Complete(t) ==
  /\ pc[t] = "completing"
  /\ CompleteTx(t)
  /\ Leave(t)
  /\ UNCHANGED <<setup, files, queue>>

\* An attempt that is no longer current, or metadata that does not match.
CompleteRefused(t) ==
  /\ pc[t] = "completing"
  /\ ~Completable(t)
  /\ Raises(t, "transient")
  /\ UNCHANGED <<setup, record, files, queue>>

CompleteLost(t) ==
  /\ pc[t] = "completing"
  /\ CompleteTx(t) \/ UNCHANGED record
  /\ Raises(t, "transient")
  /\ UNCHANGED <<setup, files, queue>>

FailTx(t) ==
  /\ Current(t)
  /\ job' = "failed"
  /\ UNCHANGED <<attempt, stale, artifact>>

Retries(t) == err[t] = "transient" /\ attempt < MaxAttempts

Fail(t) ==
  /\ pc[t] = "failing"
  /\ FailTx(t)
  /\ IF Retries(t) THEN Redeliver(t) ELSE UNCHANGED queue
  /\ Leave(t)
  /\ UNCHANGED <<setup, files>>

\* fail raises, because the attempt is no longer current or the database fails
\* (its transaction may have committed): the task ends without Retry.
FailRaises(t) ==
  /\ pc[t] = "failing"
  /\ (~Current(t) /\ UNCHANGED record) \/ UNCHANGED record \/ FailTx(t)
  /\ Leave(t)
  /\ UNCHANGED <<setup, files, queue>>

-----------------------------------------------------------------------------
(* The environment. *)

\* 70 minutes have passed since the last claim.
StaleElapses ==
  /\ job = "running" /\ ~stale
  /\ stale' = TRUE
  /\ UNCHANGED <<setup, job, attempt, artifact, files, queue, local>>

\* job_timeout: the task ends, its thread goes on.
Timeout(t) ==
  /\ pc[t] # "idle" /\ ~detached[t]
  /\ detached' = [detached EXCEPT ![t] = TRUE]
  /\ UNCHANGED <<setup, record, files, queue, pc, mine, moves, stat, err>>

\* The process dies, and its request may outlive it; ARQ executes the job again
\* unless it had given it up.
Crash(t) ==
  /\ pc[t] # "idle"
  /\ Redeliver(t)
  /\ Leave(t)
  /\ late' = late \cup InFlight(t)
  /\ UNCHANGED <<setup, record, payload, meta>>

\* The outbox dispatcher enqueues again what its crash left pending.
DuplicateDelivery ==
  /\ delivery' = TRUE /\ tries' = 0
  /\ UNCHANGED <<setup, record, files, local>>

DropDelivery ==
  /\ delivery /\ tries = MaxTries
  /\ delivery' = FALSE
  /\ UNCHANGED <<setup, record, files, tries, local>>

-----------------------------------------------------------------------------
Store(t) ==
  \/ StatReady(t) \/ PutCheck(t) \/ PutPayload(t) \/ PutMeta(t)
  \/ PromoteCheck(t) \/ MovePayload(t) \/ MoveMeta(t) \/ PromoteReturns(t)
  \/ Recover(t)
  \/ PutObject(t) \/ StatTemporary(t) \/ CompareObjects(t) \/ CopyObject(t)
  \/ VerifyCopy(t) \/ DeleteTemporary(t)

\* Nothing of the environment goes wrong in these.
ThreadStep(t) ==
  \/ ClaimStarted(t) \/ ClaimDeclined(t)
  \/ Store(t)
  \/ Complete(t) \/ CompleteRefused(t)
  \/ Fail(t) \/ (~Current(t) /\ FailRaises(t))

Outage(t) ==
  \/ ClaimUnavailable(t) \/ CompleteLost(t) \/ FailRaises(t)
  \/ StorageFails(t) \/ RequestFails(t)
  \/ \E class \in Errors : PipelineFails(t, class)

Next ==
  \/ \E t \in Threads : ThreadStep(t) \/ Outage(t) \/ Timeout(t) \/ Crash(t)
  \/ \E request \in late : RequestArrives(request)
  \/ StaleElapses \/ DuplicateDelivery \/ DropDelivery

Spec == Init /\ [][Next]_vars

-----------------------------------------------------------------------------
(* Properties. *)

\* A succeeded export can be downloaded (ready_artifact_ref, open): both files of
\* its artifact are in the ready namespace, and the bytes of a GeoJSON export, and
\* of every export in S3, are those whose checksum the database has, whatever
\* requests arrive late. Overlapping attempts of a GeoPackage in the local store may
\* exchange one file for another between the check and the rename of promote.
Downloadable ==
  job = "succeeded" =>
    /\ artifact # 0 /\ payload["ready"] # 0 /\ meta["ready"] # 0
    /\ format = "geojson" \/ backend = "s3" =>
         payload["ready"] = artifact /\ meta["ready"] = artifact

\* Success is final: no late attempt, redelivery, request or error changes the export
\* or, for GeoJSON and in S3, the bytes it consists of (_require_attempt; promote).
SucceededIsFinal ==
  [][job = "succeeded" =>
       /\ UNCHANGED record
       /\ format = "geojson" \/ backend = "s3" => UNCHANGED <<payload["ready"], meta["ready"]>>]_vars

\* The number of an attempt is its fencing token: two threads that work on one job
\* at the same time never carry the same (claim).
AttemptsDistinct ==
  \A t, u \in Threads : mine[t] = mine[u] /\ mine[t] # 0 => t = u

\* Nobody ends the attempt of another thread: as long as the newest attempt has
\* not reported, the job runs (_require_attempt in complete and fail).
CurrentIsRunning ==
  \A t \in Threads :
    pc[t] \notin {"idle", "failing"} /\ mine[t] = attempt => job = "running"
=============================================================================
