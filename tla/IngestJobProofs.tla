--------------------------- MODULE IngestJobProofs ---------------------------
(***************************************************************************)
(* For every number of worker threads, of attempts and of executions, and  *)
(* for both kinds of source: the version and its job agree, a ready        *)
(* version is final, attempts are told apart by their number, a ready      *)
(* vector version has rows, and these rows are never replaced.             *)
(***************************************************************************)
EXTENDS IngestJob, TLAPS

\* Boolean bookkeeping, apart because it needs a different prover.
Flags ==
  /\ retryable \in BOOLEAN /\ stale \in BOOLEAN
  /\ temporary \in BOOLEAN /\ ready \in BOOLEAN
  /\ delivery \in BOOLEAN
  /\ detached \in [Threads -> BOOLEAN]

Ranges ==
  /\ job \in {"queued", "running", "failed", "succeeded"}
  /\ version \in {"uploaded", "processing", "failed", "ready"}
  /\ attempt \in 0..MaxAttempts
  /\ kind \in {"vector", "raster"} /\ rows \in 0..MaxAttempts
  /\ tries \in 0..MaxTries
  /\ pc \in [Threads -> Positions]
  /\ mine \in [Threads -> 0..MaxAttempts]
  /\ seen \in [Threads -> 0..MaxAttempts]
  /\ err \in [Threads -> Errors \cup {"none"}]

LEMMA TypeSplit == TypeOK <=> Flags /\ Ranges
  BY DEF TypeOK, Flags, Ranges

\* A step of one thread or of the environment, the cases of every proof below.
Step(t) ==
  \/ ClaimStarted(t) \/ ClaimReady(t) \/ ClaimInProgress(t) \/ ClaimExhausted(t)
  \/ ClaimUnavailable(t) \/ ClaimUnacknowledged(t)
  \/ \E class \in Errors : PipelineFails(t, class) \/ RasterFails(t, class)
  \/ ReplaceDelete(t) \/ ReplaceInsert(t) \/ ReplaceRefused(t)
  \/ ReplaceCommit(t)
  \/ StatRaster(t) \/ PutRaster(t) \/ PromoteRaster(t)
  \/ CompleteReady(t) \/ CompleteRefused(t) \/ CompleteLock(t)
  \/ CompleteCommit(t) \/ CompleteLost(t)
  \/ Fail(t) \/ FailUnavailable(t)
  \/ Timeout(t) \/ Crash(t)

Environment == StaleElapses \/ DuplicateDelivery \/ DropDelivery

LEMMA NextSplit == Next <=> (\E t \in Threads : Step(t)) \/ Environment
  BY DEF Next, ThreadStep, Claim, Execute, Complete, Outage, Step, Environment

-----------------------------------------------------------------------------
(* Type correctness. *)

LEMMA RangesStep ==
  ASSUME Ranges, NEW t \in Threads, Step(t)
  PROVE  Ranges'
<1> USE IngestAssumption DEF Ranges, Positions, Errors, Goto, Raises, Leave,
        record, source, blobs, queue, local
<1>1. CASE ClaimStarted(t)
  BY <1>1 DEF ClaimStarted, Taken, AttemptTx, Exhausted
<1>2. CASE ClaimReady(t)
  BY <1>2 DEF ClaimReady, Taken
<1>3. CASE ClaimInProgress(t)
  BY <1>3 DEF ClaimInProgress, Taken
<1>4. CASE ClaimExhausted(t)
  BY <1>4 DEF ClaimExhausted, Taken
<1>5. CASE ClaimUnavailable(t) \/ ClaimUnacknowledged(t)
  BY <1>5 DEF ClaimUnavailable, ClaimUnacknowledged, AttemptTx, Exhausted
<1>6. CASE \E class \in Errors : PipelineFails(t, class) \/ RasterFails(t, class)
  BY <1>6 DEF PipelineFails, RasterFails
<1>7. CASE ReplaceDelete(t) \/ ReplaceInsert(t) \/ ReplaceRefused(t)
  BY <1>7 DEF ReplaceDelete, ReplaceInsert, ReplaceRefused
<1>8. CASE ReplaceCommit(t)
  BY <1>8 DEF ReplaceCommit
<1>9. CASE StatRaster(t) \/ PutRaster(t) \/ PromoteRaster(t)
  BY <1>9 DEF StatRaster, PutRaster, PromoteRaster
<1>10. CASE CompleteReady(t) \/ CompleteRefused(t) \/ CompleteLock(t)
  BY <1>10 DEF CompleteReady, CompleteRefused, CompleteLock
<1>11. CASE CompleteCommit(t) \/ CompleteLost(t)
  BY <1>11 DEF CompleteCommit, CompleteLost, CompleteTx
<1>12. CASE Fail(t) \/ FailUnavailable(t)
  BY <1>12 DEF Fail, FailUnavailable, FailTx, Redeliver
<1>13. CASE Timeout(t) \/ Crash(t)
  BY <1>13 DEF Timeout, Crash, Redeliver
<1> QED
  BY <1>1, <1>2, <1>3, <1>4, <1>5, <1>6, <1>7, <1>8, <1>9, <1>10, <1>11,
     <1>12, <1>13 DEF Step

LEMMA FlagsStep ==
  ASSUME Flags, NEW t \in Threads, Step(t)
  PROVE  Flags'
<1> USE DEF Flags, Raises, Leave, record, source, blobs, queue, local
<1>1. CASE ClaimStarted(t) \/ ClaimReady(t) \/ ClaimInProgress(t)
  BY <1>1, Zenon DEF ClaimStarted, ClaimReady, ClaimInProgress, Taken, AttemptTx
<1>2. CASE ClaimExhausted(t)
  BY <1>2, Zenon DEF ClaimExhausted, Taken
<1>3. CASE ClaimUnavailable(t) \/ ClaimUnacknowledged(t)
  BY <1>3, Zenon DEF ClaimUnavailable, ClaimUnacknowledged, AttemptTx
<1>4. CASE \E class \in Errors : PipelineFails(t, class) \/ RasterFails(t, class)
  BY <1>4, Zenon DEF PipelineFails, RasterFails
<1>5. CASE \/ ReplaceDelete(t) \/ ReplaceInsert(t) \/ ReplaceRefused(t)
           \/ ReplaceCommit(t)
  BY <1>5, Zenon DEF ReplaceDelete, ReplaceInsert, ReplaceRefused, ReplaceCommit
<1>6. CASE StatRaster(t) \/ PutRaster(t) \/ PromoteRaster(t)
  BY <1>6, Zenon DEF StatRaster, PutRaster, PromoteRaster
<1>7. CASE CompleteReady(t) \/ CompleteRefused(t) \/ CompleteLock(t)
  <2>1. detached' \in [Threads -> BOOLEAN]
    BY <1>7 DEF CompleteReady, CompleteRefused, CompleteLock
  <2> QED
    BY <1>7, <2>1, Zenon DEF CompleteReady, CompleteRefused, CompleteLock
<1>8. CASE CompleteCommit(t) \/ CompleteLost(t)
  <2>1. detached' \in [Threads -> BOOLEAN]
    BY <1>8 DEF CompleteCommit, CompleteLost
  <2> QED
    BY <1>8, <2>1, Zenon DEF CompleteCommit, CompleteLost, CompleteTx
<1>9. CASE Fail(t) \/ FailUnavailable(t)
  <2>1. detached' \in [Threads -> BOOLEAN]
    BY <1>9 DEF Fail, FailUnavailable
  <2>2. retryable' \in BOOLEAN /\ stale' \in BOOLEAN
    BY <1>9, Zenon DEF Fail, FailUnavailable, FailTx
  <2>3. delivery' \in BOOLEAN /\ temporary' \in BOOLEAN /\ ready' \in BOOLEAN
    BY <1>9, Zenon DEF Fail, FailUnavailable, Redeliver
  <2> QED
    BY <2>1, <2>2, <2>3
<1>10. CASE Timeout(t) \/ Crash(t)
  <2>1. detached' \in [Threads -> BOOLEAN]
    BY <1>10 DEF Timeout, Crash
  <2> QED
    BY <1>10, <2>1, Zenon DEF Timeout, Crash, Redeliver
<1> QED
  BY <1>1, <1>2, <1>3, <1>4, <1>5, <1>6, <1>7, <1>8, <1>9, <1>10 DEF Step

LEMMA TypeEnvironment ==
  ASSUME TypeOK, Environment
  PROVE  TypeOK'
<1>1. Ranges'
  BY IngestAssumption
  DEF TypeOK, Environment, StaleElapses, DuplicateDelivery, DropDelivery, Ranges,
      record, source, blobs, queue, local
<1>2. Flags'
  BY Zenon
  DEF TypeOK, Environment, StaleElapses, DuplicateDelivery, DropDelivery, Flags,
      record, source, blobs, queue, local
<1> QED
  BY <1>1, <1>2, TypeSplit DEF TypeOK, Ranges, Flags

LEMMA TypeStep == TypeOK /\ [Next]_vars => TypeOK'
<1> SUFFICES ASSUME TypeOK, [Next]_vars PROVE TypeOK'
  OBVIOUS
<1>1. CASE \E t \in Threads : Step(t)
  BY <1>1, TypeSplit, RangesStep, FlagsStep DEF TypeOK, Ranges, Flags
<1>2. CASE Environment
  BY <1>2, TypeEnvironment
<1>3. CASE UNCHANGED vars
  BY <1>3 DEF vars, record, source, blobs, queue, local, TypeOK
<1> QED
  BY <1>1, <1>2, <1>3, NextSplit

\* Statuses, counters and positions stay in range: no interleaving counts an
\* attempt beyond max_attempts (claim).
THEOREM IngestTypeCorrect == Spec => []TypeOK
<1>1. Init => TypeOK
  <2>1. Init => Flags
    BY Zenon DEF Init, Flags
  <2>2. Init => Ranges
    BY IngestAssumption, SMT DEF Init, Ranges, Positions, Errors, IngestAssumption
  <2> QED
    BY <2>1, <2>2, TypeSplit
<1> QED
  BY <1>1, TypeStep, PTL DEF Spec

-----------------------------------------------------------------------------
(* The version and its job. *)

LEMMA AgreesStep == TypeOK /\ ReadyAgrees /\ [Next]_vars => ReadyAgrees'
<1> SUFFICES ASSUME TypeOK, ReadyAgrees, [Next]_vars PROVE ReadyAgrees'
  OBVIOUS
<1> USE DEF ReadyAgrees, record
<1>1. ASSUME NEW t \in Threads, Step(t) PROVE ReadyAgrees'
  <2>1. CASE ClaimStarted(t) \/ ClaimUnacknowledged(t)
    BY <2>1 DEF ClaimStarted, ClaimUnacknowledged, AttemptTx
  <2>2. CASE \/ ClaimReady(t) \/ ClaimInProgress(t) \/ ClaimExhausted(t)
             \/ ClaimUnavailable(t)
    BY <2>2 DEF ClaimReady, ClaimInProgress, ClaimExhausted, ClaimUnavailable
  <2>3. CASE \/ CompleteReady(t) \/ CompleteRefused(t) \/ CompleteLock(t)
             \/ CompleteCommit(t) \/ CompleteLost(t)
    BY <2>3 DEF CompleteReady, CompleteRefused, CompleteLock, CompleteCommit,
                CompleteLost, CompleteTx
  <2>4. CASE Fail(t) \/ FailUnavailable(t)
    BY <2>4 DEF Fail, FailUnavailable, FailTx
  <2>5. CASE UNCHANGED record
    BY <2>5
  <2>6. \/ \E class \in Errors : PipelineFails(t, class) \/ RasterFails(t, class)
        \/ ReplaceDelete(t) \/ ReplaceInsert(t) \/ ReplaceRefused(t)
        \/ ReplaceCommit(t)
        \/ StatRaster(t) \/ PutRaster(t) \/ PromoteRaster(t)
        \/ Timeout(t) \/ Crash(t)
        => UNCHANGED record
    BY DEF PipelineFails, RasterFails, ReplaceDelete, ReplaceInsert, ReplaceRefused,
           ReplaceCommit, StatRaster, PutRaster, PromoteRaster,
           Timeout, Crash
  <2> QED
    BY <1>1, <2>1, <2>2, <2>3, <2>4, <2>5, <2>6 DEF Step
<1>2. CASE Environment
  BY <1>2 DEF Environment, StaleElapses, DuplicateDelivery, DropDelivery
<1>3. CASE UNCHANGED vars
  BY <1>3 DEF vars
<1> QED
  BY <1>1, <1>2, <1>3, NextSplit

\* Whatever attempts overlap, and whatever the database loses, a version is ready
\* exactly when its job has succeeded (claim, complete, fail).
THEOREM VersionAndJobAgree == Spec => []ReadyAgrees
<1>1. Init => ReadyAgrees
  BY DEF Init, ReadyAgrees
<1> QED
  BY <1>1, AgreesStep, IngestTypeCorrect, PTL DEF Spec

-----------------------------------------------------------------------------
(* Attempts. *)

\* No number of an attempt exceeds the counter, and two threads never share one.
Numbered ==
  /\ rows <= attempt
  /\ \A t \in Threads : mine[t] <= attempt
  /\ \A t \in Threads : pc[t] # "idle" => mine[t] # 0
  /\ AttemptsDistinct

LEMMA NumberedStep == TypeOK /\ Numbered /\ [Next]_vars => Numbered'
<1> SUFFICES ASSUME TypeOK, Numbered, [Next]_vars PROVE Numbered'
  OBVIOUS
<1> USE DEF Ranges, Numbered, AttemptsDistinct, record, source, blobs, queue, local
<1> Ranges
  BY TypeSplit
<1>1. ASSUME NEW t \in Threads, Step(t) PROVE Numbered'
  <2>1. CASE ClaimStarted(t)
    BY <2>1 DEF ClaimStarted, Taken, AttemptTx, Goto
  <2>2. CASE ClaimUnacknowledged(t)
    BY <2>2 DEF ClaimUnacknowledged, AttemptTx
  <2>3. CASE \/ ClaimReady(t) \/ ClaimInProgress(t) \/ ClaimExhausted(t)
             \/ ClaimUnavailable(t)
    BY <2>3 DEF ClaimReady, ClaimInProgress, ClaimExhausted, ClaimUnavailable
  <2>4. CASE \E class \in Errors : PipelineFails(t, class) \/ RasterFails(t, class)
    BY <2>4 DEF PipelineFails, RasterFails, Raises, Goto
  <2>5. CASE ReplaceDelete(t) \/ ReplaceInsert(t) \/ ReplaceRefused(t)
    BY <2>5 DEF ReplaceDelete, ReplaceInsert, ReplaceRefused, Raises, Goto
  <2>6. CASE ReplaceCommit(t)
    BY <2>6 DEF ReplaceCommit, Goto
  <2>7. CASE StatRaster(t) \/ PutRaster(t) \/ PromoteRaster(t)
    BY <2>7 DEF StatRaster, PutRaster, PromoteRaster, Goto
  <2>8. CASE CompleteReady(t) \/ CompleteRefused(t) \/ CompleteLock(t)
    BY <2>8 DEF CompleteReady, CompleteRefused, CompleteLock, Raises, Leave, Goto
  <2>9. CASE CompleteCommit(t) \/ CompleteLost(t)
    BY <2>9 DEF CompleteCommit, CompleteLost, CompleteTx, Raises, Leave, Goto
  <2>10. CASE Fail(t) \/ FailUnavailable(t)
    BY <2>10 DEF Fail, FailUnavailable, FailTx, Leave, Goto
  <2>11. CASE Timeout(t) \/ Crash(t)
    BY <2>11 DEF Timeout, Crash, Leave, Goto
  <2> QED
    BY <1>1, <2>1, <2>2, <2>3, <2>4, <2>5, <2>6, <2>7, <2>8, <2>9, <2>10, <2>11
    DEF Step
<1>2. CASE Environment
  BY <1>2 DEF Environment, StaleElapses, DuplicateDelivery, DropDelivery
<1>3. CASE UNCHANGED vars
  BY <1>3 DEF vars
<1> QED
  BY <1>1, <1>2, <1>3, NextSplit

LEMMA NumberedAlways == Spec => []Numbered
<1>1. Init => Numbered
  BY DEF Init, Numbered, AttemptsDistinct
<1> QED
  BY <1>1, NumberedStep, IngestTypeCorrect, PTL DEF Spec

\* Threads that outlive their task never share an attempt number with a later
\* claim (claim).
THEOREM AttemptsAreDistinct == Spec => []AttemptsDistinct
<1>1. Numbered => AttemptsDistinct
  BY DEF Numbered
<1> QED
  BY <1>1, NumberedAlways, PTL

-----------------------------------------------------------------------------
(* The rows of a ready vector version. *)

\* A thread reaches complete only through its own replacement, or through the
\* raster pipeline; rows, once written, are replaced in one transaction.
Grounded ==
  /\ \A t \in Threads : pc[t] \in {"normalizing", "promoting"} => kind = "raster"
  /\ kind = "vector" =>
       /\ \A t \in Threads : pc[t] \in {"completing", "finalizing"} => rows # 0
       /\ version = "ready" => rows # 0

LEMMA GroundedStep ==
  TypeOK /\ Numbered /\ Grounded /\ [Next]_vars => Grounded'
<1> SUFFICES ASSUME TypeOK, Numbered, Grounded, [Next]_vars PROVE Grounded'
  OBVIOUS
<1> USE IngestAssumption DEF Ranges, Numbered, Grounded, record, source, blobs, queue, local
<1> Ranges
  BY TypeSplit
<1>1. ASSUME NEW t \in Threads, Step(t) PROVE Grounded'
  <2>1. CASE ClaimStarted(t) \/ ClaimUnacknowledged(t)
    BY <2>1 DEF ClaimStarted, ClaimUnacknowledged, AttemptTx, Goto
  <2>2. CASE \/ ClaimReady(t) \/ ClaimInProgress(t) \/ ClaimExhausted(t)
             \/ ClaimUnavailable(t)
    BY <2>2 DEF ClaimReady, ClaimInProgress, ClaimExhausted, ClaimUnavailable
  <2>3. CASE \E class \in Errors : PipelineFails(t, class) \/ RasterFails(t, class)
    BY <2>3 DEF PipelineFails, RasterFails, Raises, Goto
  <2>4. CASE ReplaceDelete(t) \/ ReplaceInsert(t) \/ ReplaceRefused(t)
    BY <2>4 DEF ReplaceDelete, ReplaceInsert, ReplaceRefused, Raises, Goto
  <2>5. CASE ReplaceCommit(t)
    BY <2>5 DEF ReplaceCommit, Goto
  <2>6. CASE StatRaster(t) \/ PutRaster(t) \/ PromoteRaster(t)
    BY <2>6 DEF StatRaster, PutRaster, PromoteRaster, Goto
  <2>7. CASE CompleteReady(t) \/ CompleteRefused(t) \/ CompleteLock(t)
    BY <2>7 DEF CompleteReady, CompleteRefused, CompleteLock, Raises, Leave, Goto
  <2>8. CASE CompleteCommit(t) \/ CompleteLost(t)
    BY <2>8 DEF CompleteCommit, CompleteLost, CompleteTx, Raises, Leave, Goto
  <2>9. CASE Fail(t) \/ FailUnavailable(t)
    BY <2>9 DEF Fail, FailUnavailable, FailTx, Leave, Goto
  <2>10. CASE Timeout(t) \/ Crash(t)
    BY <2>10 DEF Timeout, Crash, Leave, Goto
  <2> QED
    BY <1>1, <2>1, <2>2, <2>3, <2>4, <2>5, <2>6, <2>7, <2>8, <2>9, <2>10 DEF Step
<1>2. CASE Environment
  BY <1>2 DEF Environment, StaleElapses, DuplicateDelivery, DropDelivery
<1>3. CASE UNCHANGED vars
  BY <1>3 DEF vars
<1> QED
  BY <1>1, <1>2, <1>3, NextSplit

\* A ready vector version has rows of an attempt that was counted, also when a
\* second attempt was replacing them while the first completed (replace, complete).
THEOREM ReadyVersionHasRows == Spec => []ReadyHasRows
<1>1. Init => Grounded
  BY DEF Init, Grounded
<1>2. TypeOK /\ Numbered /\ Grounded => ReadyHasRows
  BY DEF TypeOK, Numbered, Grounded, ReadyHasRows
<1> QED
  BY <1>1, <1>2, GroundedStep, NumberedAlways, IngestTypeCorrect, PTL DEF Spec

-----------------------------------------------------------------------------
(* Finality. *)

LEMMA FinalStep ==
  TypeOK /\ [Next]_vars => [version = "ready" => version' = "ready" /\ attempt' = attempt]_vars
<1> SUFFICES ASSUME TypeOK, Next, version = "ready"
             PROVE  version' = "ready" /\ attempt' = attempt
  OBVIOUS
<1> USE DEF record
<1>1. ASSUME NEW t \in Threads, Step(t) PROVE version' = "ready" /\ attempt' = attempt
  <2>1. CASE \/ ClaimStarted(t) \/ ClaimUnacknowledged(t) \/ ClaimReady(t)
             \/ ClaimInProgress(t) \/ ClaimExhausted(t) \/ ClaimUnavailable(t)
    BY <2>1 DEF ClaimStarted, ClaimUnacknowledged, AttemptTx, ClaimReady,
                ClaimInProgress, ClaimExhausted, ClaimUnavailable
  <2>2. CASE \/ \E class \in Errors : PipelineFails(t, class) \/ RasterFails(t, class)
             \/ ReplaceDelete(t) \/ ReplaceInsert(t) \/ ReplaceRefused(t)
             \/ ReplaceCommit(t)
             \/ StatRaster(t) \/ PutRaster(t) \/ PromoteRaster(t)
    BY <2>2 DEF PipelineFails, RasterFails, ReplaceDelete, ReplaceInsert,
                ReplaceRefused, ReplaceCommit, StatRaster, PutRaster,
                PromoteRaster
  <2>3. CASE \/ CompleteReady(t) \/ CompleteRefused(t) \/ CompleteLock(t)
             \/ CompleteCommit(t) \/ CompleteLost(t)
    BY <2>3 DEF CompleteReady, CompleteRefused, CompleteLock, CompleteCommit,
                CompleteLost, CompleteTx
  <2>4. CASE Fail(t) \/ FailUnavailable(t) \/ Timeout(t) \/ Crash(t)
    BY <2>4 DEF Fail, FailUnavailable, FailTx, Timeout, Crash
  <2> QED
    BY <1>1, <2>1, <2>2, <2>3, <2>4 DEF Step
<1>2. CASE Environment
  BY <1>2 DEF Environment, StaleElapses, DuplicateDelivery, DropDelivery
<1> QED
  BY <1>1, <1>2, NextSplit

\* No late failure, no delivery and no overlapping attempt takes a ready version
\* back or counts another attempt of it (claim, complete, fail).
THEOREM ReadyVersionIsFinal == Spec => ReadyIsFinal
<1> QED
  BY FinalStep, IngestTypeCorrect, PTL DEF Spec, ReadyIsFinal
-----------------------------------------------------------------------------
(* The rows of a ready version are final too. *)

\* The share lock at work: while an INSERT is not committed the version is not
\* ready and no complete is about to make it so.
Locked ==
  \A t \in Threads : pc[t] = "inserted" =>
    version # "ready" /\ \A u \in Threads : pc[u] # "finalizing"

LEMMA LockedStep == TypeOK /\ Locked /\ [Next]_vars => Locked'
<1> SUFFICES ASSUME TypeOK, Locked, [Next]_vars PROVE Locked'
  OBVIOUS
<1> USE DEF Ranges, Locked, record, source, blobs, queue, local
<1> Ranges
  BY TypeSplit
<1>1. ASSUME NEW t \in Threads, Step(t) PROVE Locked'
  <2>1. CASE ClaimStarted(t) \/ ClaimUnacknowledged(t)
    BY <2>1 DEF ClaimStarted, ClaimUnacknowledged, AttemptTx, Goto
  <2>2. CASE \/ ClaimReady(t) \/ ClaimInProgress(t) \/ ClaimExhausted(t)
             \/ ClaimUnavailable(t)
    BY <2>2 DEF ClaimReady, ClaimInProgress, ClaimExhausted, ClaimUnavailable
  <2>3. CASE \E class \in Errors : PipelineFails(t, class) \/ RasterFails(t, class)
    BY <2>3 DEF PipelineFails, RasterFails, Raises, Goto
  <2>4. CASE ReplaceDelete(t) \/ ReplaceRefused(t) \/ ReplaceCommit(t)
    BY <2>4 DEF ReplaceDelete, ReplaceRefused, ReplaceCommit, Raises, Goto
  <2>5. CASE ReplaceInsert(t)
    BY <2>5 DEF ReplaceInsert, Shareable, Writable, Goto
  <2>6. CASE StatRaster(t) \/ PutRaster(t) \/ PromoteRaster(t)
    BY <2>6 DEF StatRaster, PutRaster, PromoteRaster, Goto
  <2>7. CASE CompleteReady(t) \/ CompleteRefused(t)
    BY <2>7 DEF CompleteReady, CompleteRefused, Raises, Leave, Goto
  <2>8. CASE CompleteLock(t)
    <3>1. \A u \in Threads : pc[u] # "inserted"
      BY <2>8 DEF CompleteLock, VersionFree, HoldsShare
    <3> QED
      BY <2>8, <3>1 DEF CompleteLock, Goto
  <2>9. CASE CompleteCommit(t) \/ CompleteLost(t)
    <3>1. \A u \in Threads : pc[u] # "inserted"
      BY <2>9 DEF CompleteCommit, CompleteLost
    <3> QED
      BY <2>9, <3>1 DEF CompleteCommit, CompleteLost, CompleteTx, Raises, Leave, Goto
  <2>10. CASE Fail(t) \/ FailUnavailable(t)
    BY <2>10 DEF Fail, FailUnavailable, FailTx, Leave, Goto
  <2>11. CASE Timeout(t) \/ Crash(t)
    BY <2>11 DEF Timeout, Crash, Leave, Goto
  <2> QED
    BY <1>1, <2>1, <2>2, <2>3, <2>4, <2>5, <2>6, <2>7, <2>8, <2>9, <2>10, <2>11
    DEF Step
<1>2. CASE Environment
  BY <1>2 DEF Environment, StaleElapses, DuplicateDelivery, DropDelivery
<1>3. CASE UNCHANGED vars
  BY <1>3 DEF vars
<1> QED
  BY <1>1, <1>2, <1>3, NextSplit

LEMMA RowsStep == Locked /\ [Next]_vars => [version = "ready" => rows' = rows]_vars
<1> SUFFICES ASSUME Locked, Next, version = "ready" PROVE rows' = rows
  OBVIOUS
<1> USE DEF source
<1>1. ASSUME NEW t \in Threads, Step(t) PROVE rows' = rows
  <2>1. ~ReplaceCommit(t)
    BY DEF Locked, ReplaceCommit
  <2> QED
    BY <1>1, <2>1
    DEF Step, ClaimStarted, ClaimUnacknowledged, ClaimReady, ClaimInProgress,
        ClaimExhausted, ClaimUnavailable, PipelineFails, RasterFails, ReplaceDelete,
        ReplaceInsert, ReplaceRefused, StatRaster, PutRaster, PromoteRaster,
        CompleteReady, CompleteRefused, CompleteLock, CompleteCommit, CompleteLost,
        Fail, FailUnavailable, Timeout, Crash
<1>2. CASE Environment
  BY <1>2 DEF Environment, StaleElapses, DuplicateDelivery, DropDelivery
<1> QED
  BY <1>1, <1>2, NextSplit

\* No overlapping attempt replaces the rows of a version that has become ready,
\* although replace tests the status without a lock (replace, guard_source_entity_row,
\* lock_published_tile_parent).
THEOREM ReadyRowsAreFrozen == Spec => SourceRowsFrozen
<1>1. Init => Locked
  BY DEF Init, Locked
<1> QED
  BY <1>1, LockedStep, RowsStep, IngestTypeCorrect, PTL DEF Spec, SourceRowsFrozen
=============================================================================
