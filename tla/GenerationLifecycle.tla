------------------------- MODULE GenerationLifecycle -------------------------
(***************************************************************************)
(* One generation run, from its queued row to its terminal state.          *)
(*                                                                         *)
(* The database rows of the run (run, job, stage) are the shared state;    *)
(* every method of SqlAlchemyGenerationStateStore is one transaction under *)
(* the row locks of the run and its job, so it is one atomic step here.    *)
(* GenerationJobService.run is the program of a worker thread: a sequence  *)
(* of such transactions between which cancellation requests, duplicate     *)
(* deliveries, other workers, and failures may interleave.                 *)
(*                                                                         *)
(* A stage is named by its position in the plan that StageRegistry builds  *)
(* (module StagePlan), so that "earlier in the plan" is "<".               *)
(***************************************************************************)
EXTENDS Integers

CONSTANTS
  Workers,       \* worker threads that consume the generation queue
  Unconfigured,  \* those whose ARQ context has no generation_runtime_factory
  NumStages,     \* length of the plan
  Deps,          \* Deps[i]: the direct dependencies of the i-th stage
  Skip,          \* the stages the plan skips
  MaxAttempts,   \* Job.max_attempts
  MaxQueue       \* bound: duplicates are added only below this queue length

Stages == 1..NumStages

\* What StageRegistry.build_plan guarantees of a plan (checked in StagePlan).
ASSUME PlanAssumption ==
  /\ NumStages \in Nat \ {0}
  /\ Deps \in [Stages -> SUBSET Stages]
  /\ \A i \in Stages : \A d \in Deps[i] : d < i
  /\ Skip \subseteq Stages
  /\ \A i \in Stages : Deps[i] \cap Skip # {} => i \in Skip

ASSUME LimitAssumption ==
  /\ Unconfigured \subseteq Workers
  /\ MaxAttempts \in Nat \ {0}
  /\ MaxQueue \in Nat

VARIABLES
  run,              \* generation_runs.status
  job,              \* jobs.status of the run's job
  attempts,         \* jobs.attempt_count
  cancelRequested,  \* jobs.cancel_requested_at is set
  backoff,          \* "waiting" while a scheduled retry is not due, then "elapsed"
  stage,            \* run_stage_results: status of each stage's row, "none" if absent
  pc,               \* per thread: the store call it is about to make
  active,           \* per thread: active_stage, 0 for None
  transient,        \* per thread: the error it handles is a transient one
  queue             \* deliveries of the job waiting in Redis

store == <<run, job, attempts, cancelRequested, backoff, stage>>
threads == <<pc, active, transient>>
vars == <<store, threads, queue>>

Terminal == {"succeeded", "failed", "cancelled"}
Statuses == {"queued", "running"} \cup Terminal
StageStatuses == {"none", "running", "succeeded", "skipped", "failed", "cancelled"}
BodyPCs == {"check_start", "check_entry", "skip", "resolve", "start", "execute",
            "complete", "check_end", "complete_run"}
HandlerPCs == {"handle", "fail_stage", "fail_run", "cancel_stage", "cancel_run",
               "fail_config"}

ThreadsTyped ==
  /\ pc \in [Workers -> {"idle"} \cup BodyPCs \cup HandlerPCs]
  /\ active \in [Workers -> 0..NumStages]
  /\ transient \in [Workers -> BOOLEAN]

TypeOK ==
  /\ run \in Statuses
  /\ job \in Statuses
  /\ attempts \in 0..MaxAttempts
  /\ cancelRequested \in BOOLEAN
  /\ backoff \in {"none", "waiting", "elapsed"}
  /\ stage \in [Stages -> StageStatuses]
  /\ ThreadsTyped
  /\ queue \in Nat

Init ==
  /\ run = "queued" /\ job = "queued"
  /\ attempts = 0
  /\ cancelRequested = FALSE
  /\ backoff = "none"
  /\ stage = [i \in Stages |-> "none"]
  /\ pc = [w \in Workers |-> "idle"]
  /\ active = [w \in Workers |-> 0]
  /\ transient = [w \in Workers |-> FALSE]
  /\ queue = 1

Active(w) == pc[w] # "idle"
NoStageRows == \A i \in Stages : stage[i] = "none"

-----------------------------------------------------------------------------
(* Where a thread goes next. *)

Goto(w, next, i, error) ==
  /\ pc' = [pc EXCEPT ![w] = next]
  /\ active' = [active EXCEPT ![w] = i]
  /\ transient' = [transient EXCEPT ![w] = error]

Call(w, next, i) == Goto(w, next, i, FALSE)
Return(w) == Goto(w, "idle", 0, FALSE)

\* The next entry of the plan, or the final check after the last one.
NextEntry(w) ==
  IF active[w] < NumStages THEN Call(w, "check_entry", active[w] + 1)
                           ELSE Call(w, "check_end", 0)

\* An exception in the try body: the handler keeps active_stage.
Raised(w, error) == Goto(w, "handle", active[w], error)

\* _cancelled_result: settle the active stage first, when there is one.
Cancelling(w) ==
  Call(w, IF active[w] # 0 THEN "cancel_stage" ELSE "cancel_run", active[w])

\* _require_running, then _require_not_cancelled.
Live == run = "running" /\ ~cancelRequested

\* A refused transaction of the try body raises CancelledError if the request
\* is what refused it, GenerationExecutionError (not transient) otherwise.
Refused(w) ==
  IF run = "running" /\ cancelRequested THEN Cancelling(w) ELSE Raised(w, FALSE)

-----------------------------------------------------------------------------
(* The transactions of the state store: guard, then committed effect. *)

\* Mutant: a redelivery claims a run that is already running.
ClaimableWhileRunning ==
  /\ run \in {"queued", "running"} /\ job = run
  /\ ~cancelRequested
  /\ backoff # "waiting"
  /\ attempts < MaxAttempts

Claimable ==
  /\ run = "queued" /\ job = "queued"
  /\ ~cancelRequested
  /\ backoff # "waiting"
  /\ attempts < MaxAttempts
ClaimTx ==
  /\ Claimable
  /\ run' = "running"
  /\ job' = "running"
  /\ attempts' = attempts + 1
  /\ backoff' = "none"
  /\ UNCHANGED <<cancelRequested, stage>>

Insertable(i) == Live /\ stage[i] = "none"
InsertStageTx(i, status) ==
  /\ Insertable(i)
  /\ stage' = [stage EXCEPT ![i] = status]
  /\ UNCHANGED <<run, job, attempts, cancelRequested, backoff>>

Completable(i) == Live /\ stage[i] = "running"
CompleteStageTx(i) ==
  /\ Completable(i)
  /\ stage' = [stage EXCEPT ![i] = "succeeded"]
  /\ UNCHANGED <<run, job, attempts, cancelRequested, backoff>>

Finishable ==
  /\ Live /\ job = "running"
  /\ \A i \in Stages : stage[i] \in {"succeeded", "skipped"}
CompleteRunTx ==
  /\ Finishable
  /\ run' = "succeeded"
  /\ job' = "succeeded"
  /\ backoff' = "none"
  /\ UNCHANGED <<attempts, cancelRequested, stage>>

\* fail_stage returns without a change unless the run and the stage both run.
HasStageToFail(i) == run = "running" /\ stage[i] = "running"
FailStageTx(i) ==
  /\ HasStageToFail(i) /\ ~cancelRequested
  /\ stage' = [stage EXCEPT ![i] = "failed"]
  /\ UNCHANGED <<run, job, attempts, cancelRequested, backoff>>

Failable == Live /\ job = "running"
Retryable(error) == error /\ NoStageRows /\ attempts < MaxAttempts

FailRunTx(error) ==
  LET outcome == IF Retryable(error) THEN "queued" ELSE "failed"
  IN  /\ Failable
      /\ run' = outcome
      /\ job' = outcome
      /\ backoff' = IF outcome = "queued" THEN "waiting" ELSE "none"
      /\ UNCHANGED <<attempts, cancelRequested, stage>>

\* Mutant: a cancellation also discards the stage that had just succeeded.
HasStageToCancelAny(i) ==
  run = "running" /\ stage[i] \in {"running", "failed", "succeeded"}

\* cancel_stage returns without a change unless there is something to discard.
HasStageToCancel(i) == run = "running" /\ stage[i] \in {"running", "failed"}
CancelStageTx(i) ==
  /\ stage' = IF HasStageToCancel(i) THEN [stage EXCEPT ![i] = "cancelled"] ELSE stage
  /\ UNCHANGED <<run, job, attempts, cancelRequested, backoff>>

\* cancel_run returns (already cancelled) or raises unless run and job run.
CancelRunTx ==
  LET cancels == run = "running" /\ job = "running"
  IN  /\ run' = IF cancels THEN "cancelled" ELSE run
      /\ job' = IF cancels THEN "cancelled" ELSE job
      /\ cancelRequested' = (cancelRequested \/ cancels)
      /\ backoff' = IF cancels THEN "none" ELSE backoff
      /\ UNCHANGED <<attempts, stage>>

-----------------------------------------------------------------------------
(* The worker: run_generation and GenerationJobService.run. *)

Claim(w) ==
  /\ ~Active(w)
  /\ queue > 0
  /\ ClaimTx
  /\ queue' = queue - 1
  /\ Call(w, IF w \in Unconfigured THEN "fail_config" ELSE "check_start", 0)

\* The claim starts nothing. A delivery before the backoff is over goes back to
\* the queue (ARQ Retry), which changes nothing; any other is consumed.
BackoffPending == run = "queued" /\ ~cancelRequested /\ backoff = "waiting"
DeclineDelivery(w) ==
  /\ ~Active(w)
  /\ queue > 0
  /\ ~Claimable /\ ~BackoffPending
  /\ queue' = queue - 1
  /\ UNCHANGED <<store, threads>>

\* Mutant: the plan's decision to skip a stage is ignored.
CheckCancelledNoSkip(w) ==
  LET i == active[w]
  IN  /\ pc[w] \in {"check_start", "check_entry", "execute", "check_end"}
      /\ IF cancelRequested THEN Cancelling(w)
         ELSE \/ pc[w] = "check_start" /\ Call(w, "check_entry", 1)
              \/ pc[w] = "check_entry" /\ Call(w, "resolve", i)
              \/ pc[w] = "execute" /\ Call(w, "complete", i)
              \/ pc[w] = "check_end" /\ Call(w, "complete_run", 0)
      /\ UNCHANGED <<store, queue>>

CheckCancelled(w) ==
  LET i == active[w]
  IN  /\ pc[w] \in {"check_start", "check_entry", "execute", "check_end"}
      /\ IF cancelRequested THEN Cancelling(w)
         ELSE \/ pc[w] = "check_start" /\ Call(w, "check_entry", 1)
              \/ pc[w] = "check_entry" /\ Call(w, IF i \in Skip THEN "skip" ELSE "resolve", i)
              \/ pc[w] = "execute" /\ Call(w, "complete", i)
              \/ pc[w] = "check_end" /\ Call(w, "complete_run", 0)
      /\ UNCHANGED <<store, queue>>

SkipStage(w) ==
  LET i == active[w]
  IN  /\ pc[w] = "skip"
      /\ \/ InsertStageTx(i, "skipped") /\ NextEntry(w)
         \/ ~Insertable(i) /\ UNCHANGED store /\ Refused(w)
      /\ UNCHANGED queue

\* resolve_identity reads the dependency rows without the run's lock; a stage
\* whose row already succeeded is refused, its output cannot be hydrated.
Resolvable(i) ==
  /\ \A d \in Deps[i] : stage[d] = "succeeded"
  /\ stage[i] # "succeeded"
ResolveIdentity(w) ==
  LET i == active[w]
  IN  /\ pc[w] = "resolve"
      /\ IF Resolvable(i) THEN Call(w, "start", i) ELSE Raised(w, FALSE)
      /\ UNCHANGED <<store, queue>>

StartStage(w) ==
  LET i == active[w]
  IN  /\ pc[w] = "start"
      /\ \/ InsertStageTx(i, "running") /\ Call(w, "execute", i)
         \/ ~Insertable(i) /\ UNCHANGED store /\ Refused(w)
      /\ UNCHANGED queue

CompleteStage(w) ==
  LET i == active[w]
  IN  /\ pc[w] = "complete"
      /\ \/ CompleteStageTx(i) /\ NextEntry(w)
         \/ ~Completable(i) /\ UNCHANGED store /\ Refused(w)
      /\ UNCHANGED queue

CompleteRun(w) ==
  /\ pc[w] = "complete_run"
  /\ \/ CompleteRunTx /\ Return(w)
     \/ ~Finishable /\ UNCHANGED store /\ Refused(w)
  /\ UNCHANGED queue

\* Assembly, input resolution, stage execution or the database raises; only a
\* typed transient error of the application counts as transient.
Raise(w, error) ==
  /\ pc[w] \in BodyPCs
  /\ Raised(w, error)
  /\ UNCHANGED <<store, queue>>

\* Mutant: the except branch fails the run without failing the active stage.
HandleWithoutStage(w) ==
  /\ pc[w] = "handle"
  /\ IF cancelRequested THEN Cancelling(w)
     ELSE Goto(w, "fail_run", active[w], transient[w])
  /\ UNCHANGED <<store, queue>>

\* The except branch: check_cancelled, fail_stage of the active stage, fail_run.
Handle(w) ==
  /\ pc[w] = "handle"
  /\ IF cancelRequested THEN Cancelling(w)
     ELSE Goto(w, IF active[w] # 0 THEN "fail_stage" ELSE "fail_run", active[w], transient[w])
  /\ UNCHANGED <<store, queue>>

FailStage(w) ==
  LET i == active[w]
      failRun == Goto(w, "fail_run", i, transient[w])
  IN  /\ pc[w] = "fail_stage"
      /\ \/ FailStageTx(i) /\ failRun
         \/ ~HasStageToFail(i) /\ UNCHANGED store /\ failRun
         \/ HasStageToFail(i) /\ cancelRequested /\ UNCHANGED store /\ Cancelling(w)
      /\ UNCHANGED queue

\* Mutant: nothing catches the CancelledError that fail_run raises.
FailRunUncaught(w) ==
  /\ pc[w] = "fail_run"
  /\ \/ /\ FailRunTx(transient[w])
        /\ queue' = IF Retryable(transient[w]) THEN queue + 1 ELSE queue
     \/ ~Failable /\ UNCHANGED <<store, queue>>
  /\ Return(w)

\* A scheduled retry sends the delivery back; a failure consumes it. A refusal
\* that is not a cancellation leaves the task with an exception.
FailRun(w) ==
  /\ pc[w] = "fail_run"
  /\ \/ /\ FailRunTx(transient[w])
        /\ queue' = IF Retryable(transient[w]) THEN queue + 1 ELSE queue
        /\ Return(w)
     \/ /\ ~Failable
        /\ IF run = "running" /\ cancelRequested THEN Cancelling(w) ELSE Return(w)
        /\ UNCHANGED <<store, queue>>

CancelStage(w) ==
  /\ pc[w] = "cancel_stage"
  /\ CancelStageTx(active[w])
  /\ Call(w, "cancel_run", active[w])
  /\ UNCHANGED queue

CancelRun(w) ==
  /\ pc[w] = "cancel_run"
  /\ CancelRunTx
  /\ Return(w)
  /\ UNCHANGED queue

\* _fail_unconfigured_generation: fail_run right after the claim. Nothing there
\* catches the CancelledError that fail_run raises on a pending request.
FailUnconfigured(w) ==
  /\ pc[w] = "fail_config"
  /\ \/ FailRunTx(FALSE)
     \/ ~Failable /\ UNCHANGED store
  /\ Return(w)
  /\ UNCHANGED queue

-----------------------------------------------------------------------------
(* The other actors: the API, the clock and the delivery mechanism. *)

RequestCancel ==
  /\ run \in {"queued", "running"} /\ job = run
  /\ ~cancelRequested
  /\ cancelRequested' = TRUE
  /\ IF run = "queued"
     THEN run' = "cancelled" /\ job' = "cancelled" /\ backoff' = "none"
     ELSE UNCHANGED <<run, job, backoff>>
  /\ UNCHANGED <<attempts, stage, threads, queue>>

\* The retry delay counted from Job.finished_at is over.
BackoffElapses ==
  /\ backoff = "waiting"
  /\ backoff' = "elapsed"
  /\ UNCHANGED <<run, job, attempts, cancelRequested, stage, threads, queue>>

\* The outbox may deliver again what Redis already accepted.
DuplicateDelivery ==
  /\ queue < MaxQueue
  /\ queue' = queue + 1
  /\ UNCHANGED <<store, threads>>

-----------------------------------------------------------------------------
(* Failures of the process and of its connection to the database. *)

\* The process dies; ARQ delivers the job again.
Crash(w) ==
  /\ Active(w)
  /\ Return(w)
  /\ queue' = queue + 1
  /\ UNCHANGED store

\* An exception inside the handler leaves the task: nothing is recorded.
HandlerRaises(w) ==
  /\ pc[w] \in HandlerPCs
  /\ Return(w)
  /\ UNCHANGED <<store, queue>>

\* A transaction commits but its acknowledgement is lost, so the caller sees an
\* exception after the effect: in the try body, in the handler, in the claim.
BodyCommitUnacknowledged(w) ==
  /\ \/ pc[w] = "skip" /\ InsertStageTx(active[w], "skipped")
     \/ pc[w] = "start" /\ InsertStageTx(active[w], "running")
     \/ pc[w] = "complete" /\ CompleteStageTx(active[w])
     \/ pc[w] = "complete_run" /\ CompleteRunTx
  /\ Raised(w, FALSE)
  /\ UNCHANGED queue

HandlerCommitUnacknowledged(w) ==
  /\ \/ pc[w] = "fail_stage" /\ FailStageTx(active[w])
     \/ pc[w] = "fail_run" /\ FailRunTx(transient[w])
     \/ pc[w] = "cancel_stage" /\ CancelStageTx(active[w])
     \/ pc[w] = "cancel_run" /\ CancelRunTx
     \/ pc[w] = "fail_config" /\ FailRunTx(FALSE)
  /\ Return(w)
  /\ UNCHANGED queue

ClaimUnacknowledged(w) ==
  /\ ~Active(w)
  /\ queue > 0
  /\ ClaimTx
  /\ queue' = queue - 1
  /\ UNCHANGED threads

-----------------------------------------------------------------------------
WorkerStep(w) ==
  \/ Claim(w) \/ DeclineDelivery(w)
  \/ CheckCancelled(w) \/ SkipStage(w) \/ ResolveIdentity(w)
  \/ StartStage(w) \/ CompleteStage(w) \/ CompleteRun(w)
  \/ Handle(w) \/ FailStage(w) \/ FailRun(w)
  \/ CancelStage(w) \/ CancelRun(w) \/ FailUnconfigured(w)

Step ==
  \/ \E w \in Workers : WorkerStep(w)
  \/ \E w \in Workers, error \in BOOLEAN : Raise(w, error)
  \/ RequestCancel \/ BackoffElapses \/ DuplicateDelivery

Failure == \E w \in Workers :
  \/ Crash(w) \/ HandlerRaises(w)
  \/ BodyCommitUnacknowledged(w) \/ HandlerCommitUnacknowledged(w) \/ ClaimUnacknowledged(w)

Next == Step \/ Failure

Spec == Init /\ [][Next]_vars

\* Threads that are not killed finish the code they run, idle threads take
\* deliveries, and time passes. Requests, errors and duplicates are not fair.
Fairness ==
  /\ \A w \in Workers : WF_vars(WorkerStep(w))
  /\ WF_vars(BackoffElapses)
LiveSpec == Init /\ [][Step]_vars /\ Fairness
-----------------------------------------------------------------------------
(* Properties. *)

\* At most one thread ever executes the run, and none while it is queued: the
\* claim's transition out of "queued" is the only mutual exclusion there is
\* (generation_state.py, claim and fail_run).
SingleExecutor ==
  \A v, w \in Workers : Active(v) /\ Active(w) => v = w /\ run # "queued"

\* A run waits in the queue only when replaying it is safe: no stage row was
\* ever written for it, attempts are left, and no request to cancel is pending
\* (generation_state.py, fail_run and request_cancel).
ReplaySafe ==
  run = "queued" => NoStageRows /\ attempts < MaxAttempts /\ ~cancelRequested

\* A committed request wins against every completion and failure that races
\* with it: the run can only still run or be cancelled (the rechecks under lock
\* in complete_run, fail_run and fail_stage).
CancelWins == cancelRequested => run \in {"running", "cancelled"}

\* Rows are written in plan order behind finished rows: when a stage has a row,
\* every earlier stage is skipped or succeeded as the plan says, and a stage
\* that started had all its dependencies succeed (GenerationJobService.run).
SettledBefore(i) ==
  \A j \in Stages : j < i => stage[j] = IF j \in Skip THEN "skipped" ELSE "succeeded"
RowsFollowPlan ==
  \A i \in Stages : stage[i] # "none" =>
    /\ SettledBefore(i)
    /\ i \in Skip <=> stage[i] = "skipped"
    /\ i \notin Skip => \A d \in Deps[i] : stage[d] = "succeeded"

\* The terminal status of the run is what its stage rows say: none is left
\* running, success means that the whole plan is settled, a cancelled run keeps
\* no failed row and a failed run no cancelled one (cancel_stage, fail_stage).
OutcomeMatchesRows ==
  /\ run \in Terminal => \A i \in Stages : stage[i] # "running"
  /\ run = "succeeded" => \A i \in Stages : stage[i] \in {"succeeded", "skipped"}
  /\ run = "cancelled" => \A i \in Stages : stage[i] # "failed"
  /\ run = "failed" => \A i \in Stages : stage[i] # "cancelled"

\* What a thread believes about its stage is what the database says: until it
\* starts the stage there is no row, from then on a running one; everything
\* before is settled; a stage still running or failed is the thread's own; and
\* only a thread that has passed cancel_stage can meet a cancelled row.
ThreadMatchesRow(w) ==
  LET i == active[w]
  IN  /\ pc[w] \in {"idle", "check_start", "check_end", "complete_run", "fail_config"} => i = 0
      /\ pc[w] \in {"check_entry", "skip", "resolve", "start", "execute", "complete",
                 "fail_stage", "cancel_stage"} => i \in Stages
      /\ pc[w] \in BodyPCs \cup {"fail_config"} => run = "running"
      /\ pc[w] \in {"check_start", "fail_config"} => NoStageRows
      /\ pc[w] \in {"check_entry", "skip", "resolve", "start"} =>
           SettledBefore(i) /\ stage[i] = "none"
      /\ pc[w] = "skip" => i \in Skip
      /\ pc[w] \in {"resolve", "start", "execute", "complete"} => i \notin Skip
      /\ pc[w] \in {"execute", "complete"} => stage[i] = "running"
      /\ pc[w] \in {"check_end", "complete_run"} => SettledBefore(NumStages + 1)
      /\ pc[w] # "idle" => \A j \in Stages : stage[j] \in {"running", "failed"} => j = i
      /\ pc[w] \in BodyPCs \cup {"handle"} => \A j \in Stages : stage[j] # "failed"
      /\ pc[w] \in {"fail_run", "cancel_run"} => \A j \in Stages : stage[j] # "running"
      /\ pc[w] = "cancel_run" => \A j \in Stages : stage[j] # "failed"
      /\ pc[w] \in {"cancel_stage", "cancel_run"} => cancelRequested
      /\ pc[w] \notin {"idle", "cancel_run"} => \A j \in Stages : stage[j] # "cancelled"
ThreadMatchesRows == \A w \in Workers : ThreadMatchesRow(w)

\* No stage row is added, completed or failed after the request is committed,
\* wherever the worker is at that moment; rows can only become cancelled
\* (the rechecks in start_stage, skip_stage, complete_stage and fail_stage).
NoProgressAfterCancel ==
  [][cancelRequested =>
       \A i \in Stages : stage'[i] \in {stage[i], "cancelled"}]_vars

\* Nothing that still happens to a finished run changes its rows: late
\* cancellation requests, duplicate deliveries, handlers of lost commits.
TerminalFrozen == [][(run \in Terminal) => store' = store]_vars

\* To a client the run is a RunContract: one-way cancellation, stage rows in
\* plan order, a terminal status that its rows bear out.
Contract == INSTANCE RunContract WITH
  status <- run, cancelling <- cancelRequested, rows <- stage
ImplementsContract == Contract!Spec

\* When no process fails, every run ends, whatever its stages raise.
RunSettles == <>(run \in Terminal)

\* A request for cancellation ends in a cancelled run.
CancelSettles == cancelRequested ~> run = "cancelled"
=============================================================================
