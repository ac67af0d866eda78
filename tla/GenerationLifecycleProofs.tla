---------------------- MODULE GenerationLifecycleProofs ----------------------
(* Safety of GenerationLifecycle for every plan, worker set and limit, and  *)
(* that it implements RunContract.                                          *)
EXTENDS GenerationLifecycle, TLAPS

-----------------------------------------------------------------------------
(* Type correctness: first where a thread may go, then the actions. *)

LEMMA Numbers ==
  /\ NumStages \in Nat /\ 0 \in 0..NumStages /\ 1 \in 0..NumStages
  /\ MaxAttempts \in Nat
BY PlanAssumption, LimitAssumption

LEMMA GotoTyped ==
  ASSUME ThreadsTyped, NEW w \in Workers, NEW next \in {"idle"} \cup BodyPCs \cup HandlerPCs,
         NEW i \in 0..NumStages, NEW error \in BOOLEAN, Goto(w, next, i, error)
  PROVE ThreadsTyped'
BY DEF ThreadsTyped, Goto

LEMMA ReturnTyped ==
  ASSUME ThreadsTyped, NEW w \in Workers, Return(w) PROVE ThreadsTyped'
BY GotoTyped, Numbers DEF Return

LEMMA RaisedTyped ==
  ASSUME ThreadsTyped, NEW w \in Workers, NEW error \in BOOLEAN, Raised(w, error)
  PROVE ThreadsTyped'
<1>1. active[w] \in 0..NumStages
  BY DEF ThreadsTyped
<1> QED BY <1>1, GotoTyped DEF Raised, HandlerPCs

LEMMA CancellingTyped ==
  ASSUME ThreadsTyped, NEW w \in Workers, Cancelling(w)
  PROVE ThreadsTyped'
<1>1. active[w] \in 0..NumStages
  BY DEF ThreadsTyped
<1>2. CASE active[w] # 0
  BY <1>1, <1>2, GotoTyped DEF Cancelling, Call, HandlerPCs
<1>3. CASE active[w] = 0
  BY <1>1, <1>3, GotoTyped DEF Cancelling, Call, HandlerPCs
<1> QED BY <1>2, <1>3

LEMMA RefusedTyped ==
  ASSUME ThreadsTyped, NEW w \in Workers, Refused(w)
  PROVE ThreadsTyped'
<1>1. CASE Cancelling(w)
  BY <1>1, CancellingTyped
<1>2. CASE Raised(w, FALSE)
  BY <1>2, RaisedTyped
<1> QED BY <1>1, <1>2 DEF Refused

LEMMA NextEntryTyped ==
  ASSUME ThreadsTyped, NEW w \in Workers, NextEntry(w)
  PROVE ThreadsTyped'
<1>1. active[w] \in 0..NumStages
  BY DEF ThreadsTyped
<1>2. CASE active[w] < NumStages
  <2>1. active[w] + 1 \in 0..NumStages
    BY <1>1, <1>2, Numbers
  <2> QED BY <1>2, <2>1, GotoTyped DEF NextEntry, Call, BodyPCs
<1>3. CASE ~(active[w] < NumStages)
  BY <1>1, <1>3, GotoTyped, Numbers DEF NextEntry, Call, BodyPCs
<1> QED BY <1>2, <1>3

\* The rows and the deliveries keep their types under every transaction.
RowsTyped ==
  /\ run \in Statuses /\ job \in Statuses
  /\ attempts \in 0..MaxAttempts
  /\ cancelRequested \in BOOLEAN
  /\ backoff \in {"none", "waiting", "elapsed"}
  /\ stage \in [Stages -> StageStatuses]

LEMMA TypeParts == TypeOK <=> RowsTyped /\ ThreadsTyped /\ queue \in Nat
BY DEF TypeOK, RowsTyped

LEMMA RowTxTyped ==
  ASSUME RowsTyped, NEW i \in 0..NumStages,
         \/ InsertStageTx(i, "skipped") \/ InsertStageTx(i, "running")
         \/ CompleteStageTx(i) \/ FailStageTx(i) \/ CancelStageTx(i)
  PROVE RowsTyped'
BY Zenon DEF RowsTyped, InsertStageTx, CompleteStageTx, FailStageTx, CancelStageTx, StageStatuses

LEMMA RunTxTyped ==
  ASSUME RowsTyped,
         \/ ClaimTx \/ CompleteRunTx \/ CancelRunTx
         \/ \E error \in BOOLEAN : FailRunTx(error)
  PROVE RowsTyped'
<1>1. CASE ClaimTx
  BY <1>1, Numbers DEF RowsTyped, ClaimTx, Claimable, Statuses
<1>2. CASE CompleteRunTx
  BY <1>2 DEF RowsTyped, CompleteRunTx, Statuses, Terminal
<1>3. CASE CancelRunTx
  BY <1>3 DEF RowsTyped, CancelRunTx, Statuses, Terminal
<1>4. CASE \E error \in BOOLEAN : FailRunTx(error)
  BY <1>4 DEF RowsTyped, FailRunTx, Statuses, Terminal
<1> QED BY <1>1, <1>2, <1>3, <1>4

LEMMA StoreFrame == ASSUME RowsTyped, UNCHANGED store PROVE RowsTyped'
BY DEF RowsTyped, store

LEMMA TypeStep == TypeOK /\ [Next]_vars => TypeOK'
<1> SUFFICES ASSUME TypeOK, [Next]_vars PROVE RowsTyped' /\ ThreadsTyped' /\ queue' \in Nat
  BY TypeParts DEF TypeOK, RowsTyped
<1> RowsTyped /\ ThreadsTyped /\ queue \in Nat
  BY TypeParts
<1> DEFINE Typed == RowsTyped' /\ ThreadsTyped' /\ queue' \in Nat
<1>w. ASSUME NEW w \in Workers, WorkerStep(w) PROVE Typed
  <2> active[w] \in 0..NumStages /\ transient[w] \in BOOLEAN
    BY DEF ThreadsTyped
  <2>1. CASE Claim(w)
    <3>1. RowsTyped'
      BY <2>1, RunTxTyped DEF Claim
    <3>2. queue' \in Nat
      BY <2>1 DEF Claim
    <3>3. Call(w, "fail_config", 0) \/ Call(w, "check_start", 0)
      BY <2>1 DEF Claim
    <3>4. ThreadsTyped'
      BY <3>3, GotoTyped, Numbers DEF Call, BodyPCs, HandlerPCs
    <3> QED BY <3>1, <3>2, <3>4
  <2>2. CASE DeclineDelivery(w)
    BY <2>2, StoreFrame DEF DeclineDelivery, ThreadsTyped, threads, store
  <2>3. CASE CheckCancelled(w)
    <3>1. CASE cancelRequested
      BY <2>3, <3>1, CancellingTyped, StoreFrame DEF CheckCancelled, store
    <3>2. CASE ~cancelRequested
      BY <2>3, <3>2, GotoTyped, Numbers, StoreFrame DEF CheckCancelled, Call, BodyPCs, store
    <3> QED BY <3>1, <3>2
  <2>4. CASE SkipStage(w)
    BY <2>4, RowTxTyped, StoreFrame, NextEntryTyped, RefusedTyped DEF SkipStage
  <2>5. CASE ResolveIdentity(w)
    BY <2>5, StoreFrame, GotoTyped, RaisedTyped DEF ResolveIdentity, Call, BodyPCs, store
  <2>6. CASE StartStage(w)
    BY <2>6, RowTxTyped, StoreFrame, GotoTyped, RefusedTyped DEF StartStage, Call, BodyPCs
  <2>7. CASE CompleteStage(w)
    BY <2>7, RowTxTyped, StoreFrame, NextEntryTyped, RefusedTyped DEF CompleteStage
  <2>8. CASE CompleteRun(w)
    BY <2>8, RunTxTyped, StoreFrame, ReturnTyped, RefusedTyped DEF CompleteRun
  <2>9. CASE Handle(w)
    BY <2>9, StoreFrame, CancellingTyped, GotoTyped DEF Handle, HandlerPCs, store
  <2>10. CASE FailStage(w)
    BY <2>10, RowTxTyped, StoreFrame, CancellingTyped, GotoTyped DEF FailStage, HandlerPCs
  <2>11. CASE FailRun(w)
    BY <2>11, RunTxTyped, StoreFrame, CancellingTyped, ReturnTyped DEF FailRun, store
  <2>12. CASE CancelStage(w)
    BY <2>12, RowTxTyped, GotoTyped DEF CancelStage, Call, HandlerPCs
  <2>13. CASE CancelRun(w)
    BY <2>13, RunTxTyped, ReturnTyped DEF CancelRun
  <2>14. CASE FailUnconfigured(w)
    BY <2>14, RunTxTyped, StoreFrame, ReturnTyped DEF FailUnconfigured
  <2> QED BY <1>w, <2>1, <2>2, <2>3, <2>4, <2>5, <2>6, <2>7, <2>8, <2>9, <2>10, <2>11,
             <2>12, <2>13, <2>14 DEF WorkerStep
<1>e. ASSUME RequestCancel \/ BackoffElapses \/ DuplicateDelivery PROVE Typed
  <2>1. ThreadsTyped' /\ queue' \in Nat
    BY <1>e DEF RequestCancel, BackoffElapses, DuplicateDelivery, ThreadsTyped, threads
  <2>2. CASE RequestCancel
    BY <2>1, <2>2 DEF RequestCancel, RowsTyped, Statuses, Terminal
  <2>3. CASE BackoffElapses
    BY <2>1, <2>3 DEF BackoffElapses, RowsTyped
  <2>4. CASE DuplicateDelivery
    BY <2>1, <2>4, StoreFrame DEF DuplicateDelivery, store
  <2> QED BY <1>e, <2>2, <2>3, <2>4
<1>r. ASSUME NEW w \in Workers, NEW error \in BOOLEAN, Raise(w, error) PROVE Typed
  BY <1>r, RaisedTyped, StoreFrame DEF Raise, store
<1>f. ASSUME NEW w \in Workers, Crash(w) \/ HandlerRaises(w) PROVE Typed
  BY <1>f, ReturnTyped, StoreFrame DEF Crash, HandlerRaises, store
<1>b. ASSUME NEW w \in Workers, BodyCommitUnacknowledged(w) PROVE Typed
  <2> active[w] \in 0..NumStages
    BY DEF ThreadsTyped
  <2>1. RowsTyped'
    BY <1>b, RowTxTyped, RunTxTyped DEF BodyCommitUnacknowledged
  <2> QED BY <1>b, <2>1, RaisedTyped DEF BodyCommitUnacknowledged
<1>h. ASSUME NEW w \in Workers, HandlerCommitUnacknowledged(w) PROVE Typed
  <2> active[w] \in 0..NumStages /\ transient[w] \in BOOLEAN
    BY DEF ThreadsTyped
  <2>1. RowsTyped'
    BY <1>h, RowTxTyped, RunTxTyped DEF HandlerCommitUnacknowledged
  <2> QED BY <1>h, <2>1, ReturnTyped DEF HandlerCommitUnacknowledged
<1>c. ASSUME NEW w \in Workers, ClaimUnacknowledged(w) PROVE Typed
  BY <1>c, RunTxTyped DEF ClaimUnacknowledged, ThreadsTyped, threads
<1>v. CASE UNCHANGED vars
  BY <1>v, StoreFrame DEF vars, ThreadsTyped, threads, store
<1> QED BY <1>w, <1>e, <1>r, <1>f, <1>b, <1>h, <1>c, <1>v DEF Next, Step, Failure

LEMMA TypeInit == Init => TypeOK
<1> SUFFICES ASSUME Init PROVE TypeOK
  OBVIOUS
<1>1. RowsTyped
  <2>1. cancelRequested \in BOOLEAN
    BY Zenon DEF Init
  <2> QED BY <2>1, Numbers DEF Init, RowsTyped, Statuses, StageStatuses
<1>2. ThreadsTyped
  BY Numbers DEF Init, ThreadsTyped
<1> QED BY <1>1, <1>2, TypeParts DEF Init

\* Every field of every row and thread keeps its range: in particular the
\* attempts never exceed Job.max_attempts, which the database would refuse
\* (ck_jobs_attempts_within_limit in models/job.py).
THEOREM TypeCorrect == Spec => []TypeOK
BY TypeInit, TypeStep, PTL DEF Spec

-----------------------------------------------------------------------------
(* The inductive invariant.  The rows alone do not explain why a finalisation  *)
(* is right: fail_run never looks whether a stage is still running.  What      *)
(* carries the argument is ThreadMatchesRows, that the one executing thread    *)
(* knows the state of the rows at every store call it makes.                   *)

\* The two status columns agree between any two transactions.
RunJobAgree == job = run

RowsInv == RunJobAgree /\ ReplaySafe /\ CancelWins /\ RowsFollowPlan /\ OutcomeMatchesRows
IndInv == TypeOK /\ RowsInv /\ SingleExecutor /\ ThreadMatchesRows

LEMMA RowsInvFrame == ASSUME RowsInv, UNCHANGED store PROVE RowsInv'
<1> USE DEF store
<1>1. RunJobAgree' /\ ReplaySafe' /\ CancelWins'
  BY DEF RowsInv, RunJobAgree, ReplaySafe, CancelWins, NoStageRows
<1>2. RowsFollowPlan' /\ OutcomeMatchesRows'
  BY DEF RowsInv, RowsFollowPlan, OutcomeMatchesRows, SettledBefore
<1> QED BY <1>1, <1>2 DEF RowsInv

\* Behind a stage that is not settled there is no row.
LEMMA NoRowsBehind ==
  ASSUME RowsFollowPlan, NEW i \in Stages, stage[i] \notin {"succeeded", "skipped"},
         NEW k \in Stages, i < k
  PROVE stage[k] = "none"
BY DEF RowsFollowPlan, SettledBefore

\* A stage the plan does not skip has only dependencies that it does not skip.
LEMMA DepsSettled ==
  ASSUME NEW i \in Stages, i \notin Skip, SettledBefore(i)
  PROVE \A d \in Deps[i] : stage[d] = "succeeded"
BY PlanAssumption DEF SettledBefore

LEMMA InsertKeeps ==
  ASSUME RowsTyped, RowsInv, NEW i \in Stages, SettledBefore(i), NEW s, InsertStageTx(i, s),
         s = IF i \in Skip THEN "skipped" ELSE "running"
  PROVE RowsInv'
<1> USE DEF InsertStageTx, Insertable, Live
<1>1. /\ stage' = [stage EXCEPT ![i] = s] /\ stage[i] = "none"
      /\ stage \in [Stages -> StageStatuses]
      /\ run = "running" /\ run' = "running" /\ job' = job /\ ~cancelRequested'
  BY DEF RowsTyped
<1>2. \A k \in Stages : i < k => stage[k] = "none"
  BY <1>1, NoRowsBehind DEF RowsInv
<1>3. \A k \in Stages : k <= i => SettledBefore(k)'
  <2> SUFFICES ASSUME NEW k \in Stages, k <= i PROVE SettledBefore(k)'
    OBVIOUS
  <2> QED BY <1>1 DEF SettledBefore, Stages
<1>4. RowsFollowPlan'
  <2> SUFFICES ASSUME NEW k \in Stages, stage'[k] # "none"
               PROVE /\ SettledBefore(k)'
                     /\ k \in Skip <=> stage'[k] = "skipped"
                     /\ k \notin Skip => \A d \in Deps[k] : stage'[d] = "succeeded"
    BY DEF RowsFollowPlan
  <2>1. k <= i
    BY <1>1, <1>2 DEF Stages
  <2>2. SettledBefore(k)'
    BY <1>3, <2>1
  <2>3. k \notin Skip => \A d \in Deps[k] : stage'[d] = "succeeded"
    BY <2>2, PlanAssumption DEF SettledBefore
  <2>4. k \in Skip <=> stage'[k] = "skipped"
    BY <1>1 DEF RowsInv, RowsFollowPlan
  <2> QED BY <2>2, <2>3, <2>4
<1>5. RunJobAgree' /\ ReplaySafe' /\ CancelWins' /\ OutcomeMatchesRows'
  BY <1>1 DEF RowsInv, RunJobAgree, ReplaySafe, CancelWins, OutcomeMatchesRows, Terminal
<1> QED BY <1>4, <1>5 DEF RowsInv

\* A row that was running or failed becomes another row of an executed stage.
LEMMA ChangeKeeps ==
  ASSUME RowsTyped, RowsInv, NEW i \in Stages, run = "running",
         stage[i] \in {"running", "failed"},
         NEW s \in {"succeeded", "failed", "cancelled"},
         stage' = [stage EXCEPT ![i] = s],
         UNCHANGED <<run, job, attempts, cancelRequested, backoff>>
  PROVE RowsInv'
<1>1. stage \in [Stages -> StageStatuses]
  BY DEF RowsTyped
<1>2. \A k \in Stages : i < k => stage[k] = "none"
  BY NoRowsBehind DEF RowsInv
<1>3. RowsFollowPlan'
  <2> SUFFICES ASSUME NEW k \in Stages, stage'[k] # "none"
               PROVE /\ SettledBefore(k)'
                     /\ k \in Skip <=> stage'[k] = "skipped"
                     /\ k \notin Skip => \A d \in Deps[k] : stage'[d] = "succeeded"
    BY DEF RowsFollowPlan
  <2>1. k <= i /\ stage[k] # "none"
    BY <1>1, <1>2 DEF Stages
  <2>2. SettledBefore(k)
    BY <2>1 DEF RowsInv, RowsFollowPlan
  <2>3. SettledBefore(k)'
    BY <1>1, <2>1, <2>2 DEF SettledBefore, Stages
  <2>4. k \notin Skip => \A d \in Deps[k] : stage'[d] = "succeeded"
    BY <2>3, PlanAssumption DEF SettledBefore
  <2>5. k \in Skip <=> stage'[k] = "skipped"
    BY <1>1, <2>1 DEF RowsInv, RowsFollowPlan
  <2> QED BY <2>3, <2>4, <2>5
<1>4. RunJobAgree' /\ ReplaySafe' /\ CancelWins' /\ OutcomeMatchesRows'
  BY DEF RowsInv, RunJobAgree, ReplaySafe, CancelWins, OutcomeMatchesRows, Terminal
<1> QED BY <1>3, <1>4 DEF RowsInv

\* Transactions on the run itself leave the rows of its stages alone.
LEMMA RunTxKeeps ==
  ASSUME RowsTyped, RowsInv, UNCHANGED stage,
         \/ ClaimTx
         \/ CompleteRunTx
         \/ /\ \E error \in BOOLEAN : FailRunTx(error)
            /\ \A j \in Stages : stage[j] \notin {"running", "cancelled"}
         \/ CancelRunTx /\ \A j \in Stages : stage[j] \notin {"running", "failed"}
  PROVE RowsInv'
<1>1. RowsFollowPlan'
  BY DEF RowsInv, RowsFollowPlan, SettledBefore
<1> USE DEF RowsInv, RunJobAgree, ReplaySafe, CancelWins, OutcomeMatchesRows, NoStageRows, Terminal
<1>2. CASE ClaimTx
  BY <1>1, <1>2 DEF ClaimTx, Claimable
<1>3. CASE CompleteRunTx
  BY <1>1, <1>3 DEF CompleteRunTx, Finishable, Live
<1>4. CASE /\ \E error \in BOOLEAN : FailRunTx(error)
           /\ \A j \in Stages : stage[j] \notin {"running", "cancelled"}
  BY <1>1, <1>4 DEF FailRunTx, Failable, Live, Retryable
<1>5. CASE CancelRunTx /\ \A j \in Stages : stage[j] \notin {"running", "failed"}
  BY <1>1, <1>5 DEF CancelRunTx
<1> QED BY <1>2, <1>3, <1>4, <1>5

-----------------------------------------------------------------------------
(* Threads.  While one executes, every other one is idle and stays idle.       *)

LEMMA GotoFacts ==
  ASSUME ThreadsTyped, NEW w \in Workers, NEW next, NEW i, NEW error, Goto(w, next, i, error)
  PROVE /\ pc'[w] = next /\ active'[w] = i
        /\ \A v \in Workers \ {w} : pc'[v] = pc[v] /\ active'[v] = active[v]
BY DEF Goto, ThreadsTyped

\* An idle thread has nothing to know.
LEMMA IdleMatches ==
  ASSUME NEW v \in Workers, pc'[v] = "idle", active'[v] = 0
  PROVE ThreadMatchesRow(v)'
BY DEF ThreadMatchesRow, BodyPCs

\* The executing thread moves on: the others need not be looked at.
LEMMA MoveKeeps ==
  ASSUME ThreadsTyped, SingleExecutor, ThreadMatchesRows, NEW w \in Workers, Active(w),
         NEW next, NEW i, NEW error, Goto(w, next, i, error),
         run' # "queued", ThreadMatchesRow(w)'
  PROVE SingleExecutor' /\ ThreadMatchesRows'
<1>1. \A v \in Workers \ {w} : pc[v] = "idle" /\ active[v] = 0
  BY DEF SingleExecutor, Active, ThreadMatchesRows, ThreadMatchesRow
<1>2. \A v \in Workers \ {w} : pc'[v] = "idle" /\ active'[v] = 0
  BY <1>1, GotoFacts
<1>3. \A v \in Workers \ {w} : ThreadMatchesRow(v)'
  BY <1>2, IdleMatches
<1>4. SingleExecutor'
  BY <1>2 DEF SingleExecutor, Active
<1> QED BY <1>3, <1>4 DEF ThreadMatchesRows

\* It leaves the code: nobody executes.
LEMMA ReturnKeeps ==
  ASSUME ThreadsTyped, SingleExecutor, ThreadMatchesRows, NEW w \in Workers, Active(w), Return(w)
  PROVE SingleExecutor' /\ ThreadMatchesRows'
<1>1. \A v \in Workers \ {w} : pc[v] = "idle" /\ active[v] = 0
  BY DEF SingleExecutor, Active, ThreadMatchesRows, ThreadMatchesRow
<1>2. \A v \in Workers : pc'[v] = "idle" /\ active'[v] = 0
  <2>1. Goto(w, "idle", 0, FALSE)
    BY DEF Return
  <2>2. pc'[w] = "idle" /\ active'[w] = 0
    BY <2>1, GotoFacts
  <2>3. \A v \in Workers \ {w} : pc'[v] = pc[v] /\ active'[v] = active[v]
    BY <2>1, GotoFacts
  <2> QED BY <1>1, <2>2, <2>3
<1>3. ThreadMatchesRows'
  BY <1>2, IdleMatches DEF ThreadMatchesRows
<1>4. SingleExecutor'
  BY <1>2 DEF SingleExecutor, Active
<1> QED BY <1>3, <1>4

LEMMA CancellingKeeps ==
  ASSUME TypeOK, SingleExecutor, ThreadMatchesRows, NEW w \in Workers,
         pc[w] \in BodyPCs \cup {"handle", "fail_stage", "fail_run"},
         cancelRequested, UNCHANGED store, Cancelling(w)
  PROVE SingleExecutor' /\ ThreadMatchesRows'
<1> DEFINE next == IF active[w] # 0 THEN "cancel_stage" ELSE "cancel_run"
<1>1. /\ Goto(w, next, active[w], FALSE) /\ Active(w) /\ run # "queued"
      /\ pc'[w] = next /\ active'[w] = active[w]
  BY GotoFacts DEF Cancelling, Call, TypeOK, SingleExecutor, Active, BodyPCs
<1>2. /\ ThreadMatchesRow(w) /\ active[w] \in 0..NumStages /\ NumStages \in Nat
      /\ pc[w] \notin {"idle", "cancel_run"}
  BY Numbers DEF ThreadMatchesRows, TypeOK, ThreadsTyped, BodyPCs
<1>3. /\ \A j \in Stages : stage[j] \in {"running", "failed"} => j = active[w]
      /\ \A j \in Stages : stage[j] # "cancelled"
  BY <1>2 DEF ThreadMatchesRow
<1>4. ThreadMatchesRow(w)'
  BY <1>1, <1>2, <1>3 DEF ThreadMatchesRow, BodyPCs, Stages, store
<1>5. run' # "queued"
  BY <1>1 DEF store
<1> QED BY <1>1, <1>4, <1>5, MoveKeeps DEF TypeOK

LEMMA RaisedKeeps ==
  ASSUME TypeOK, SingleExecutor, ThreadMatchesRows, NEW w \in Workers,
         NEW error, pc[w] \in BodyPCs, Raised(w, error), run' # "queued",
         \A j \in Stages : stage'[j] \in {"running"} => j = active[w],
         \A j \in Stages : stage'[j] \notin {"failed", "cancelled"}
  PROVE SingleExecutor' /\ ThreadMatchesRows'
<1>1. /\ Goto(w, "handle", active[w], error) /\ Active(w)
      /\ pc'[w] = "handle" /\ active'[w] = active[w]
  BY GotoFacts DEF Raised, TypeOK, Active, BodyPCs
<1>2. ThreadMatchesRow(w)'
  BY <1>1 DEF ThreadMatchesRow, BodyPCs
<1> QED BY <1>1, <1>2, MoveKeeps DEF TypeOK

\* What every thread in the try body knows of the rows.
LEMMA BodyKnows ==
  ASSUME ThreadMatchesRows, NEW w \in Workers, pc[w] \in BodyPCs
  PROVE /\ run = "running"
        /\ \A j \in Stages : stage[j] = "running" => j = active[w]
        /\ \A j \in Stages : stage[j] \notin {"failed", "cancelled"}
BY DEF ThreadMatchesRows, ThreadMatchesRow, BodyPCs

LEMMA RefusedKeeps ==
  ASSUME TypeOK, SingleExecutor, ThreadMatchesRows, NEW w \in Workers,
         pc[w] \in BodyPCs, UNCHANGED store, Refused(w)
  PROVE SingleExecutor' /\ ThreadMatchesRows'
<1>1. CASE run = "running" /\ cancelRequested
  BY <1>1, CancellingKeeps DEF Refused
<1>2. CASE ~(run = "running" /\ cancelRequested)
  BY <1>2, RaisedKeeps, BodyKnows DEF Refused, store
<1> QED BY <1>1, <1>2

\* The row of the active stage is settled: on to the next entry.
LEMMA NextEntryKeeps ==
  ASSUME TypeOK, SingleExecutor, ThreadMatchesRows, NEW w \in Workers, Active(w),
         NEW i \in Stages, active[w] = i, NextEntry(w), run' = "running",
         SettledBefore(i + 1)',
         \A k \in Stages : i < k => stage'[k] = "none",
         \A j \in Stages : stage'[j] \notin {"running", "failed", "cancelled"}
  PROVE SingleExecutor' /\ ThreadMatchesRows'
<1>a. ThreadsTyped
  BY DEF TypeOK
<1>b. run' # "queued"
  OBVIOUS
<1>1. CASE i < NumStages
  <2>1. /\ Goto(w, "check_entry", i + 1, FALSE)
        /\ pc'[w] = "check_entry" /\ active'[w] = i + 1
    <3>1. Goto(w, "check_entry", i + 1, FALSE)
      BY <1>1 DEF NextEntry, Call
    <3> QED BY <1>a, <3>1 DEF Goto, ThreadsTyped
  <2>2. i + 1 \in Stages /\ i < i + 1
    BY <1>1, Numbers DEF Stages
  <2>3. stage'[i + 1] = "none"
    BY <2>2
  <2>4. ThreadMatchesRow(w)'
    BY <2>1, <2>2, <2>3 DEF ThreadMatchesRow, BodyPCs
  <2> QED BY <1>a, <1>b, <2>1, <2>4, MoveKeeps
<1>2. CASE ~(i < NumStages)
  <2>1. /\ Goto(w, "check_end", 0, FALSE)
        /\ pc'[w] = "check_end" /\ active'[w] = 0
    <3>1. Goto(w, "check_end", 0, FALSE)
      BY <1>2 DEF NextEntry, Call
    <3> QED BY <1>a, <3>1 DEF Goto, ThreadsTyped
  <2>2. i + 1 = NumStages + 1
    BY <1>2, Numbers DEF Stages
  <2>3. SettledBefore(NumStages + 1)'
    BY <2>2
  <2>4. ThreadMatchesRow(w)'
    BY <2>1, <2>3 DEF ThreadMatchesRow, BodyPCs
  <2> QED BY <1>a, <1>b, <2>1, <2>4, MoveKeeps
<1> QED BY <1>1, <1>2

-----------------------------------------------------------------------------
(* One lemma per transaction of the executing thread: the rows afterwards.     *)

LEMMA InsertStep ==
  ASSUME IndInv, NEW w \in Workers, NEW s,
         \/ pc[w] = "skip" /\ s = "skipped"
         \/ pc[w] = "start" /\ s = "running",
         InsertStageTx(active[w], s)
  PROVE /\ RowsInv' /\ run' = "running" /\ active[w] \in Stages
        /\ stage' = [stage EXCEPT ![active[w]] = s] /\ stage \in [Stages -> StageStatuses]
        /\ SettledBefore(active[w])
        /\ active[w] \in Skip <=> s = "skipped"
        /\ \A k \in Stages : active[w] < k => stage[k] = "none"
<1>1. /\ ThreadMatchesRow(w) /\ RowsTyped /\ RowsInv
  BY TypeParts DEF IndInv, ThreadMatchesRows
<1>2. /\ active[w] \in Stages /\ SettledBefore(active[w])
      /\ active[w] \in Skip <=> s = "skipped"
      /\ stage[active[w]] = "none"
  BY <1>1 DEF ThreadMatchesRow
<1>3. RowsInv'
  BY <1>1, <1>2, InsertKeeps
<1> QED BY <1>1, <1>2, <1>3, NoRowsBehind DEF InsertStageTx, Insertable, Live, RowsTyped, RowsInv

LEMMA CompleteStep ==
  ASSUME IndInv, NEW w \in Workers, pc[w] = "complete", CompleteStageTx(active[w])
  PROVE /\ RowsInv' /\ run' = "running" /\ active[w] \in Stages
        /\ stage' = [stage EXCEPT ![active[w]] = "succeeded"] /\ stage \in [Stages -> StageStatuses]
        /\ SettledBefore(active[w]) /\ active[w] \notin Skip
        /\ \A k \in Stages : active[w] < k => stage[k] = "none"
<1>1. /\ ThreadMatchesRow(w) /\ RowsTyped /\ RowsInv
  BY TypeParts DEF IndInv, ThreadMatchesRows
<1>2. active[w] \in Stages /\ active[w] \notin Skip /\ stage[active[w]] = "running"
  BY <1>1 DEF ThreadMatchesRow
<1>3. SettledBefore(active[w])
  BY <1>1, <1>2 DEF RowsInv, RowsFollowPlan
<1>4. RowsInv'
  BY <1>1, <1>2, ChangeKeeps DEF CompleteStageTx, Completable, Live
<1> QED BY <1>1, <1>2, <1>3, <1>4, NoRowsBehind DEF CompleteStageTx, Completable, Live, RowsTyped, RowsInv

\* With its row settled, the stage joins the settled ones before the next entry.
LEMMA SettleNext ==
  ASSUME ThreadMatchesRows, NEW w \in Workers, pc[w] \in BodyPCs,
         NEW i \in Stages, active[w] = i, NEW s,
         stage \in [Stages -> StageStatuses], stage' = [stage EXCEPT ![i] = s],
         s = IF i \in Skip THEN "skipped" ELSE "succeeded",
         SettledBefore(i),
         \A k \in Stages : i < k => stage[k] = "none"
  PROVE /\ SettledBefore(i + 1)'
        /\ \A k \in Stages : i < k => stage'[k] = "none"
        /\ \A j \in Stages : stage'[j] \notin {"running", "failed", "cancelled"}
<1>1. \A j \in Stages : stage[j] = "running" => j = i
  BY BodyKnows
<1>2. \A j \in Stages : stage[j] \notin {"failed", "cancelled"}
  BY BodyKnows
<1>3. \A j \in Stages : j < i + 1 => j = i \/ j < i
  BY DEF Stages
<1>4. SettledBefore(i + 1)'
  BY <1>3 DEF SettledBefore
<1> QED BY <1>1, <1>2, <1>4 DEF Stages

-----------------------------------------------------------------------------
(* Every step keeps the invariant. *)

LEMMA WorkerStepKeeps ==
  ASSUME IndInv, NEW w \in Workers, WorkerStep(w)
  PROVE RowsInv' /\ SingleExecutor' /\ ThreadMatchesRows'
<1> DEFINE Kept == RowsInv' /\ SingleExecutor' /\ ThreadMatchesRows'
           i == active[w]
<1>0. /\ TypeOK /\ ThreadsTyped /\ RowsTyped
      /\ RowsInv /\ SingleExecutor /\ ThreadMatchesRows /\ ThreadMatchesRow(w)
      /\ i \in 0..NumStages
  BY TypeParts DEF IndInv, ThreadMatchesRows, ThreadsTyped
<1>1. CASE Claim(w)
  <2>1. /\ ClaimTx /\ NoStageRows /\ run = "queued" /\ run' = "running" /\ UNCHANGED stage
        /\ ~Active(w)
    BY <1>0, <1>1 DEF Claim, ClaimTx, Claimable, RowsInv, ReplaySafe
  <2>2. RowsInv'
    BY <1>0, <2>1, RunTxKeeps
  <2>3. \A v \in Workers : pc[v] = "idle" /\ active[v] = 0
    BY <1>0, <2>1 DEF SingleExecutor, Active, ThreadMatchesRows, ThreadMatchesRow
  <2>4. PICK next \in {"fail_config", "check_start"} : Goto(w, next, 0, FALSE)
    BY <1>1 DEF Claim, Call
  <2>5. /\ pc'[w] = next /\ active'[w] = 0
        /\ \A v \in Workers \ {w} : pc'[v] = "idle" /\ active'[v] = 0
    BY <1>0, <2>3, <2>4, GotoFacts
  <2>6. ThreadMatchesRow(w)'
    BY <2>1, <2>5 DEF ThreadMatchesRow, BodyPCs, NoStageRows
  <2>7. SingleExecutor'
    BY <2>1, <2>5 DEF SingleExecutor, Active
  <2> QED BY <2>2, <2>5, <2>6, <2>7, IdleMatches DEF ThreadMatchesRows
<1>2. CASE DeclineDelivery(w)
  <2>1. UNCHANGED store /\ UNCHANGED threads
    BY <1>2 DEF DeclineDelivery, store, threads
  <2> QED BY <1>0, <2>1, RowsInvFrame
          DEF SingleExecutor, Active, ThreadMatchesRows, ThreadMatchesRow, SettledBefore,
              NoStageRows, store, threads
<1>3. CASE CheckCancelled(w)
  <2>1. /\ UNCHANGED store
        /\ pc[w] \in {"check_start", "check_entry", "execute", "check_end"}
        /\ pc[w] \in BodyPCs /\ Active(w)
    BY <1>3 DEF CheckCancelled, store, BodyPCs, Active
  <2>2. RowsInv' /\ run' = "running"
    BY <1>0, <2>1, RowsInvFrame, BodyKnows DEF store
  <2>3. CASE cancelRequested
    BY <1>0, <1>3, <2>1, <2>2, <2>3, CancellingKeeps DEF CheckCancelled
  <2>4. CASE ~cancelRequested
    <3>1. PICK next, k :
            /\ Goto(w, next, k, FALSE)
            /\ \/ pc[w] = "check_start" /\ next = "check_entry" /\ k = 1
               \/ pc[w] = "check_entry" /\ k = i /\ next = IF i \in Skip THEN "skip" ELSE "resolve"
               \/ pc[w] = "execute" /\ k = i /\ next = "complete"
               \/ pc[w] = "check_end" /\ k = 0 /\ next = "complete_run"
      BY <1>3, <2>4, Zenon DEF CheckCancelled, Call
    <3>2. pc'[w] = next /\ active'[w] = k
      BY <1>0, <3>1, GotoFacts
    <3>3. 1 \in Stages /\ \A j \in Stages : ~(j < 1)
      BY PlanAssumption DEF Stages
    <3>4. ThreadMatchesRow(w)'
      BY <1>0, <2>1, <2>2, <3>1, <3>2, <3>3
         DEF ThreadMatchesRow, BodyPCs, SettledBefore, NoStageRows, store
    <3> QED BY <1>0, <2>1, <2>2, <3>1, <3>4, MoveKeeps
  <2> QED BY <2>3, <2>4
<1>4. CASE SkipStage(w)
  <2>1. pc[w] = "skip" /\ pc[w] \in BodyPCs /\ Active(w)
    BY <1>4 DEF SkipStage, BodyPCs, Active
  <2>2. CASE InsertStageTx(i, "skipped") /\ NextEntry(w)
    <3>1. /\ RowsInv' /\ run' = "running" /\ i \in Stages
          /\ stage' = [stage EXCEPT ![i] = "skipped"] /\ stage \in [Stages -> StageStatuses]
          /\ SettledBefore(i) /\ i \in Skip
          /\ \A k \in Stages : i < k => stage[k] = "none"
      BY <2>1, <2>2, InsertStep
    <3> QED BY <1>0, <2>1, <2>2, <3>1, SettleNext, NextEntryKeeps
  <2>3. CASE UNCHANGED store /\ Refused(w)
    BY <1>0, <2>1, <2>3, RefusedKeeps, RowsInvFrame
  <2> QED BY <1>4, <2>2, <2>3 DEF SkipStage
<1>5. CASE ResolveIdentity(w)
  <2>1. pc[w] = "resolve" /\ pc[w] \in BodyPCs /\ Active(w) /\ UNCHANGED store
    BY <1>5 DEF ResolveIdentity, BodyPCs, Active, store
  <2>2. RowsInv' /\ run' = "running"
    BY <1>0, <2>1, RowsInvFrame, BodyKnows DEF store
  <2>3. CASE Call(w, "start", i)
    <3>1. pc'[w] = "start" /\ active'[w] = i /\ Goto(w, "start", i, FALSE)
      BY <1>0, <2>3, GotoFacts DEF Call
    <3>2. ThreadMatchesRow(w)'
      BY <1>0, <2>1, <2>2, <3>1 DEF ThreadMatchesRow, BodyPCs, SettledBefore, store
    <3> QED BY <1>0, <2>1, <2>2, <3>1, <3>2, MoveKeeps
  <2>4. CASE Raised(w, FALSE)
    BY <1>0, <2>1, <2>2, <2>4, RaisedKeeps, BodyKnows DEF store
  <2> QED BY <1>5, <2>3, <2>4 DEF ResolveIdentity
<1>6. CASE StartStage(w)
  <2>1. pc[w] = "start" /\ pc[w] \in BodyPCs /\ Active(w)
    BY <1>6 DEF StartStage, BodyPCs, Active
  <2>2. CASE InsertStageTx(i, "running") /\ Call(w, "execute", i)
    <3>1. /\ RowsInv' /\ run' = "running" /\ i \in Stages
          /\ stage' = [stage EXCEPT ![i] = "running"] /\ stage \in [Stages -> StageStatuses]
          /\ i \notin Skip
      BY <2>1, <2>2, InsertStep
    <3>2. /\ \A j \in Stages : stage[j] = "running" => j = i
          /\ \A j \in Stages : stage[j] \notin {"failed", "cancelled"}
      BY <1>0, <2>1, BodyKnows
    <3>3. pc'[w] = "execute" /\ active'[w] = i /\ Goto(w, "execute", i, FALSE)
      BY <1>0, <2>2, GotoFacts DEF Call
    <3>4. ThreadMatchesRow(w)'
      BY <3>1, <3>2, <3>3 DEF ThreadMatchesRow, BodyPCs
    <3> QED BY <1>0, <2>1, <3>1, <3>3, <3>4, MoveKeeps
  <2>3. CASE UNCHANGED store /\ Refused(w)
    BY <1>0, <2>1, <2>3, RefusedKeeps, RowsInvFrame
  <2> QED BY <1>6, <2>2, <2>3 DEF StartStage
<1>7. CASE CompleteStage(w)
  <2>1. pc[w] = "complete" /\ pc[w] \in BodyPCs /\ Active(w)
    BY <1>7 DEF CompleteStage, BodyPCs, Active
  <2>2. CASE CompleteStageTx(i) /\ NextEntry(w)
    <3>1. /\ RowsInv' /\ run' = "running" /\ i \in Stages
          /\ stage' = [stage EXCEPT ![i] = "succeeded"] /\ stage \in [Stages -> StageStatuses]
          /\ SettledBefore(i) /\ i \notin Skip
          /\ \A k \in Stages : i < k => stage[k] = "none"
      BY <2>1, <2>2, CompleteStep
    <3> QED BY <1>0, <2>1, <2>2, <3>1, SettleNext, NextEntryKeeps
  <2>3. CASE UNCHANGED store /\ Refused(w)
    BY <1>0, <2>1, <2>3, RefusedKeeps, RowsInvFrame
  <2> QED BY <1>7, <2>2, <2>3 DEF CompleteStage
<1>8. CASE CompleteRun(w)
  <2>1. pc[w] = "complete_run" /\ pc[w] \in BodyPCs /\ Active(w)
    BY <1>8 DEF CompleteRun, BodyPCs, Active
  <2>2. CASE CompleteRunTx /\ Return(w)
    BY <1>0, <2>1, <2>2, RunTxKeeps, ReturnKeeps DEF CompleteRunTx
  <2>3. CASE UNCHANGED store /\ Refused(w)
    BY <1>0, <2>1, <2>3, RefusedKeeps, RowsInvFrame
  <2> QED BY <1>8, <2>2, <2>3 DEF CompleteRun
<1>9. CASE Handle(w)
  <2>1. pc[w] = "handle" /\ Active(w) /\ UNCHANGED store
    BY <1>9 DEF Handle, Active, store
  <2>2. RowsInv'
    BY <1>0, <2>1, RowsInvFrame
  <2>3. CASE cancelRequested
    BY <1>0, <1>9, <2>1, <2>2, <2>3, CancellingKeeps DEF Handle
  <2>4. CASE ~cancelRequested
    <3> DEFINE next == IF i # 0 THEN "fail_stage" ELSE "fail_run"
    <3>1. Goto(w, next, i, transient[w])
      BY <1>9, <2>4 DEF Handle
    <3>2. pc'[w] = next /\ active'[w] = i
      BY <1>0, <3>1, GotoFacts
    <3>3. ThreadMatchesRow(w)'
      BY <1>0, <2>1, <3>2, Numbers DEF ThreadMatchesRow, BodyPCs, Stages, store
    <3>4. run' # "queued"
      BY <1>0, <2>1 DEF SingleExecutor, store
    <3> QED BY <1>0, <2>1, <2>2, <3>1, <3>3, <3>4, MoveKeeps
  <2> QED BY <2>3, <2>4
<1>10. CASE FailStage(w)
  <2>1. pc[w] = "fail_stage" /\ Active(w) /\ run # "queued"
    BY <1>0, <1>10 DEF FailStage, Active, SingleExecutor
  <2>2. /\ i \in Stages
        /\ \A j \in Stages : stage[j] \in {"running", "failed"} => j = i
        /\ \A j \in Stages : stage[j] # "cancelled"
    BY <1>0, <2>1 DEF ThreadMatchesRow
  <2>3. CASE FailStageTx(i) /\ Goto(w, "fail_run", i, transient[w])
    <3>1. /\ run = "running" /\ run' = "running" /\ stage[i] = "running"
          /\ stage' = [stage EXCEPT ![i] = "failed"]
          /\ stage \in [Stages -> StageStatuses]
          /\ UNCHANGED <<run, job, attempts, cancelRequested, backoff>>
      BY <1>0, <2>3 DEF FailStageTx, HasStageToFail, RowsTyped
    <3>2. RowsInv'
      BY <1>0, <2>2, <3>1, ChangeKeeps
    <3>3. pc'[w] = "fail_run" /\ active'[w] = i
      BY <1>0, <2>3, GotoFacts
    <3>4. ThreadMatchesRow(w)'
      BY <2>2, <3>1, <3>3 DEF ThreadMatchesRow, BodyPCs
    <3> QED BY <1>0, <2>1, <2>3, <3>1, <3>2, <3>4, MoveKeeps
  <2>4. CASE ~HasStageToFail(i) /\ UNCHANGED store /\ Goto(w, "fail_run", i, transient[w])
    <3>1. RowsInv'
      BY <1>0, <2>4, RowsInvFrame
    <3>2. pc'[w] = "fail_run" /\ active'[w] = i
      BY <1>0, <2>4, GotoFacts
    <3>3. \A j \in Stages : stage[j] # "running"
      BY <1>0, <2>1, <2>2, <2>4
         DEF HasStageToFail, RowsInv, OutcomeMatchesRows, Terminal, RowsTyped, Statuses
    <3>4. ThreadMatchesRow(w)'
      BY <2>2, <2>4, <3>2, <3>3 DEF ThreadMatchesRow, BodyPCs, store
    <3>5. run' # "queued"
      BY <2>1, <2>4 DEF store
    <3> QED BY <1>0, <2>1, <2>4, <3>1, <3>4, <3>5, MoveKeeps
  <2>5. CASE cancelRequested /\ UNCHANGED store /\ Cancelling(w)
    BY <1>0, <2>1, <2>5, CancellingKeeps, RowsInvFrame
  <2> QED BY <1>10, <2>3, <2>4, <2>5 DEF FailStage
<1>11. CASE FailRun(w)
  <2>1. /\ pc[w] = "fail_run" /\ Active(w) /\ transient[w] \in BOOLEAN
        /\ \A j \in Stages : stage[j] \notin {"running", "cancelled"}
    BY <1>0, <1>11 DEF FailRun, Active, ThreadMatchesRow, ThreadsTyped
  <2>2. CASE FailRunTx(transient[w]) /\ Return(w)
    BY <1>0, <2>1, <2>2, RunTxKeeps, ReturnKeeps DEF FailRunTx
  <2>3. CASE cancelRequested /\ Cancelling(w) /\ UNCHANGED store
    BY <1>0, <2>1, <2>3, CancellingKeeps, RowsInvFrame
  <2>4. CASE Return(w) /\ UNCHANGED store
    BY <1>0, <2>1, <2>4, ReturnKeeps, RowsInvFrame
  <2> QED BY <1>11, <2>2, <2>3, <2>4 DEF FailRun, store
<1>12. CASE CancelStage(w)
  <2>1. /\ pc[w] = "cancel_stage" /\ Active(w) /\ i \in Stages /\ cancelRequested
        /\ run # "queued"
        /\ \A j \in Stages : stage[j] \in {"running", "failed"} => j = i
        /\ CancelStageTx(i) /\ Goto(w, "cancel_run", i, FALSE)
        /\ UNCHANGED <<run, job, attempts, cancelRequested, backoff>>
    BY <1>0, <1>12
       DEF CancelStage, Active, ThreadMatchesRow, SingleExecutor, Call, CancelStageTx
  <2>2. pc'[w] = "cancel_run" /\ active'[w] = i
    BY <1>0, <2>1, GotoFacts
  <2>3. run \in {"running", "cancelled"} /\ stage \in [Stages -> StageStatuses]
    BY <1>0, <2>1 DEF RowsInv, CancelWins, RowsTyped
  <2>4. RowsInv' /\ \A j \in Stages : stage'[j] \notin {"running", "failed"}
    <3>1. CASE HasStageToCancel(i)
      <4>1. /\ run = "running" /\ stage[i] \in {"running", "failed"}
            /\ stage' = [stage EXCEPT ![i] = "cancelled"]
        BY <2>1, <3>1 DEF CancelStageTx, HasStageToCancel
      <4> QED BY <1>0, <2>1, <2>3, <4>1, ChangeKeeps
    <3>2. CASE ~HasStageToCancel(i)
      <4>1. UNCHANGED store /\ stage' = stage
        BY <2>1, <3>2 DEF CancelStageTx, store
      <4>2. stage[i] \notin {"running", "failed"}
        BY <1>0, <2>1, <2>3, <3>2
           DEF HasStageToCancel, RowsInv, OutcomeMatchesRows, Terminal
      <4> QED BY <1>0, <2>1, <4>1, <4>2, RowsInvFrame
    <3> QED BY <3>1, <3>2
  <2>5. ThreadMatchesRow(w)'
    BY <2>1, <2>2, <2>4 DEF ThreadMatchesRow, BodyPCs
  <2> QED BY <1>0, <2>1, <2>4, <2>5, MoveKeeps
<1>13. CASE CancelRun(w)
  <2>1. /\ pc[w] = "cancel_run" /\ Active(w) /\ UNCHANGED stage
        /\ \A j \in Stages : stage[j] \notin {"running", "failed"}
    BY <1>0, <1>13 DEF CancelRun, CancelRunTx, Active, ThreadMatchesRow
  <2> QED BY <1>0, <1>13, <2>1, RunTxKeeps, ReturnKeeps DEF CancelRun
<1>14. CASE FailUnconfigured(w)
  <2>1. /\ pc[w] = "fail_config" /\ Active(w) /\ NoStageRows
    BY <1>0, <1>14 DEF FailUnconfigured, Active, ThreadMatchesRow
  <2>2. SingleExecutor' /\ ThreadMatchesRows'
    BY <1>0, <1>14, <2>1, ReturnKeeps DEF FailUnconfigured
  <2>3. RowsInv'
    BY <1>0, <1>14, <2>1, RunTxKeeps, RowsInvFrame
       DEF FailUnconfigured, NoStageRows, FailRunTx
  <2> QED BY <2>2, <2>3
<1> QED BY <1>1, <1>2, <1>3, <1>4, <1>5, <1>6, <1>7, <1>8, <1>9, <1>10, <1>11, <1>12,
           <1>13, <1>14 DEF WorkerStep

\* A thread that ends, whatever it was doing, disturbs nothing.
LEMMA StopKeeps ==
  ASSUME IndInv, NEW w \in Workers, Active(w), UNCHANGED store, Return(w)
  PROVE RowsInv' /\ SingleExecutor' /\ ThreadMatchesRows'
BY ReturnKeeps, RowsInvFrame, TypeParts DEF IndInv

LEMMA EnvironmentKeeps ==
  ASSUME IndInv, RequestCancel \/ BackoffElapses \/ DuplicateDelivery
  PROVE RowsInv' /\ SingleExecutor' /\ ThreadMatchesRows'
<1>0. /\ TypeOK /\ RowsInv /\ SingleExecutor /\ ThreadMatchesRows /\ UNCHANGED <<stage, threads>>
  BY DEF IndInv, RequestCancel, BackoffElapses, DuplicateDelivery, store
<1>1. /\ run' = run \/ (run = "queued" /\ run' = "cancelled")
      /\ cancelRequested => cancelRequested'
  BY DEF RequestCancel, BackoffElapses, DuplicateDelivery, store
<1>2. SingleExecutor'
  BY <1>0, <1>1 DEF SingleExecutor, Active, threads
<1>3. ThreadMatchesRows'
  <2> SUFFICES ASSUME NEW w \in Workers PROVE ThreadMatchesRow(w)'
    BY DEF ThreadMatchesRows
  <2>1. ThreadMatchesRow(w) /\ pc'[w] = pc[w] /\ active'[w] = active[w]
    BY <1>0 DEF ThreadMatchesRows, threads
  <2>2. run = "running" => run' = "running"
    BY <1>1
  <2> QED BY <1>0, <1>1, <2>1, <2>2 DEF ThreadMatchesRow, SettledBefore, NoStageRows
<1>4. RowsInv'
  <2>1. RowsFollowPlan'
    BY <1>0 DEF RowsInv, RowsFollowPlan, SettledBefore
  <2> USE DEF RowsInv, RunJobAgree, ReplaySafe, CancelWins, OutcomeMatchesRows, NoStageRows, Terminal
  <2>2. CASE RequestCancel
    BY <1>0, <2>1, <2>2 DEF RequestCancel
  <2>3. CASE BackoffElapses
    BY <1>0, <2>1, <2>3 DEF BackoffElapses
  <2>4. CASE DuplicateDelivery
    BY <1>0, <2>4, RowsInvFrame DEF DuplicateDelivery, store
  <2> QED BY <2>2, <2>3, <2>4
<1> QED BY <1>2, <1>3, <1>4

LEMMA FailureKeeps ==
  ASSUME IndInv, NEW w \in Workers,
         \/ BodyCommitUnacknowledged(w)
         \/ HandlerCommitUnacknowledged(w)
         \/ ClaimUnacknowledged(w)
  PROVE RowsInv' /\ SingleExecutor' /\ ThreadMatchesRows'
<1> DEFINE i == active[w]
<1>0. /\ TypeOK /\ ThreadsTyped /\ RowsTyped /\ i \in 0..NumStages
      /\ RowsInv /\ SingleExecutor /\ ThreadMatchesRows /\ ThreadMatchesRow(w)
  BY TypeParts DEF IndInv, ThreadMatchesRows, ThreadsTyped
<1>1. CASE BodyCommitUnacknowledged(w)
  <2>1. pc[w] \in BodyPCs /\ Active(w) /\ Raised(w, FALSE)
    BY <1>1 DEF BodyCommitUnacknowledged, BodyPCs, Active
  <2>2. /\ \A j \in Stages : stage[j] = "running" => j = i
        /\ \A j \in Stages : stage[j] \notin {"failed", "cancelled"}
    BY <1>0, <2>1, BodyKnows
  <2>3. ASSUME NEW s \in {"skipped", "running"}, InsertStageTx(i, s),
               pc[w] = IF s = "skipped" THEN "skip" ELSE "start"
        PROVE RowsInv' /\ SingleExecutor' /\ ThreadMatchesRows'
    <3>1. /\ RowsInv' /\ run' = "running" /\ i \in Stages
          /\ stage' = [stage EXCEPT ![i] = s] /\ stage \in [Stages -> StageStatuses]
      BY <2>3, InsertStep
    <3> QED BY <1>0, <2>1, <2>2, <2>3, <3>1, RaisedKeeps
  <2>4. CASE pc[w] = "complete" /\ CompleteStageTx(i)
    <3>1. /\ RowsInv' /\ run' = "running" /\ i \in Stages
          /\ stage' = [stage EXCEPT ![i] = "succeeded"] /\ stage \in [Stages -> StageStatuses]
      BY <2>4, CompleteStep
    <3> QED BY <1>0, <2>1, <2>2, <3>1, RaisedKeeps
  <2>5. CASE CompleteRunTx
    <3>1. RowsInv' /\ run' # "queued" /\ stage' = stage
      BY <1>0, <2>5, RunTxKeeps DEF CompleteRunTx
    <3> QED BY <1>0, <2>1, <2>2, <3>1, RaisedKeeps
  <2> QED BY <1>1, <2>3, <2>4, <2>5 DEF BodyCommitUnacknowledged
<1>2. CASE HandlerCommitUnacknowledged(w)
  <2>1. /\ Active(w) /\ Return(w)
        /\ pc[w] \in {"fail_stage", "fail_run", "cancel_stage", "cancel_run", "fail_config"}
    BY <1>2 DEF HandlerCommitUnacknowledged, Active
  <2>2. SingleExecutor' /\ ThreadMatchesRows'
    BY <1>0, <2>1, ReturnKeeps
  <2>3. CASE pc[w] = "fail_stage" /\ FailStageTx(i)
    <3>1. /\ i \in Stages /\ run = "running" /\ stage[i] = "running"
          /\ stage' = [stage EXCEPT ![i] = "failed"]
          /\ UNCHANGED <<run, job, attempts, cancelRequested, backoff>>
      BY <1>0, <2>3 DEF FailStageTx, HasStageToFail, ThreadMatchesRow
    <3> QED BY <1>0, <2>2, <3>1, ChangeKeeps
  <2>4. CASE pc[w] \in {"fail_run", "fail_config"} /\ \E error \in BOOLEAN : FailRunTx(error)
    <3>1. UNCHANGED stage /\ \A j \in Stages : stage[j] \notin {"running", "cancelled"}
      BY <1>0, <2>4 DEF FailRunTx, ThreadMatchesRow, NoStageRows
    <3> QED BY <1>0, <2>2, <2>4, <3>1, RunTxKeeps
  <2>5. CASE pc[w] = "cancel_stage" /\ CancelStageTx(i)
    <3>1. CASE HasStageToCancel(i)
      <4>1. /\ i \in Stages /\ run = "running" /\ stage[i] \in {"running", "failed"}
            /\ stage' = [stage EXCEPT ![i] = "cancelled"]
            /\ UNCHANGED <<run, job, attempts, cancelRequested, backoff>>
        BY <1>0, <2>5, <3>1 DEF CancelStageTx, HasStageToCancel, ThreadMatchesRow
      <4> QED BY <1>0, <2>2, <4>1, ChangeKeeps
    <3>2. CASE ~HasStageToCancel(i)
      BY <1>0, <2>2, <2>5, <3>2, RowsInvFrame DEF CancelStageTx, store
    <3> QED BY <3>1, <3>2
  <2>6. CASE pc[w] = "cancel_run" /\ CancelRunTx
    <3>1. UNCHANGED stage /\ \A j \in Stages : stage[j] \notin {"running", "failed"}
      BY <1>0, <2>6 DEF CancelRunTx, ThreadMatchesRow
    <3> QED BY <1>0, <2>2, <2>6, <3>1, RunTxKeeps
  <2>7. transient[w] \in BOOLEAN
    BY <1>0 DEF ThreadsTyped
  <2> QED BY <1>2, <2>3, <2>4, <2>5, <2>6, <2>7 DEF HandlerCommitUnacknowledged
<1>3. CASE ClaimUnacknowledged(w)
  <2>1. /\ ClaimTx /\ run = "queued" /\ run' = "running" /\ UNCHANGED <<stage, threads>>
    BY <1>3 DEF ClaimUnacknowledged, ClaimTx, Claimable
  <2>2. RowsInv'
    BY <1>0, <2>1, RunTxKeeps
  <2>3. \A v \in Workers : pc[v] = "idle" /\ active[v] = 0
    BY <1>0, <1>3 DEF ClaimUnacknowledged, ClaimTx, Claimable, SingleExecutor, Active,
                      ThreadMatchesRows, ThreadMatchesRow
  <2>4. \A v \in Workers : pc'[v] = "idle" /\ active'[v] = 0
    BY <2>1, <2>3 DEF threads
  <2> QED BY <2>2, <2>4, IdleMatches DEF SingleExecutor, ThreadMatchesRows, Active
<1> QED BY <1>1, <1>2, <1>3

LEMMA IndInvInit == Init => IndInv
<1> SUFFICES ASSUME Init PROVE IndInv
  OBVIOUS
<1>1. TypeOK
  BY TypeInit
<1>2. RowsInv
  <2>1. /\ run = "queued" /\ job = "queued" /\ attempts = 0
        /\ \A i \in Stages : stage[i] = "none"
    BY DEF Init
  <2>2. ~cancelRequested
    BY Zenon DEF Init
  <2>3. 0 < MaxAttempts
    BY LimitAssumption
  <2> QED BY <2>1, <2>2, <2>3
          DEF RowsInv, RunJobAgree, ReplaySafe, CancelWins, RowsFollowPlan,
              OutcomeMatchesRows, NoStageRows, Terminal
<1>3. SingleExecutor /\ ThreadMatchesRows
  BY DEF Init, SingleExecutor, Active, ThreadMatchesRows, ThreadMatchesRow, BodyPCs
<1> QED BY <1>1, <1>2, <1>3 DEF IndInv

LEMMA IndInvStep == IndInv /\ [Next]_vars => IndInv'
<1> SUFFICES ASSUME IndInv, [Next]_vars PROVE IndInv'
  OBVIOUS
<1> DEFINE Kept == RowsInv' /\ SingleExecutor' /\ ThreadMatchesRows'
<1>t. TypeOK'
  BY TypeStep DEF IndInv
<1>1. ASSUME NEW w \in Workers, WorkerStep(w) PROVE Kept
  BY <1>1, WorkerStepKeeps
<1>2. ASSUME NEW w \in Workers, NEW error \in BOOLEAN, Raise(w, error) PROVE Kept
  <2>1. pc[w] \in BodyPCs /\ Raised(w, error) /\ UNCHANGED store
    BY <1>2 DEF Raise, store
  <2>2. run' # "queued"
    BY <2>1, BodyKnows DEF IndInv, store
  <2> QED BY <2>1, <2>2, BodyKnows, RaisedKeeps, RowsInvFrame DEF IndInv, store
<1>3. ASSUME RequestCancel \/ BackoffElapses \/ DuplicateDelivery PROVE Kept
  BY <1>3, EnvironmentKeeps
<1>4. ASSUME NEW w \in Workers, Crash(w) PROVE Kept
  BY <1>4, StopKeeps DEF Crash
<1>5. ASSUME NEW w \in Workers, HandlerRaises(w) PROVE Kept
  <2>1. Active(w) /\ UNCHANGED store /\ Return(w)
    BY <1>5 DEF HandlerRaises, HandlerPCs, Active, store
  <2> QED BY <2>1, StopKeeps
<1>6. ASSUME NEW w \in Workers,
             BodyCommitUnacknowledged(w) \/ HandlerCommitUnacknowledged(w) \/ ClaimUnacknowledged(w)
      PROVE Kept
  BY <1>6, FailureKeeps
<1>7. ASSUME UNCHANGED vars PROVE Kept
  BY <1>7, RowsInvFrame
     DEF IndInv, vars, store, threads, SingleExecutor, Active, ThreadMatchesRows,
         ThreadMatchesRow, SettledBefore, NoStageRows
<1> QED BY <1>t, <1>1, <1>2, <1>3, <1>4, <1>5, <1>6, <1>7 DEF IndInv, Next, Step, Failure

\* No two threads ever execute the run, and none while it is queued: claim's
\* transition out of "queued" excludes duplicates and late deliveries.
THEOREM OneExecutor == Spec => []SingleExecutor
<1>1. IndInv => SingleExecutor
  BY DEF IndInv
<1> QED BY <1>1, IndInvInit, IndInvStep, PTL DEF Spec

\* A queued run has no stage rows, attempts left and no pending request.
THEOREM QueuedIsReplaySafe == Spec => []ReplaySafe
<1>1. IndInv => ReplaySafe
  BY DEF IndInv, RowsInv
<1> QED BY <1>1, IndInvInit, IndInvStep, PTL DEF Spec

\* A committed request to cancel is never overtaken by completion or failure.
THEOREM CancellationWins == Spec => []CancelWins
<1>1. IndInv => CancelWins
  BY DEF IndInv, RowsInv
<1> QED BY <1>1, IndInvInit, IndInvStep, PTL DEF Spec

\* Stage rows follow the plan and the dependencies.
THEOREM PlanIsFollowed == Spec => []RowsFollowPlan
<1>1. IndInv => RowsFollowPlan
  BY DEF IndInv, RowsInv
<1> QED BY <1>1, IndInvInit, IndInvStep, PTL DEF Spec

\* The terminal status of a run is borne out by its stage rows.
THEOREM OutcomeIsBorneOut == Spec => []OutcomeMatchesRows
<1>1. IndInv => OutcomeMatchesRows
  BY DEF IndInv, RowsInv
<1> QED BY <1>1, IndInvInit, IndInvStep, PTL DEF Spec

-----------------------------------------------------------------------------
(* GenerationLifecycle implements RunContract, and what follows from that. *)

LEMMA ContractStages == Contract!Stages = Stages
BY DEF Contract!Stages, Stages

LEMMA ContractSettled ==
  ASSUME NEW i \in Stages, SettledBefore(i)
  PROVE \A j \in 1..(i - 1) : stage[j] = Contract!Settled(j)
<1>1. \A j \in 1..(i - 1) : j \in Stages /\ j < i
  BY Numbers DEF Stages
<1> QED BY <1>1 DEF SettledBefore, Contract!Settled

LEMMA FinishedIsSettled ==
  ASSUME RowsFollowPlan, \A i \in Stages : stage[i] \in {"succeeded", "skipped"}
  PROVE \A i \in Stages : stage[i] = Contract!Settled(i)
BY DEF RowsFollowPlan, Contract!Settled

\* The transactions, one by one, as steps of the contract.
LEMMA RunTxContract ==
  ASSUME IndInv,
         \/ ClaimTx
         \/ CompleteRunTx
         \/ /\ \E error \in BOOLEAN : FailRunTx(error)
            /\ \A j \in Stages : stage[j] \notin {"running", "cancelled"}
         \/ /\ CancelRunTx /\ cancelRequested
            /\ \A j \in Stages : stage[j] \notin {"running", "failed"}
  PROVE [Contract!Next]_(Contract!vars)
<1> USE ContractStages DEF Contract!Next, Contract!vars, Contract!Working
<1>1. CASE ClaimTx
  <2>1. Contract!Begin
    BY <1>1 DEF ClaimTx, Claimable, Contract!Begin
  <2> QED BY <2>1
<1>2. CASE CompleteRunTx
  <2>1. \A i \in Stages : stage[i] = Contract!Settled(i)
    BY <1>2, FinishedIsSettled DEF CompleteRunTx, Finishable, IndInv, RowsInv
  <2>2. Contract!Succeed
    BY <1>2, <2>1 DEF CompleteRunTx, Finishable, Live, Contract!Succeed
  <2> QED BY <2>2
<1>3. CASE /\ \E error \in BOOLEAN : FailRunTx(error)
           /\ \A j \in Stages : stage[j] \notin {"running", "cancelled"}
  <2>1. Contract!Requeue \/ Contract!Fail
    BY <1>3 DEF FailRunTx, Failable, Live, Retryable, NoStageRows, Contract!Requeue,
                Contract!Fail
  <2> QED BY <2>1
<1>4. CASE /\ CancelRunTx /\ cancelRequested
           /\ \A j \in Stages : stage[j] \notin {"running", "failed"}
  <2>1. Contract!Cancel \/ UNCHANGED Contract!vars
    <3>1. CASE run = "running"
      BY <1>4, <3>1 DEF CancelRunTx, Contract!Cancel, IndInv, RowsInv, RunJobAgree
    <3>2. CASE run # "running"
      BY <1>4, <3>2 DEF CancelRunTx
    <3> QED BY <3>1, <3>2
  <2> QED BY <2>1
<1> QED BY <1>1, <1>2, <1>3, <1>4

LEMMA InsertContract ==
  ASSUME IndInv, NEW w \in Workers, NEW s,
         \/ pc[w] = "skip" /\ s = "skipped"
         \/ pc[w] = "start" /\ s = "running",
         InsertStageTx(active[w], s)
  PROVE [Contract!Next]_(Contract!vars)
<1>1. /\ active[w] \in Stages
      /\ SettledBefore(active[w])
      /\ active[w] \in Skip <=> s = "skipped"
  BY InsertStep
<1>2. s = IF active[w] \in Skip THEN "skipped" ELSE "running"
  BY <1>1
<1>3. Contract!AddRow(active[w])
  BY <1>1, <1>2, ContractSettled
     DEF Contract!AddRow, Contract!Working, InsertStageTx, Insertable, Live
<1> QED BY <1>1, <1>3, ContractStages DEF Contract!Next

LEMMA RowContract ==
  ASSUME NEW i \in Stages,
         CompleteStageTx(i) \/ FailStageTx(i) \/ (CancelStageTx(i) /\ cancelRequested)
  PROVE [Contract!Next]_(Contract!vars)
<1>1. CASE CompleteStageTx(i)
  <2>1. Contract!FinishRow(i, "succeeded")
    BY <1>1 DEF CompleteStageTx, Completable, Live, Contract!FinishRow, Contract!Working
  <2> QED BY <2>1, ContractStages DEF Contract!Next
<1>2. CASE FailStageTx(i)
  <2>1. Contract!FinishRow(i, "failed")
    BY <1>2 DEF FailStageTx, HasStageToFail, Contract!FinishRow, Contract!Working
  <2> QED BY <2>1, ContractStages DEF Contract!Next
<1>3. CASE CancelStageTx(i) /\ cancelRequested
  <2>1. Contract!DiscardRow(i) \/ UNCHANGED Contract!vars
    BY <1>3 DEF CancelStageTx, HasStageToCancel, Contract!DiscardRow, Contract!vars
  <2> QED BY <2>1, ContractStages DEF Contract!Next
<1> QED BY <1>1, <1>2, <1>3

LEMMA Stutters == UNCHANGED store => UNCHANGED Contract!vars
BY DEF store, Contract!vars

LEMMA ContractStep == IndInv /\ [Next]_vars => [Contract!Next]_(Contract!vars)
<1> SUFFICES ASSUME IndInv, [Next]_vars PROVE [Contract!Next]_(Contract!vars)
  OBVIOUS
<1> DEFINE Implemented == [Contract!Next]_(Contract!vars)
<1>0. /\ TypeOK /\ ThreadsTyped /\ RowsInv /\ ThreadMatchesRows
      /\ \A w \in Workers : ThreadMatchesRow(w) /\ transient[w] \in BOOLEAN
  BY TypeParts DEF IndInv, ThreadMatchesRows, ThreadsTyped
<1>1. ASSUME NEW w \in Workers, WorkerStep(w) PROVE Implemented
  <2>1. CASE \/ DeclineDelivery(w) \/ CheckCancelled(w) \/ ResolveIdentity(w) \/ Handle(w)
    BY <2>1, Stutters DEF DeclineDelivery, CheckCancelled, ResolveIdentity, Handle, store
  <2>2. CASE Claim(w)
    BY <2>2, RunTxContract DEF Claim
  <2>3. CASE SkipStage(w)
    BY <2>3, InsertContract, Stutters DEF SkipStage
  <2>4. CASE StartStage(w)
    BY <2>4, InsertContract, Stutters DEF StartStage
  <2>5. CASE CompleteStage(w)
    <3>1. active[w] \in Stages
      BY <1>0, <2>5 DEF CompleteStage, ThreadMatchesRow
    <3> QED BY <2>5, <3>1, RowContract, Stutters DEF CompleteStage
  <2>6. CASE CompleteRun(w)
    BY <2>6, RunTxContract, Stutters DEF CompleteRun
  <2>7. CASE FailStage(w)
    <3>1. active[w] \in Stages
      BY <1>0, <2>7 DEF FailStage, ThreadMatchesRow
    <3> QED BY <2>7, <3>1, RowContract, Stutters DEF FailStage
  <2>8. CASE FailRun(w)
    <3>1. \A j \in Stages : stage[j] \notin {"running", "cancelled"}
      BY <1>0, <2>8 DEF FailRun, ThreadMatchesRow
    <3>2. FailRunTx(transient[w]) \/ UNCHANGED store
      BY <2>8 DEF FailRun, store
    <3> QED BY <1>0, <3>1, <3>2, RunTxContract, Stutters
  <2>9. CASE CancelStage(w)
    <3>1. active[w] \in Stages /\ cancelRequested
      BY <1>0, <2>9 DEF CancelStage, ThreadMatchesRow
    <3> QED BY <2>9, <3>1, RowContract DEF CancelStage
  <2>10. CASE CancelRun(w)
    <3>1. cancelRequested /\ \A j \in Stages : stage[j] \notin {"running", "failed"}
      BY <1>0, <2>10 DEF CancelRun, ThreadMatchesRow
    <3> QED BY <2>10, <3>1, RunTxContract DEF CancelRun
  <2>11. CASE FailUnconfigured(w)
    <3>1. \A j \in Stages : stage[j] \notin {"running", "cancelled"}
      BY <1>0, <2>11 DEF FailUnconfigured, ThreadMatchesRow, NoStageRows
    <3> QED BY <2>11, <3>1, RunTxContract, Stutters DEF FailUnconfigured
  <2> QED BY <1>1, <2>1, <2>2, <2>3, <2>4, <2>5, <2>6, <2>7, <2>8, <2>9, <2>10, <2>11
          DEF WorkerStep
<1>2. ASSUME RequestCancel PROVE Implemented
  <2>1. Contract!Request
    BY <1>0, <1>2 DEF RequestCancel, Contract!Request
  <2> QED BY <2>1 DEF Contract!Next
<1>3. ASSUME NEW w \in Workers, NEW error \in BOOLEAN,
             Raise(w, error) \/ Crash(w) \/ HandlerRaises(w)
      PROVE Implemented
  BY <1>3 DEF Raise, Crash, HandlerRaises, store, Contract!vars
<1>4. ASSUME NEW w \in Workers, BodyCommitUnacknowledged(w) PROVE Implemented
  <2>1. pc[w] = "complete" => active[w] \in Stages
    BY <1>0 DEF ThreadMatchesRow
  <2> QED BY <1>4, <2>1, InsertContract, RowContract, RunTxContract
          DEF BodyCommitUnacknowledged
<1>5. ASSUME NEW w \in Workers, HandlerCommitUnacknowledged(w) PROVE Implemented
  <2>1. /\ pc[w] \in {"fail_stage", "cancel_stage"} => active[w] \in Stages
        /\ pc[w] \in {"cancel_stage", "cancel_run"} => cancelRequested
        /\ pc[w] \in {"fail_run", "fail_config"} =>
             \A j \in Stages : stage[j] \notin {"running", "cancelled"}
        /\ pc[w] = "cancel_run" => \A j \in Stages : stage[j] \notin {"running", "failed"}
        /\ transient[w] \in BOOLEAN
    BY <1>0 DEF ThreadMatchesRow, NoStageRows
  <2> QED BY <1>5, <2>1, RowContract, RunTxContract DEF HandlerCommitUnacknowledged
<1>6. ASSUME NEW w \in Workers, ClaimUnacknowledged(w) PROVE Implemented
  BY <1>6, RunTxContract DEF ClaimUnacknowledged
<1>7. ASSUME UNCHANGED vars PROVE Implemented
  BY <1>7, Stutters DEF vars, store
<1>8. ASSUME BackoffElapses \/ DuplicateDelivery PROVE Implemented
  BY <1>8 DEF BackoffElapses, DuplicateDelivery, store, Contract!vars
<1> QED BY <1>1, <1>2, <1>3, <1>4, <1>5, <1>6, <1>7, <1>8 DEF Next, Step, Failure

\* The run that a client polls is a RunContract, whatever the workers, the
\* deliveries and the failures behind it.
THEOREM LifecycleImplementsContract == Spec => ImplementsContract
<1>1. Init => Contract!Init
  BY ContractStages DEF Init, Contract!Init
<1>2. Spec => []IndInv
  BY IndInvInit, IndInvStep, PTL DEF Spec
<1> QED BY <1>1, <1>2, ContractStep, PTL DEF Spec, ImplementsContract, Contract!Spec

\* After a committed request rows can only become cancelled.
THEOREM CancellationStopsProgress == Spec => NoProgressAfterCancel
<1>1. TypeOK /\ [Contract!Next]_(Contract!vars) =>
        (cancelRequested => \A i \in Stages : stage'[i] \in {stage[i], "cancelled"})
  BY ContractStages
     DEF TypeOK, Contract!Next, Contract!vars, Contract!Begin, Contract!Requeue,
         Contract!AddRow, Contract!FinishRow, Contract!DiscardRow, Contract!Succeed,
         Contract!Fail, Contract!Cancel, Contract!Request, Contract!Working
<1>2. IndInv /\ [Next]_vars =>
        [cancelRequested => \A i \in Stages : stage'[i] \in {stage[i], "cancelled"}]_vars
  BY <1>1, ContractStep DEF IndInv
<1> QED BY <1>2, IndInvInit, IndInvStep, PTL DEF Spec, NoProgressAfterCancel

\* Only a queued run waits for a retry: every transition out of "queued" clears
\* the delay that fail_run scheduled.
BackoffOnlyQueued == backoff = "waiting" => run = "queued"

LEMMA BackoffStep == BackoffOnlyQueued /\ [Next]_vars => BackoffOnlyQueued'
<1> SUFFICES ASSUME BackoffOnlyQueued, [Next]_vars PROVE BackoffOnlyQueued'
  OBVIOUS
<1> USE DEF BackoffOnlyQueued
<1>1. ClaimTx => BackoffOnlyQueued'
  BY DEF ClaimTx
<1>2. ASSUME NEW i, \/ \E status \in StageStatuses : InsertStageTx(i, status)
                    \/ CompleteStageTx(i) \/ FailStageTx(i) \/ CancelStageTx(i)
                    \/ UNCHANGED store
      PROVE BackoffOnlyQueued'
  BY <1>2 DEF InsertStageTx, CompleteStageTx, FailStageTx, CancelStageTx, store
<1>3. ASSUME NEW error, FailRunTx(error) PROVE BackoffOnlyQueued'
  BY <1>3 DEF FailRunTx
<1>4. CompleteRunTx \/ CancelRunTx => BackoffOnlyQueued'
  BY DEF CompleteRunTx, CancelRunTx
<1>5. ASSUME NEW w \in Workers, WorkerStep(w) PROVE BackoffOnlyQueued'
  BY <1>1, <1>2, <1>3, <1>4, <1>5
     DEF WorkerStep, Claim, DeclineDelivery, CheckCancelled, SkipStage, ResolveIdentity,
         StartStage, CompleteStage, CompleteRun, Handle, FailStage, FailRun, CancelStage,
         CancelRun, FailUnconfigured, StageStatuses
<1>6. ASSUME NEW w \in Workers,
             \/ Crash(w) \/ HandlerRaises(w) \/ BodyCommitUnacknowledged(w)
             \/ HandlerCommitUnacknowledged(w) \/ ClaimUnacknowledged(w)
             \/ \E error \in BOOLEAN : Raise(w, error)
      PROVE BackoffOnlyQueued'
  BY <1>1, <1>2, <1>3, <1>4, <1>6
     DEF Crash, HandlerRaises, BodyCommitUnacknowledged, HandlerCommitUnacknowledged,
         ClaimUnacknowledged, Raise, StageStatuses
<1>7. RequestCancel \/ BackoffElapses \/ DuplicateDelivery => BackoffOnlyQueued'
  BY DEF RequestCancel, BackoffElapses, DuplicateDelivery, store
<1>8. UNCHANGED vars => BackoffOnlyQueued'
  BY DEF vars, store
<1> QED BY <1>5, <1>6, <1>7, <1>8 DEF Next, Step, Failure

\* Whatever still happens to a finished run leaves its rows as they are.
THEOREM TerminalIsFrozen == Spec => TerminalFrozen
<1>1. ASSUME IndInv, BackoffOnlyQueued, Next, run \in Terminal PROVE store' = store
  <2> run # "queued" /\ run # "running" /\ backoff # "waiting"
    BY <1>1 DEF Terminal, BackoffOnlyQueued
  <2> USE DEF ClaimTx, Claimable, InsertStageTx, Insertable, CompleteStageTx, Completable,
              CompleteRunTx, Finishable, FailStageTx, HasStageToFail, FailRunTx, Failable,
              Live, store
  <2>1. \A i : CancelStageTx(i) => store' = store
    BY DEF CancelStageTx, HasStageToCancel
  <2>2. CancelRunTx => store' = store
    <3> SUFFICES ASSUME CancelRunTx PROVE store' = store
      OBVIOUS
    <3>1. run' = run /\ job' = job /\ backoff' = backoff /\ attempts' = attempts
          /\ stage' = stage
      BY DEF CancelRunTx
    <3>2. cancelRequested' = (cancelRequested \/ FALSE)
      BY DEF CancelRunTx
    <3>3. cancelRequested \in BOOLEAN
      BY <1>1, Zenon DEF IndInv, TypeOK
    <3>4. cancelRequested' = cancelRequested
      BY <3>2, <3>3, Zenon
    <3> QED BY <3>1, <3>4
  <2>3. ASSUME NEW w \in Workers, WorkerStep(w) PROVE store' = store
    BY <2>1, <2>2, <2>3
       DEF WorkerStep, Claim, DeclineDelivery, CheckCancelled, SkipStage,
           ResolveIdentity, StartStage, CompleteStage, CompleteRun, Handle, FailStage,
           FailRun, CancelStage, CancelRun, FailUnconfigured
  <2>4. ASSUME NEW w \in Workers,
               \/ Crash(w) \/ HandlerRaises(w) \/ BodyCommitUnacknowledged(w)
               \/ HandlerCommitUnacknowledged(w) \/ ClaimUnacknowledged(w)
        PROVE store' = store
    BY <2>1, <2>2, <2>4
       DEF Crash, HandlerRaises, BodyCommitUnacknowledged, HandlerCommitUnacknowledged,
           ClaimUnacknowledged
  <2>5. ASSUME NEW w \in Workers, NEW error \in BOOLEAN, Raise(w, error) PROVE store' = store
    BY <2>5 DEF Raise
  <2>6. ASSUME RequestCancel \/ BackoffElapses \/ DuplicateDelivery PROVE store' = store
    BY <2>6 DEF RequestCancel, BackoffElapses, DuplicateDelivery
  <2> QED BY <1>1, <2>3, <2>4, <2>5, <2>6 DEF Next, Step, Failure
<1>2. IndInv /\ BackoffOnlyQueued /\ [Next]_vars => [(run \in Terminal) => store' = store]_vars
  BY <1>1
<1>3. Init => BackoffOnlyQueued
  BY DEF Init, BackoffOnlyQueued
<1> QED BY <1>2, <1>3, BackoffStep, IndInvInit, IndInvStep, PTL DEF Spec, TerminalFrozen

=============================================================================
