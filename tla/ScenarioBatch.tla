---------------------------- MODULE ScenarioBatch ----------------------------
(***************************************************************************)
(* Batches of generation runs and the admission of their children: how the *)
(* stores of scenario_batch.py create, reconcile and limit a batch while   *)
(* workers claim, finish and requeue its runs.                             *)
(*                                                                         *)
(* A transaction is one step at its commit, under the row locks it holds.  *)
(* The claim is three steps: it reads the membership of the run and locks  *)
(* the batch it finds; it locks the run and counts the running children;   *)
(* it commits the start.                                                   *)
(* A single run is reduced to its status; GenerationLifecycle details it.  *)
(***************************************************************************)
EXTENDS Integers, FiniteSets

CONSTANTS
  Runs,        \* generation runs that can be created
  Batches,     \* batches that can be created
  Manual,      \* those created over existing runs; the others come with their runs
  Workers,     \* generation workers
  None,        \* no batch, no run
  MinRuns,     \* MIN_BATCH_RUNS
  MaxRuns,     \* MAX_BATCH_RUNS
  MaxTries     \* ARQ's limit of executions of one delivered job

ASSUME BatchAssumption ==
  /\ IsFiniteSet(Runs)
  /\ Manual \subseteq Batches
  /\ None \notin Runs \cup Batches
  /\ MinRuns \in Nat \ {0} /\ MaxRuns \in Nat
  /\ MaxTries \in Nat

VARIABLES
  run,       \* status of each run, "absent" before it is created
  member,    \* scenario_batch_runs: the batch of each run, or None
  status,    \* status of each batch, "absent" before it is sealed
  limit,     \* concurrency_limit of each batch
  delivery,  \* the run's job waits in Redis
  tries,     \* ARQ's job_try of the run's job
  pc,        \* per worker: "idle", or where it is in the claim or the run
  target,    \* per worker: the run it handles, or None
  held       \* per worker: the batch that its claim has read and locked, or None

rows == <<run, member, status, limit>>
queue == <<delivery, tries>>
workers == <<pc, target, held>>
vars == <<rows, queue, workers>>

Terminal == {"succeeded", "failed", "cancelled"}
RunStatuses == {"absent", "queued", "running"} \cup Terminal
BatchStatuses == {"absent", "queued", "running"} \cup Terminal

TypeOK ==
  /\ run \in [Runs -> RunStatuses]
  /\ member \in [Runs -> Batches \cup {None}]
  /\ status \in [Batches -> BatchStatuses]
  /\ limit \in [Batches -> 0..MaxRuns]
  /\ delivery \in [Runs -> BOOLEAN]
  /\ tries \in [Runs -> 0..MaxTries]
  /\ pc \in [Workers -> {"idle", "claiming", "starting", "executing"}]
  /\ target \in [Workers -> Runs \cup {None}]
  /\ held \in [Workers -> Batches \cup {None}]

Init ==
  /\ run = [r \in Runs |-> "absent"]
  /\ member = [r \in Runs |-> None]
  /\ status = [b \in Batches |-> "absent"]
  /\ limit = [b \in Batches |-> 0]
  /\ delivery = [r \in Runs |-> FALSE]
  /\ tries = [r \in Runs |-> 0]
  /\ pc = [w \in Workers |-> "idle"]
  /\ target = [w \in Workers |-> None]
  /\ held = [w \in Workers |-> None]

Children(b) == {r \in Runs : member[r] = b}
ActiveChildren(b) == {r \in Children(b) : run[r] = "running"}

\* No claim holds the row lock of the batch, of the run.
Unlocked(b) == \A w \in Workers : held[w] # b
RunUnlocked(r) == \A w \in Workers : pc[w] = "starting" => target[w] # r

-----------------------------------------------------------------------------
(* Creation. *)

\* run_control.py: a run of its own, with its job and outbox message.
CreateRun(r) ==
  /\ run[r] = "absent"
  /\ run' = [run EXCEPT ![r] = "queued"]
  /\ delivery' = [delivery EXCEPT ![r] = TRUE]
  /\ UNCHANGED <<member, status, limit, tries, workers>>

\* _seal: draft, membership and queued in one transaction.
Seal(b, children, n) ==
  /\ status[b] = "absent"
  /\ Cardinality(children) \in MinRuns..MaxRuns
  /\ n \in 1..Cardinality(children)
  /\ member' = [r \in Runs |-> IF r \in children THEN b ELSE member[r]]
  /\ status' = [status EXCEPT ![b] = "queued"]
  /\ limit' = [limit EXCEPT ![b] = n]

\* create: locks existing runs, which must be queued and in no batch.
CreateBatch(b, children, n) ==
  /\ b \in Manual
  /\ \A r \in children : RunUnlocked(r) /\ run[r] = "queued" /\ member[r] = None
  /\ Seal(b, children, n)
  /\ UNCHANGED <<run, queue, workers>>

\* create_matrix: runs, jobs, messages and batch appear together.
CreateMatrix(b, children, n) ==
  /\ b \notin Manual
  /\ \A r \in children : run[r] = "absent"
  /\ Seal(b, children, n)
  /\ run' = [r \in Runs |-> IF r \in children THEN "queued" ELSE run[r]]
  /\ delivery' = [r \in Runs |-> delivery[r] \/ r \in children]
  /\ UNCHANGED <<tries, workers>>

-----------------------------------------------------------------------------
(* The claim of a delivered run. *)

\* Mutant: the parent is read without FOR UPDATE.
LookupBatchUnlocked(w, r) ==
  /\ pc[w] = "idle"
  /\ delivery[r] /\ tries[r] < MaxTries
  /\ delivery' = [delivery EXCEPT ![r] = FALSE]
  /\ tries' = [tries EXCEPT ![r] = @ + 1]
  /\ pc' = [pc EXCEPT ![w] = "claiming"]
  /\ target' = [target EXCEPT ![w] = r]
  /\ held' = [held EXCEPT ![w] = member[r]]
  /\ UNCHANGED rows

\* locked_batch_for_run: waits for the batch's lock, not for the run's.
LookupBatch(w, r) ==
  /\ pc[w] = "idle"
  /\ delivery[r] /\ tries[r] < MaxTries
  /\ member[r] # None => Unlocked(member[r])
  /\ delivery' = [delivery EXCEPT ![r] = FALSE]
  /\ tries' = [tries EXCEPT ![r] = @ + 1]
  /\ pc' = [pc EXCEPT ![w] = "claiming"]
  /\ target' = [target EXCEPT ![w] = r]
  /\ held' = [held EXCEPT ![w] = member[r]]
  /\ UNCHANGED rows

\* ARQ gives the job up at its limit of executions.
DropDelivery(r) ==
  /\ delivery[r] /\ tries[r] = MaxTries
  /\ delivery' = [delivery EXCEPT ![r] = FALSE]
  /\ UNCHANGED <<rows, tries, workers>>

Stop(w) ==
  /\ pc' = [pc EXCEPT ![w] = "idle"]
  /\ target' = [target EXCEPT ![w] = None]
  /\ held' = [held EXCEPT ![w] = None]

\* require_batch_capacity, for a claim that has found a batch.
AcceptsChildren(b) == status[b] \in {"queued", "running"}
HasCapacity(b) == Cardinality(ActiveChildren(b)) < limit[b]

\* The batch of the first child that starts becomes running.
Started(b) ==
  IF b # None /\ status[b] = "queued" THEN [status EXCEPT ![b] = "running"] ELSE status

\* The run is locked and may start: the count was taken at this moment.
ClaimAdmitted(w) ==
  /\ pc[w] = "claiming"
  /\ RunUnlocked(target[w])
  /\ run[target[w]] = "queued"
  /\ held[w] # None => AcceptsChildren(held[w]) /\ HasCapacity(held[w])
  /\ pc' = [pc EXCEPT ![w] = "starting"]
  /\ UNCHANGED <<rows, queue, target, held>>

ClaimCommits(w) ==
  /\ pc[w] = "starting"
  /\ run' = [run EXCEPT ![target[w]] = "running"]
  /\ status' = Started(held[w])
  /\ pc' = [pc EXCEPT ![w] = "executing"]
  /\ held' = [held EXCEPT ![w] = None]
  /\ UNCHANGED <<member, limit, queue, target>>

\* GenerationRetryScheduled: the delivery goes back without an attempt.
ClaimDeferred(w) ==
  /\ pc[w] = "claiming"
  /\ RunUnlocked(target[w])
  /\ run[target[w]] = "queued"
  /\ held[w] # None /\ AcceptsChildren(held[w]) /\ ~HasCapacity(held[w])
  /\ delivery' = [delivery EXCEPT ![target[w]] = TRUE]
  /\ Stop(w)
  /\ UNCHANGED <<rows, tries>>

\* Already running or terminal, or under a finished batch: the delivery is
\* consumed.
ClaimRefused(w) ==
  /\ pc[w] = "claiming"
  /\ RunUnlocked(target[w])
  /\ \/ run[target[w]] # "queued"
     \/ held[w] # None /\ ~AcceptsChildren(held[w])
  /\ Stop(w)
  /\ UNCHANGED <<rows, queue>>

-----------------------------------------------------------------------------
(* The rest of a child's life, and the parent's reconciliation. *)

FinishRun(w, outcome) ==
  /\ pc[w] = "executing"
  /\ run' = [run EXCEPT ![target[w]] = outcome]
  /\ Stop(w)
  /\ UNCHANGED <<member, status, limit, queue>>

\* fail_run of a transient error before any stage row.
RequeueRun(w) ==
  /\ pc[w] = "executing"
  /\ run' = [run EXCEPT ![target[w]] = "queued"]
  /\ delivery' = [delivery EXCEPT ![target[w]] = TRUE]
  /\ Stop(w)
  /\ UNCHANGED <<member, status, limit, tries>>

CancelQueued(r) ==
  /\ run[r] = "queued"
  /\ RunUnlocked(r)
  /\ run' = [run EXCEPT ![r] = "cancelled"]
  /\ UNCHANGED <<member, status, limit, queue, workers>>

\* Locks vanish with the process; its deliveries come back.
Crash(w) ==
  /\ pc[w] # "idle"
  /\ delivery' = [delivery EXCEPT ![target[w]] = TRUE]
  /\ Stop(w)
  /\ UNCHANGED <<rows, tries>>

ChildStatuses(b) == {run[r] : r \in Children(b)}

\* Mutant: the aggregate is taken as soon as one child is terminal.
SettledByAny(b) == ChildStatuses(b) \cap Terminal # {}

\* All children have reached a terminal status.
SettledChildren(b) == ChildStatuses(b) \subseteq Terminal

Aggregate(b) ==
  IF "failed" \in ChildStatuses(b) THEN "failed"
  ELSE IF "cancelled" \in ChildStatuses(b) THEN "cancelled"
  ELSE "succeeded"

\* refresh changes the parent only while it is neither draft nor terminal.
Refresh(b) ==
  /\ status[b] \in {"queued", "running"}
  /\ Unlocked(b)
  /\ status' = [status EXCEPT ![b] =
       IF SettledChildren(b) THEN Aggregate(b)
       ELSE IF ChildStatuses(b) # {"queued"} THEN "running"
       ELSE @]
  /\ UNCHANGED <<run, member, limit, queue, workers>>

-----------------------------------------------------------------------------
WorkerStep(w) ==
  \/ ClaimAdmitted(w) \/ ClaimCommits(w) \/ ClaimDeferred(w) \/ ClaimRefused(w)
  \/ \E r \in Runs : LookupBatch(w, r)
  \/ \E outcome \in Terminal : FinishRun(w, outcome)

ApiStep ==
  \/ \E r \in Runs : CreateRun(r) \/ CancelQueued(r)
  \/ \E b \in Batches, children \in SUBSET Runs, n \in 1..MaxRuns :
       CreateBatch(b, children, n) \/ CreateMatrix(b, children, n)
  \/ \E b \in Batches : Refresh(b)

Next ==
  \/ ApiStep
  \/ \E w \in Workers : WorkerStep(w) \/ RequeueRun(w) \/ Crash(w)
  \/ \E r \in Runs : DropDelivery(r)

Spec == Init /\ [][Next]_vars

\* Workers that do not die take deliveries, finish claims and runs.
Fairness ==
  /\ \A w \in Workers : WF_vars(WorkerStep(w))
  /\ \A w \in Workers, r \in Runs : SF_vars(LookupBatch(w, r))
LiveStep ==
  \/ ApiStep
  \/ \E w \in Workers : WorkerStep(w)
  \/ \E r \in Runs : DropDelivery(r)
LiveSpec == Init /\ [][LiveStep]_vars /\ Fairness

-----------------------------------------------------------------------------
(* Properties. *)

\* However many workers claim at once, the running children of a batch that was
\* created with its runs never exceed its limit (require_batch_capacity).  Those
\* of a manual batch may: a claim that reads its run's membership before create
\* commits goes on without the check.
MatrixWithinLimit ==
  \A b \in Batches \ Manual : Cardinality(ActiveChildren(b)) <= limit[b]

\* The status of a finished batch is final and true: all children are terminal
\* and it is their aggregate, whatever happened to them since (refresh and the
\* trigger guard_scenario_batch_state). A batch that came with its runs is running as
\* soon as one of them is (claim).
ParentMatchesChildren ==
  /\ \A b \in Batches \ Manual : status[b] = "queued" => ActiveChildren(b) = {}
  /\ \A b \in Batches : status[b] \in Terminal =>
       /\ ChildStatuses(b) \subseteq Terminal
       /\ (status[b] = "failed") = ("failed" \in ChildStatuses(b))
       /\ (status[b] = "succeeded") = (ChildStatuses(b) = {"succeeded"})

\* The membership and the limit of a sealed batch never change, and a run joins
\* at most one, before it runs (the checks in create under the runs' locks).
MembershipFrozen ==
  [][\A r \in Runs : member'[r] # member[r] =>
       /\ member[r] = None /\ run'[r] = "queued"
       /\ run[r] \in {"absent", "queued"}]_vars

\* A child that waits for a slot gets one: it is never queued for ever while
\* its siblings finish (ADR 0006, the deferral of saturated children).
QueuedChildProceeds ==
  \A r \in Runs : (run[r] = "queued" /\ member[r] # None) ~> run[r] # "queued"
=============================================================================
