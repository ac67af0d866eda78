------------------------- MODULE ScenarioBatchProofs -------------------------
(***************************************************************************)
(* The concurrency limit of a batch that is created with its runs, the     *)
(* truth of a finished parent and the membership, for any number of runs,  *)
(* batches and workers.  The limit follows from the lock: a claim of such  *)
(* a batch has found it and holds its lock from the lookup to the commit,  *)
(* so what it counted still holds when it commits.                         *)
(***************************************************************************)
EXTENDS ScenarioBatch, FiniteSetTheorems, TLAPS

Matrix == Batches \ Manual
Claiming(w) == pc[w] \in {"claiming", "starting"}

\* Whoever is in the middle of a claim of a batch that came with its runs holds
\* the lock of that batch, alone.
LockInv ==
  /\ \A w \in Workers :
       /\ pc[w] # "idle" => target[w] \in Runs /\ run[target[w]] # "absent"
       /\ held[w] # None => Claiming(w) /\ held[w] = member[target[w]]
       /\ Claiming(w) /\ member[target[w]] \in Matrix => held[w] = member[target[w]]
  /\ \A v, w \in Workers : v # w /\ held[v] # None => held[v] # held[w]

\* Only created runs are delivered and linked, to sealed batches.
CreatedInv ==
  \A r \in Runs :
    /\ delivery[r] \/ member[r] # None => run[r] # "absent"
    /\ member[r] # None => status[member[r]] # "absent"

\* Between the count and the commit there is room for the child.
RoomInv ==
  \A w \in Workers, b \in Matrix :
    pc[w] = "starting" /\ held[w] = b => Cardinality(ActiveChildren(b)) < limit[b]

IndInv == TypeOK /\ LockInv /\ CreatedInv /\ RoomInv /\ MatrixWithinLimit

\* What every step but a commit does to the running children of a batch.
Shrinks(b) ==
  /\ ActiveChildren(b)' \subseteq ActiveChildren(b)
  /\ limit'[b] = limit[b] \/ ActiveChildren(b)' = {}

-----------------------------------------------------------------------------
\* Sets of running children are finite, so a smaller one does not count more.
LEMMA ActiveFinite ==
  ASSUME NEW b
  PROVE  IsFiniteSet(ActiveChildren(b)) /\ Cardinality(ActiveChildren(b)) \in Nat
<1>1. ActiveChildren(b) \in SUBSET Runs
  BY DEF ActiveChildren, Children
<1>2. IsFiniteSet(ActiveChildren(b))
  BY <1>1, BatchAssumption, FS_Subset
<1> QED BY <1>2, FS_CardinalityType

LEMMA InitInv == Init => IndInv
<1> SUFFICES ASSUME Init PROVE IndInv
  OBVIOUS
<1>1. TypeOK
  BY BatchAssumption DEF Init, TypeOK, RunStatuses, BatchStatuses
<1>2. LockInv /\ CreatedInv /\ RoomInv
  BY BatchAssumption DEF Init, LockInv, CreatedInv, RoomInv, Claiming, Matrix
<1>3. ASSUME NEW b \in Batches PROVE Cardinality(ActiveChildren(b)) <= limit[b]
  <2>1. ActiveChildren(b) = {}
    BY DEF Init, ActiveChildren, Children
  <2> QED BY <2>1, FS_EmptySet DEF Init
<1> QED BY <1>1, <1>2, <1>3 DEF IndInv, MatrixWithinLimit

LEMMA TypeStep == TypeOK /\ [Next]_vars => TypeOK'
<1> SUFFICES ASSUME TypeOK, [Next]_vars PROVE TypeOK'
  OBVIOUS
<1> USE DEF TypeOK, RunStatuses, BatchStatuses, Terminal, rows, queue, workers
<1>1. ASSUME NEW r \in Runs, CreateRun(r) \/ CancelQueued(r) PROVE TypeOK'
  BY <1>1 DEF CreateRun, CancelQueued
<1>2. ASSUME NEW b \in Batches, NEW children \in SUBSET Runs, NEW n \in 1..MaxRuns,
             CreateBatch(b, children, n) \/ CreateMatrix(b, children, n)
      PROVE TypeOK'
  <2>1. Seal(b, children, n)
    BY <1>2 DEF CreateBatch, CreateMatrix
  <2>2. /\ member' \in [Runs -> Batches \cup {None}]
        /\ status' \in [Batches -> BatchStatuses]
        /\ limit' \in [Batches -> 0..MaxRuns]
    BY <2>1, BatchAssumption DEF Seal
  <2>3. run' \in [Runs -> RunStatuses] /\ tries' = tries /\ workers' = workers
    BY <1>2 DEF CreateBatch, CreateMatrix
  <2>4. delivery' \in [Runs -> BOOLEAN]
    <3>1. CASE delivery' = delivery
      BY <3>1
    <3>2. CASE delivery' = [r \in Runs |-> delivery[r] \/ r \in children]
      <4>1. \A r \in Runs : (delivery[r] \/ r \in children) \in BOOLEAN
        BY Zenon
      <4> QED BY <3>2, <4>1
    <3> QED BY <1>2, <3>1, <3>2 DEF CreateBatch, CreateMatrix
  <2> QED BY <2>2, <2>3, <2>4
<1>3. ASSUME NEW b \in Batches, Refresh(b) PROVE TypeOK'
  <2>1. Aggregate(b) \in Terminal
    BY DEF Aggregate
  <2>2. status' \in [Batches -> BatchStatuses]
    BY <1>3, <2>1 DEF Refresh
  <2> QED BY <1>3, <2>2 DEF Refresh
<1>4. ASSUME NEW w \in Workers, NEW r \in Runs, LookupBatch(w, r) PROVE TypeOK'
  <2>1. tries[r] + 1 \in 0..MaxTries
    BY <1>4, BatchAssumption DEF LookupBatch
  <2> QED BY <1>4, <2>1 DEF LookupBatch
<1>5. ASSUME NEW w \in Workers, ClaimAdmitted(w) \/ ClaimRefused(w) PROVE TypeOK'
  BY <1>5 DEF ClaimAdmitted, ClaimRefused, Stop
<1>6. ASSUME NEW w \in Workers, ClaimCommits(w) PROVE TypeOK'
  <2>1. status' \in [Batches -> BatchStatuses]
    BY <1>6 DEF ClaimCommits, Started
  <2> QED BY <1>6, <2>1 DEF ClaimCommits
<1>7. ASSUME NEW w \in Workers, ClaimDeferred(w) \/ RequeueRun(w) \/ Crash(w) PROVE TypeOK'
  BY <1>7 DEF ClaimDeferred, RequeueRun, Crash, Stop
<1>8. ASSUME NEW w \in Workers, NEW outcome \in Terminal, FinishRun(w, outcome) PROVE TypeOK'
  BY <1>8 DEF FinishRun, Stop
<1>9. ASSUME NEW r \in Runs, DropDelivery(r) PROVE TypeOK'
  BY <1>9 DEF DropDelivery
<1>10. CASE UNCHANGED vars
  BY <1>10 DEF vars
<1> QED BY <1>1, <1>2, <1>3, <1>4, <1>5, <1>6, <1>7, <1>8, <1>9, <1>10
        DEF Next, ApiStep, WorkerStep

LEMMA CreatedStep == TypeOK /\ LockInv /\ CreatedInv /\ [Next]_vars => CreatedInv'
<1> SUFFICES ASSUME TypeOK, LockInv, CreatedInv, [Next]_vars, NEW s \in Runs
             PROVE  /\ delivery'[s] \/ member'[s] # None => run'[s] # "absent"
                    /\ member'[s] # None => status'[member'[s]] # "absent"
  BY DEF CreatedInv
<1> USE DEF TypeOK, CreatedInv, rows, queue, workers
<1>1. ASSUME NEW r \in Runs, CreateRun(r) \/ CancelQueued(r) \/ DropDelivery(r)
      PROVE  CreatedInv'
  BY <1>1 DEF CreateRun, CancelQueued, DropDelivery
<1>2. ASSUME NEW b \in Batches, NEW children \in SUBSET Runs, NEW n \in 1..MaxRuns,
             CreateBatch(b, children, n) \/ CreateMatrix(b, children, n)
      PROVE  CreatedInv'
  BY <1>2, BatchAssumption DEF CreateBatch, CreateMatrix, Seal
<1>3. ASSUME NEW b \in Batches, Refresh(b) PROVE CreatedInv'
  <2>1. Aggregate(b) # "absent"
    BY DEF Aggregate
  <2>2. \A a \in Batches : status[a] # "absent" => status'[a] # "absent"
    BY <1>3, <2>1 DEF Refresh
  <2> QED BY <1>3, <2>2 DEF Refresh
<1>4. ASSUME NEW w \in Workers, NEW r \in Runs, LookupBatch(w, r) PROVE CreatedInv'
  BY <1>4 DEF LookupBatch
<1>5. ASSUME NEW w \in Workers, ClaimAdmitted(w) \/ ClaimRefused(w) PROVE CreatedInv'
  BY <1>5 DEF ClaimAdmitted, ClaimRefused
<1>6. ASSUME NEW w \in Workers, ClaimCommits(w) PROVE CreatedInv'
  <2>1. \A a \in Batches : status[a] # "absent" => status'[a] # "absent"
    BY <1>6 DEF ClaimCommits, Started
  <2> QED BY <1>6, <2>1 DEF ClaimCommits
<1>7. ASSUME NEW w \in Workers, ClaimDeferred(w) \/ RequeueRun(w) \/ Crash(w)
      PROVE  CreatedInv'
  BY <1>7 DEF ClaimDeferred, RequeueRun, Crash, LockInv
<1>8. ASSUME NEW w \in Workers, NEW outcome \in Terminal, FinishRun(w, outcome)
      PROVE  CreatedInv'
  BY <1>8 DEF FinishRun, Terminal
<1>9. CASE UNCHANGED vars
  BY <1>9 DEF vars
<1> QED BY <1>1, <1>2, <1>3, <1>4, <1>5, <1>6, <1>7, <1>8, <1>9
        DEF Next, ApiStep, WorkerStep

LEMMA LockStep ==
  TypeOK /\ LockInv /\ CreatedInv /\ [Next]_vars => LockInv'
<1> SUFFICES ASSUME TypeOK, LockInv, CreatedInv, [Next]_vars PROVE LockInv'
  OBVIOUS
<1> USE BatchAssumption DEF TypeOK, LockInv, Claiming, Matrix, rows, queue, workers
<1>1. ASSUME NEW r \in Runs, CreateRun(r) \/ CancelQueued(r) \/ DropDelivery(r)
      PROVE  LockInv'
  BY <1>1 DEF CreateRun, CancelQueued, DropDelivery
<1>2. ASSUME NEW b \in Batches, NEW children \in SUBSET Runs, NEW n \in 1..MaxRuns,
             CreateBatch(b, children, n) \/ CreateMatrix(b, children, n)
      PROVE  LockInv'
  <2>1. workers' = workers
        /\ \A r \in Runs : run[r] # "absent" => run'[r] # "absent"
    BY <1>2 DEF CreateBatch, CreateMatrix
  <2>2. \A r \in Runs : run[r] # "absent" =>
          /\ member[r] # None => member'[r] = member[r]
          /\ member'[r] \in Matrix => member'[r] = member[r]
    BY <1>2 DEF CreateBatch, CreateMatrix, Seal
  <2> QED BY <2>1, <2>2
<1>3. ASSUME NEW b \in Batches, Refresh(b) PROVE LockInv'
  BY <1>3 DEF Refresh
<1>4. ASSUME NEW w \in Workers, NEW r \in Runs, LookupBatch(w, r) PROVE LockInv'
  <2>1. run' = run /\ member' = member /\ run[r] # "absent"
    BY <1>4 DEF LookupBatch, CreatedInv
  <2>2. \A v \in Workers :
          /\ pc'[v] = IF v = w THEN "claiming" ELSE pc[v]
          /\ target'[v] = IF v = w THEN r ELSE target[v]
          /\ held'[v] = IF v = w THEN member[r] ELSE held[v]
    BY <1>4 DEF LookupBatch
  <2>3. member[r] # None => \A v \in Workers : held[v] # member[r]
    BY <1>4 DEF LookupBatch, Unlocked
  <2>4. \A v \in Workers :
         /\ pc'[v] # "idle" => target'[v] \in Runs /\ run'[target'[v]] # "absent"
         /\ held'[v] # None => pc'[v] \in {"claiming", "starting"} /\ held'[v] = member'[target'[v]]
         /\ pc'[v] \in {"claiming", "starting"} /\ member'[target'[v]] \in Batches \ Manual
              => held'[v] = member'[target'[v]]
    BY <2>1, <2>2
  <2>5. \A u, v \in Workers : u # v /\ held'[u] # None => held'[u] # held'[v]
    BY <2>2, <2>3
  <2> QED BY <2>4, <2>5
<1>5. ASSUME NEW w \in Workers, ClaimAdmitted(w) PROVE LockInv'
  BY <1>5 DEF ClaimAdmitted
<1>6. ASSUME NEW w \in Workers, ClaimCommits(w) PROVE LockInv'
  BY <1>6 DEF ClaimCommits
<1>7. ASSUME NEW w \in Workers, Stop(w), member' = member,
             \A r \in Runs : run[r] # "absent" => run'[r] # "absent"
      PROVE  LockInv'
  BY <1>7 DEF Stop
<1>8. ASSUME NEW w \in Workers,
             ClaimDeferred(w) \/ ClaimRefused(w) \/ RequeueRun(w) \/ Crash(w)
               \/ \E outcome \in Terminal : FinishRun(w, outcome)
      PROVE  LockInv'
  <2>1. Stop(w) /\ member' = member
    BY <1>8 DEF ClaimDeferred, ClaimRefused, RequeueRun, Crash, FinishRun
  <2>2. \A r \in Runs : run[r] # "absent" => run'[r] # "absent"
    BY <1>8 DEF ClaimDeferred, ClaimRefused, RequeueRun, Crash, FinishRun, Terminal
  <2> QED BY <1>7, <2>1, <2>2
<1>9. CASE UNCHANGED vars
  BY <1>9 DEF vars
<1> QED BY <1>1, <1>2, <1>3, <1>4, <1>5, <1>6, <1>8, <1>9 DEF Next, ApiStep, WorkerStep

\* Only the commit of a claim adds a running child.
LEMMA ShrinkStep ==
  ASSUME TypeOK, LockInv, CreatedInv, [Next]_vars, NEW a \in Matrix,
         \A w \in Workers : ~ClaimCommits(w)
  PROVE  Shrinks(a)
<1> USE BatchAssumption
    DEF TypeOK, CreatedInv, LockInv, Matrix, ActiveChildren, Children, Shrinks, rows, queue, workers
<1>1. ASSUME member' = member, limit' = limit,
             \A r \in Runs : run'[r] = "running" => run[r] = "running"
      PROVE  Shrinks(a)
  BY <1>1
<1>2. ASSUME NEW r \in Runs, CreateRun(r) \/ CancelQueued(r) \/ DropDelivery(r)
      PROVE  Shrinks(a)
  BY <1>1, <1>2 DEF CreateRun, CancelQueued, DropDelivery
<1>3. ASSUME NEW b \in Batches, NEW children \in SUBSET Runs, NEW n \in 1..MaxRuns,
             CreateBatch(b, children, n) \/ CreateMatrix(b, children, n)
      PROVE  Shrinks(a)
  <2>1. \A r \in Runs : run'[r] = "running" => run[r] = "running"
    BY <1>3 DEF CreateBatch, CreateMatrix
  <2>2. CASE b = a
    <3>1. \A r \in Runs : member'[r] = a => run'[r] # "running"
      BY <1>3, <2>2 DEF CreateBatch, CreateMatrix, Seal
    <3> QED BY <3>1
  <2>3. CASE b # a
    <3>1. \A r \in Runs : member'[r] = a => member[r] = a
      BY <1>3, <2>3 DEF CreateBatch, CreateMatrix, Seal
    <3>2. limit'[a] = limit[a]
      BY <1>3, <2>3 DEF CreateBatch, CreateMatrix, Seal
    <3> QED BY <2>1, <3>1, <3>2
  <2> QED BY <2>2, <2>3
<1>4. ASSUME NEW b \in Batches, Refresh(b) PROVE Shrinks(a)
  BY <1>1, <1>4 DEF Refresh
<1>5. ASSUME NEW w \in Workers,
             (\E r \in Runs : LookupBatch(w, r)) \/ ClaimAdmitted(w) \/ ClaimRefused(w)
               \/ ClaimDeferred(w) \/ RequeueRun(w) \/ Crash(w)
               \/ \E outcome \in Terminal : FinishRun(w, outcome)
      PROVE  Shrinks(a)
  <2>1. \A r \in Runs : run'[r] = "running" => run[r] = "running"
    BY <1>5 DEF LookupBatch, ClaimAdmitted, ClaimRefused, ClaimDeferred, RequeueRun, Crash,
                FinishRun, Terminal
  <2>2. member' = member /\ limit' = limit
    BY <1>5 DEF LookupBatch, ClaimAdmitted, ClaimRefused, ClaimDeferred, RequeueRun, Crash,
                FinishRun
  <2> QED BY <1>1, <2>1, <2>2
<1>6. CASE UNCHANGED vars
  BY <1>1, <1>6 DEF vars
<1> QED BY <1>2, <1>3, <1>4, <1>5, <1>6 DEF Next, ApiStep, WorkerStep

\* The limit of a sealed batch does not change.
LEMMA LimitFrozen ==
  ASSUME TypeOK, [Next]_vars, NEW a \in Batches, status[a] # "absent"
  PROVE  limit'[a] = limit[a]
<1> USE DEF TypeOK, rows, queue, workers
<1>1. ASSUME NEW b \in Batches, NEW children \in SUBSET Runs, NEW n \in 1..MaxRuns,
             CreateBatch(b, children, n) \/ CreateMatrix(b, children, n)
      PROVE  limit'[a] = limit[a]
  BY <1>1 DEF CreateBatch, CreateMatrix, Seal
<1>2. CASE \/ \E r \in Runs : CreateRun(r) \/ CancelQueued(r) \/ DropDelivery(r)
           \/ \E b \in Batches : Refresh(b)
           \/ UNCHANGED vars
  BY <1>2 DEF CreateRun, CancelQueued, DropDelivery, Refresh, vars
<1>3. CASE \E w \in Workers : WorkerStep(w) \/ RequeueRun(w) \/ Crash(w)
  BY <1>3 DEF WorkerStep, ClaimAdmitted, ClaimCommits, ClaimDeferred, ClaimRefused,
              LookupBatch, FinishRun, RequeueRun, Crash
<1> QED BY <1>1, <1>2, <1>3 DEF Next, ApiStep

\* The steps that touch the workers without committing a claim.
LEMMA QuietStepCases ==
  ASSUME [Next]_vars, \A w \in Workers : ~ClaimCommits(w)
  PROVE  \/ \E v \in Workers, r \in Runs : LookupBatch(v, r)
         \/ \E v \in Workers : ClaimAdmitted(v)
         \/ \E v \in Workers : Stop(v)
         \/ workers' = workers
<1>1. CASE \E r \in Runs : CreateRun(r) \/ CancelQueued(r) \/ DropDelivery(r)
  BY <1>1 DEF CreateRun, CancelQueued, DropDelivery
<1>2. CASE \E b \in Batches, children \in SUBSET Runs, n \in 1..MaxRuns :
             CreateBatch(b, children, n) \/ CreateMatrix(b, children, n)
  BY <1>2 DEF CreateBatch, CreateMatrix
<1>3. CASE \E b \in Batches : Refresh(b)
  BY <1>3 DEF Refresh
<1>4. CASE \E w \in Workers : \/ ClaimDeferred(w) \/ ClaimRefused(w) \/ RequeueRun(w) \/ Crash(w)
                              \/ \E outcome \in Terminal : FinishRun(w, outcome)
  BY <1>4 DEF ClaimDeferred, ClaimRefused, RequeueRun, Crash, FinishRun
<1>5. CASE UNCHANGED vars
  BY <1>5 DEF vars
<1> QED BY <1>1, <1>2, <1>3, <1>4, <1>5 DEF Next, ApiStep, WorkerStep

LEMMA SmallerCount ==
  ASSUME NEW b \in Batches, ActiveChildren(b)' \subseteq ActiveChildren(b)
  PROVE  /\ Cardinality(ActiveChildren(b)') \in Nat
         /\ Cardinality(ActiveChildren(b)') <= Cardinality(ActiveChildren(b))
  BY ActiveFinite, FS_Subset, FS_CardinalityType

\* Every step but a commit keeps the counts below the limits.
LEMMA QuietStep ==
  ASSUME IndInv, [Next]_vars, \A w \in Workers : ~ClaimCommits(w), LockInv', TypeOK'
  PROVE  RoomInv' /\ MatrixWithinLimit'
<1>1. ASSUME NEW a \in Matrix PROVE Shrinks(a)
  BY <1>1, ShrinkStep DEF IndInv
<1>2. ASSUME NEW a \in Matrix PROVE Cardinality(ActiveChildren(a)') <= limit'[a]
  <2>1. a \in Batches /\ Cardinality(ActiveChildren(a)) <= limit[a]
    BY <1>2 DEF IndInv, MatrixWithinLimit, Matrix
  <2>2. limit[a] \in Nat /\ limit'[a] \in Nat
    BY <2>1, BatchAssumption DEF IndInv, TypeOK
  <2>3. CASE ActiveChildren(a)' = {}
    BY <2>2, <2>3, FS_EmptySet
  <2>4. CASE limit'[a] = limit[a]
    BY <1>1, <1>2, <2>1, <2>2, <2>4, SmallerCount, ActiveFinite DEF Shrinks
  <2> QED BY <1>1, <1>2, <2>3, <2>4 DEF Shrinks
<1>3. ASSUME NEW w \in Workers, NEW a \in Matrix, pc'[w] = "starting", held'[w] = a
      PROVE  Cardinality(ActiveChildren(a)') < limit'[a]
  <2>0. a \in Batches /\ a # None
    BY BatchAssumption DEF Matrix
  <2>1. held[w] = a /\ (pc[w] = "starting" \/ (pc[w] = "claiming" /\ HasCapacity(a)))
    <3>1. CASE \E v \in Workers, r \in Runs : LookupBatch(v, r)
      BY <1>3, <3>1 DEF LookupBatch, IndInv, TypeOK
    <3>2. CASE \E v \in Workers : ClaimAdmitted(v)
      <4>1. PICK v \in Workers : ClaimAdmitted(v)
        BY <3>2
      <4>2. held' = held /\ (v # w => pc'[w] = pc[w])
        BY <4>1 DEF ClaimAdmitted, IndInv, TypeOK
      <4>3. CASE v = w
        BY <1>3, <2>0, <4>1, <4>2, <4>3 DEF ClaimAdmitted
      <4> QED BY <1>3, <4>2, <4>3
    <3>3. CASE \E v \in Workers : Stop(v)
      BY <1>3, <2>0, <3>3 DEF Stop, IndInv, TypeOK
    <3>4. CASE workers' = workers
      BY <1>3, <3>4 DEF workers
    <3> QED
      BY <1>3, <3>1, <3>2, <3>3, <3>4, QuietStepCases DEF IndInv
  <2>2. Cardinality(ActiveChildren(a)) < limit[a]
    BY <2>0, <2>1 DEF IndInv, RoomInv, HasCapacity
  <2>3. status[a] # "absent"
    BY <2>0, <2>1 DEF IndInv, LockInv, CreatedInv, Claiming
  <2>4. limit'[a] = limit[a]
    BY <2>0, <2>3, LimitFrozen DEF IndInv
  <2>5. Cardinality(ActiveChildren(a)') <= Cardinality(ActiveChildren(a))
        /\ Cardinality(ActiveChildren(a)') \in Nat
    BY <1>1, <2>0, SmallerCount DEF Shrinks
  <2>6. limit[a] \in Nat /\ Cardinality(ActiveChildren(a)) \in Nat
    BY <2>0, BatchAssumption, ActiveFinite DEF IndInv, TypeOK
  <2> QED BY <2>2, <2>4, <2>5, <2>6
<1> QED BY <1>2, <1>3 DEF RoomInv, MatrixWithinLimit, Matrix

\* The commit adds one child to the batch whose lock the claim holds, which had
\* room for it.
LEMMA CommitStep ==
  ASSUME IndInv, NEW w \in Workers, ClaimCommits(w)
  PROVE  RoomInv' /\ MatrixWithinLimit'
<1> USE BatchAssumption
<1> DEFINE r == target[w]
<1>1. /\ r \in Runs /\ pc[w] = "starting"
      /\ run' = [run EXCEPT ![r] = "running"]
      /\ member' = member /\ limit' = limit
      /\ pc' = [pc EXCEPT ![w] = "executing"]
      /\ held' = [held EXCEPT ![w] = None]
  BY DEF ClaimCommits, IndInv, LockInv
<1>2. ASSUME NEW a \in Matrix, member[r] # a
      PROVE  ActiveChildren(a)' = ActiveChildren(a)
  BY <1>1, <1>2 DEF IndInv, TypeOK, ActiveChildren, Children
<1>3. ASSUME NEW a \in Matrix, member[r] = a
      PROVE  /\ held[w] = a
             /\ Cardinality(ActiveChildren(a)') <= limit[a]
  <2>1. held[w] = a
    BY <1>1, <1>3 DEF IndInv, LockInv, Claiming
  <2>2. Cardinality(ActiveChildren(a)) < limit[a]
    BY <1>1, <2>1 DEF IndInv, RoomInv
  <2>3. ActiveChildren(a)' = ActiveChildren(a) \cup {r}
    BY <1>1, <1>3 DEF IndInv, TypeOK, ActiveChildren, Children
  <2>4. /\ Cardinality(ActiveChildren(a)) \in Nat
        /\ \/ Cardinality(ActiveChildren(a)') = Cardinality(ActiveChildren(a))
           \/ Cardinality(ActiveChildren(a)') = Cardinality(ActiveChildren(a)) + 1
    BY <2>3, ActiveFinite, FS_AddElement
  <2>5. limit[a] \in Nat
    BY <1>3 DEF IndInv, TypeOK, Matrix
  <2> QED BY <2>1, <2>2, <2>4, <2>5
<1>4. ASSUME NEW a \in Matrix PROVE Cardinality(ActiveChildren(a)') <= limit'[a]
  BY <1>1, <1>2, <1>3, <1>4 DEF IndInv, MatrixWithinLimit, Matrix
<1>5. ASSUME NEW v \in Workers, NEW a \in Matrix, pc'[v] = "starting", held'[v] = a
      PROVE  Cardinality(ActiveChildren(a)') < limit'[a]
  <2>1. v # w /\ pc[v] = "starting" /\ held[v] = a
    BY <1>1, <1>5 DEF IndInv, TypeOK
  <2>2. a # None
    BY DEF Matrix
  <2>3. member[r] # a
    BY <1>3, <2>1, <2>2 DEF IndInv, LockInv
  <2> QED BY <1>1, <1>2, <2>1, <2>3 DEF IndInv, RoomInv
<1> QED BY <1>4, <1>5 DEF RoomInv, MatrixWithinLimit, Matrix

LEMMA NextInv == IndInv /\ [Next]_vars => IndInv'
<1> SUFFICES ASSUME IndInv, [Next]_vars PROVE IndInv'
  OBVIOUS
<1>1. TypeOK' /\ LockInv' /\ CreatedInv'
  BY TypeStep, LockStep, CreatedStep DEF IndInv
<1>2. CASE \E w \in Workers : ClaimCommits(w)
  BY <1>1, <1>2, CommitStep DEF IndInv
<1>3. CASE \A w \in Workers : ~ClaimCommits(w)
  BY <1>1, <1>3, QuietStep DEF IndInv
<1> QED BY <1>2, <1>3

\* The rows and the workers of any number of batches stay in range.
THEOREM BatchTypeCorrect == Spec => []TypeOK
  BY InitInv, NextInv, PTL DEF Spec, IndInv

\* The limit of a batch that came with its runs holds whatever its children, the
\* other batches and any number of workers do.
THEOREM LimitIsRespected == Spec => []MatrixWithinLimit
  BY InitInv, NextInv, PTL DEF Spec, IndInv

-----------------------------------------------------------------------------
(* The parent. A finished batch stays true because terminal runs are final: *)
(* whoever is about to write a run has locked it or is its only executor.    *)

\* A run that is being started is queued, one that is being executed runs, and
\* nobody else starts or executes it.
OwnInv ==
  /\ \A w \in Workers :
       /\ pc[w] = "starting" => run[target[w]] = "queued"
       /\ pc[w] = "executing" => run[target[w]] = "running"
  /\ \A v, w \in Workers :
       v # w /\ {pc[v], pc[w]} \subseteq {"starting", "executing"} => target[v] # target[w]

\* A sealed batch has children.
Populated == \A b \in Batches : status[b] # "absent" => Children(b) # {}

ParentInv == OwnInv /\ Populated /\ ParentMatchesChildren

LEMMA OwnStep == IndInv /\ OwnInv /\ [Next]_vars => OwnInv'
<1> SUFFICES ASSUME IndInv, OwnInv, [Next]_vars PROVE OwnInv'
  OBVIOUS
<1> USE BatchAssumption DEF IndInv, TypeOK, LockInv, OwnInv, rows, queue, workers
<1>1. ASSUME NEW r \in Runs, CreateRun(r) \/ CancelQueued(r) \/ DropDelivery(r)
      PROVE  OwnInv'
  BY <1>1 DEF CreateRun, CancelQueued, DropDelivery, RunUnlocked
<1>2. ASSUME NEW b \in Batches, NEW children \in SUBSET Runs, NEW n \in 1..MaxRuns,
             CreateBatch(b, children, n) \/ CreateMatrix(b, children, n)
      PROVE  OwnInv'
  <2>1. workers' = workers /\ \A r \in Runs : run[r] # "absent" => run'[r] = run[r]
    BY <1>2 DEF CreateBatch, CreateMatrix
  <2> QED BY <2>1
<1>3. ASSUME NEW b \in Batches, Refresh(b) PROVE OwnInv'
  BY <1>3 DEF Refresh
<1>4. ASSUME NEW w \in Workers, NEW r \in Runs, LookupBatch(w, r) PROVE OwnInv'
  BY <1>4 DEF LookupBatch
<1>5. ASSUME NEW w \in Workers, ClaimAdmitted(w) PROVE OwnInv'
  BY <1>5 DEF ClaimAdmitted, RunUnlocked
<1>6. ASSUME NEW w \in Workers, ClaimCommits(w) PROVE OwnInv'
  BY <1>6 DEF ClaimCommits
<1>7. ASSUME NEW w \in Workers, Stop(w), run' = run PROVE OwnInv'
  BY <1>7 DEF Stop
<1>8. ASSUME NEW w \in Workers, ClaimDeferred(w) \/ ClaimRefused(w) \/ Crash(w)
      PROVE  OwnInv'
  BY <1>7, <1>8 DEF ClaimDeferred, ClaimRefused, Crash
<1>9. ASSUME NEW w \in Workers,
             RequeueRun(w) \/ \E outcome \in Terminal : FinishRun(w, outcome)
      PROVE  OwnInv'
  <2>1. /\ pc[w] = "executing" /\ Stop(w)
        /\ \A r \in Runs : r # target[w] => run'[r] = run[r]
    BY <1>9 DEF RequeueRun, FinishRun
  <2>2. \A v \in Workers : v # w => pc'[v] = pc[v] /\ target'[v] = target[v]
    BY <2>1 DEF Stop
  <2>3. pc'[w] = "idle"
    BY <2>1 DEF Stop
  <2> QED BY <2>1, <2>2, <2>3
<1>10. CASE UNCHANGED vars
  BY <1>10 DEF vars
<1> QED BY <1>1, <1>2, <1>3, <1>4, <1>5, <1>6, <1>8, <1>9, <1>10 DEF Next, ApiStep, WorkerStep

\* Only the creation of a batch links runs, and it links runs that are in none.
LEMMA LinkStep ==
  ASSUME IndInv, [Next]_vars
  PROVE  \/ member' = member
         \/ \E b \in Batches, children \in SUBSET Runs, n \in 1..MaxRuns :
              /\ Seal(b, children, n)
              /\ \A r \in children : /\ member[r] = None /\ run'[r] = "queued"
                                     /\ run[r] \in {"absent", "queued"}
              /\ \A r \in Runs : run[r] # "absent" => run'[r] = run[r]
              /\ \A r \in Runs : run'[r] = "running" => run[r] = "running"
<1> USE BatchAssumption DEF IndInv, TypeOK, rows, queue, workers
<1>1. ASSUME NEW b \in Batches, NEW children \in SUBSET Runs, NEW n \in 1..MaxRuns,
             CreateBatch(b, children, n)
      PROVE  /\ Seal(b, children, n)
             /\ \A r \in children : /\ member[r] = None /\ run'[r] = "queued"
                                    /\ run[r] \in {"absent", "queued"}
             /\ run' = run
  BY <1>1 DEF CreateBatch
<1>2. ASSUME NEW b \in Batches, NEW children \in SUBSET Runs, NEW n \in 1..MaxRuns,
             CreateMatrix(b, children, n)
      PROVE  /\ Seal(b, children, n)
             /\ \A r \in children : /\ member[r] = None /\ run'[r] = "queued"
                                    /\ run[r] \in {"absent", "queued"}
             /\ \A r \in Runs : run[r] # "absent" => run'[r] = run[r]
             /\ \A r \in Runs : run'[r] = "running" => run[r] = "running"
  BY <1>2 DEF CreateMatrix, CreatedInv
<1>3. CASE \/ \E r \in Runs : CreateRun(r) \/ CancelQueued(r) \/ DropDelivery(r)
           \/ \E b \in Batches : Refresh(b)
           \/ UNCHANGED vars
  BY <1>3 DEF CreateRun, CancelQueued, DropDelivery, Refresh, vars
<1>4. CASE \E w \in Workers : WorkerStep(w) \/ RequeueRun(w) \/ Crash(w)
  <2>1. ASSUME NEW w \in Workers, WorkerStep(w) PROVE member' = member
    BY <2>1 DEF WorkerStep, ClaimAdmitted, ClaimCommits, ClaimDeferred, ClaimRefused,
                LookupBatch, FinishRun
  <2>2. ASSUME NEW w \in Workers, RequeueRun(w) \/ Crash(w) PROVE member' = member
    BY <2>2 DEF RequeueRun, Crash
  <2> QED BY <1>4, <2>1, <2>2
<1>5. CASE \E b \in Batches, children \in SUBSET Runs, n \in 1..MaxRuns :
             CreateBatch(b, children, n) \/ CreateMatrix(b, children, n)
  BY <1>1, <1>2, <1>5
<1> QED BY <1>3, <1>4, <1>5 DEF Next, ApiStep

\* What a batch is sealed with is not empty.
LEMMA SealedNotEmpty ==
  ASSUME NEW b, NEW children, NEW n, Seal(b, children, n)
  PROVE  children # {}
<1>1. Cardinality({}) = 0
  BY FS_EmptySet
<1> QED BY <1>1, BatchAssumption DEF Seal

LEMMA PopulatedStep == IndInv /\ Populated /\ [Next]_vars => Populated'
<1> SUFFICES ASSUME IndInv, Populated, [Next]_vars, NEW a \in Batches, status'[a] # "absent"
             PROVE  Children(a)' # {}
  BY DEF Populated
<1> USE BatchAssumption DEF IndInv, TypeOK, Children, rows, queue, workers
<1>1. CASE member' = member /\ status[a] # "absent"
  BY <1>1 DEF Populated
<1>2. CASE member' = member /\ status[a] = "absent"
  <2>1. CASE \/ \E r \in Runs : CreateRun(r) \/ CancelQueued(r) \/ DropDelivery(r)
             \/ UNCHANGED vars
    BY <1>2, <2>1 DEF CreateRun, CancelQueued, DropDelivery, vars
  <2>2. CASE \E b \in Batches : Refresh(b)
    BY <1>2, <2>2 DEF Refresh
  <2>3. CASE \E w \in Workers : WorkerStep(w) \/ RequeueRun(w) \/ Crash(w)
    BY <1>2, <2>3 DEF WorkerStep, ClaimAdmitted, ClaimCommits, ClaimDeferred, ClaimRefused,
                LookupBatch, FinishRun, RequeueRun, Crash, Started
  <2>4. ASSUME NEW b \in Batches, NEW children \in SUBSET Runs, NEW n \in 1..MaxRuns,
               Seal(b, children, n)
        PROVE  FALSE
    <3>1. PICK r \in children : TRUE
      BY <2>4, SealedNotEmpty
    <3>2. b # a => status'[a] = "absent"
      BY <1>2, <2>4 DEF Seal
    <3>3. member[r] = b
      BY <1>2, <2>4, <3>1 DEF Seal
    <3> QED BY <1>2, <3>2, <3>3 DEF CreatedInv
  <2>5. CASE \E b \in Batches, children \in SUBSET Runs, n \in 1..MaxRuns :
               CreateBatch(b, children, n) \/ CreateMatrix(b, children, n)
    BY <2>4, <2>5 DEF CreateBatch, CreateMatrix
  <2> QED BY <2>1, <2>2, <2>3, <2>5 DEF Next, ApiStep
<1>3. ASSUME NEW b \in Batches, NEW children \in SUBSET Runs, NEW n \in 1..MaxRuns,
             Seal(b, children, n), \A r \in children : member[r] = None
      PROVE  Children(a)' # {}
  <2>1. PICK r \in children : TRUE
    BY <1>3, SealedNotEmpty
  <2>2. CASE b = a
    BY <1>3, <2>1, <2>2 DEF Seal
  <2>3. CASE b # a
    <3>1. status[a] # "absent"
      BY <1>3, <2>3 DEF Seal
    <3>2. PICK s \in Runs : member[s] = a
      BY <3>1 DEF Populated
    <3>3. member'[s] = a
      BY <1>3, <3>2 DEF Seal
    <3> QED BY <3>2, <3>3
  <2> QED BY <2>2, <2>3
<1> QED BY <1>1, <1>2, <1>3, LinkStep

\* A terminal run is final.
LEMMA TerminalRunStep ==
  ASSUME IndInv, OwnInv, [Next]_vars, NEW r \in Runs, run[r] \in Terminal
  PROVE  run'[r] = run[r]
<1> USE DEF IndInv, TypeOK, OwnInv, Terminal, rows, queue, workers
<1>1. CASE \E s \in Runs : CreateRun(s) \/ CancelQueued(s) \/ DropDelivery(s)
  BY <1>1 DEF CreateRun, CancelQueued, DropDelivery
<1>2. CASE \E b \in Batches, children \in SUBSET Runs, n \in 1..MaxRuns :
             CreateBatch(b, children, n) \/ CreateMatrix(b, children, n)
  BY <1>2 DEF CreateBatch, CreateMatrix
<1>3. CASE \E b \in Batches : Refresh(b)
  BY <1>3 DEF Refresh
<1>4. ASSUME NEW w \in Workers, WorkerStep(w) \/ RequeueRun(w) \/ Crash(w)
      PROVE  run'[r] = run[r]
  BY <1>4 DEF WorkerStep, ClaimAdmitted, ClaimCommits, ClaimDeferred, ClaimRefused,
              LookupBatch, FinishRun, RequeueRun, Crash, LockInv
<1>5. CASE UNCHANGED vars
  BY <1>5 DEF vars
<1> QED BY <1>1, <1>2, <1>3, <1>4, <1>5 DEF Next, ApiStep

\* The children of a sealed batch stay the same.
LEMMA ChildrenFrozen ==
  ASSUME IndInv, [Next]_vars, NEW a \in Batches, status[a] # "absent"
  PROVE  Children(a)' = Children(a)
<1> USE BatchAssumption DEF Children
<1>1. CASE member' = member
  BY <1>1
<1>2. ASSUME NEW b \in Batches, NEW children \in SUBSET Runs, NEW n \in 1..MaxRuns,
             Seal(b, children, n), \A r \in children : member[r] = None
      PROVE  Children(a)' = Children(a)
  <2>1. a # b /\ a # None
    BY <1>2 DEF Seal
  <2>2. \A r \in Runs : (member'[r] = a) = (member[r] = a)
    BY <1>2, <2>1 DEF Seal
  <2> QED BY <2>2
<1> QED BY <1>1, <1>2, LinkStep

\* A parent is settled by refresh alone, with the aggregate of its children.
LEMMA SettleStep ==
  ASSUME IndInv, [Next]_vars, NEW a \in Batches,
         status'[a] \in Terminal, status[a] \notin Terminal
  PROVE  Refresh(a) /\ SettledChildren(a) /\ status'[a] = Aggregate(a)
<1> USE DEF IndInv, TypeOK, Terminal, rows, queue, workers
<1>1. CASE \/ \E r \in Runs : CreateRun(r) \/ CancelQueued(r) \/ DropDelivery(r)
           \/ UNCHANGED vars
  BY <1>1 DEF CreateRun, CancelQueued, DropDelivery, vars
<1>2. CASE \E b \in Batches, children \in SUBSET Runs, n \in 1..MaxRuns :
             CreateBatch(b, children, n) \/ CreateMatrix(b, children, n)
  BY <1>2 DEF CreateBatch, CreateMatrix, Seal
<1>3. ASSUME NEW b \in Batches, Refresh(b)
      PROVE  Refresh(a) /\ SettledChildren(a) /\ status'[a] = Aggregate(a)
  <2>1. b = a
    BY <1>3 DEF Refresh
  <2>2. status[a] \in {"queued", "running"}
    BY <1>3, <2>1 DEF Refresh
  <2>3. CASE ~SettledChildren(a)
    BY <1>3, <2>1, <2>2, <2>3 DEF Refresh
  <2>4. CASE SettledChildren(a)
    BY <1>3, <2>1, <2>4 DEF Refresh
  <2> QED BY <2>3, <2>4
<1>4. ASSUME NEW w \in Workers, WorkerStep(w) \/ RequeueRun(w) \/ Crash(w)
      PROVE  status'[a] = status[a] \/ status'[a] = "running"
  BY <1>4 DEF WorkerStep, ClaimAdmitted, ClaimCommits, ClaimDeferred, ClaimRefused,
              LookupBatch, FinishRun, RequeueRun, Crash, Started
<1> QED BY <1>1, <1>2, <1>3, <1>4 DEF Next, ApiStep

\* A finished parent is not touched again.
LEMMA ParentFrozen ==
  ASSUME IndInv, [Next]_vars, NEW a \in Batches, status[a] \in Terminal
  PROVE  status'[a] = status[a]
<1> USE DEF IndInv, TypeOK, Terminal, rows, queue, workers
<1>1. CASE \/ \E r \in Runs : CreateRun(r) \/ CancelQueued(r) \/ DropDelivery(r)
           \/ UNCHANGED vars
  BY <1>1 DEF CreateRun, CancelQueued, DropDelivery, vars
<1>2. CASE \E b \in Batches, children \in SUBSET Runs, n \in 1..MaxRuns :
             CreateBatch(b, children, n) \/ CreateMatrix(b, children, n)
  BY <1>2 DEF CreateBatch, CreateMatrix, Seal
<1>3. CASE \E b \in Batches : Refresh(b)
  BY <1>3 DEF Refresh
<1>4. ASSUME NEW w \in Workers, WorkerStep(w) \/ RequeueRun(w) \/ Crash(w)
      PROVE  status'[a] = status[a]
  BY <1>4 DEF WorkerStep, ClaimAdmitted, ClaimCommits, ClaimDeferred, ClaimRefused,
              LookupBatch, FinishRun, RequeueRun, Crash, Started
<1> QED BY <1>1, <1>2, <1>3, <1>4 DEF Next, ApiStep

\* The aggregate of terminal children, of which there is at least one.
LEMMA AggregateIsTrue ==
  ASSUME NEW b, ChildStatuses(b) \subseteq Terminal, ChildStatuses(b) # {}
  PROVE  /\ (Aggregate(b) = "failed") = ("failed" \in ChildStatuses(b))
         /\ (Aggregate(b) = "succeeded") = (ChildStatuses(b) = {"succeeded"})
<1> DEFINE c == ChildStatuses(b)
<1>1. CASE "failed" \in c
  BY <1>1 DEF Aggregate
<1>2. CASE "failed" \notin c /\ "cancelled" \in c
  BY <1>2 DEF Aggregate
<1>3. CASE "failed" \notin c /\ "cancelled" \notin c
  <2>1. c = {"succeeded"}
    BY <1>3 DEF Terminal
  <2> QED BY <1>3, <2>1 DEF Aggregate
<1> QED BY <1>1, <1>2, <1>3

LEMMA FinishedStep ==
  ASSUME IndInv, ParentInv, [Next]_vars, NEW a \in Batches, status'[a] \in Terminal
  PROVE  /\ ChildStatuses(a)' \subseteq Terminal
         /\ (status'[a] = "failed") = ("failed" \in ChildStatuses(a)')
         /\ (status'[a] = "succeeded") = (ChildStatuses(a)' = {"succeeded"})
<1>1. CASE status[a] \in Terminal
  <2>1. status[a] # "absent" /\ ChildStatuses(a) \subseteq Terminal
    BY <1>1 DEF ParentInv, ParentMatchesChildren, Terminal
  <2>2. Children(a)' = Children(a)
    BY <2>1, ChildrenFrozen
  <2>3. \A r \in Children(a) : r \in Runs /\ run[r] \in Terminal
    BY <2>1 DEF ChildStatuses, Children
  <2>4. \A r \in Children(a) : run'[r] = run[r]
    BY <2>3, TerminalRunStep DEF ParentInv
  <2>5. ChildStatuses(a)' = ChildStatuses(a)
    BY <2>2, <2>4 DEF ChildStatuses
  <2>6. status'[a] = status[a]
    BY <1>1, ParentFrozen
  <2> QED BY <1>1, <2>5, <2>6 DEF ParentInv, ParentMatchesChildren
<1>2. CASE status[a] \notin Terminal
  <2>1. Refresh(a) /\ SettledChildren(a) /\ status'[a] = Aggregate(a)
    BY <1>2, SettleStep
  <2>2. ChildStatuses(a)' = ChildStatuses(a)
    BY <2>1 DEF Refresh, ChildStatuses, Children
  <2>3. ChildStatuses(a) # {} /\ ChildStatuses(a) \subseteq Terminal
    BY <2>1 DEF Refresh, SettledChildren, ChildStatuses, ParentInv, Populated
  <2> QED BY <2>1, <2>2, <2>3, AggregateIsTrue
<1> QED BY <1>1, <1>2

\* A batch that came with its runs and still waits has no running child: the
\* commit of a claim changes run and parent together, under the parent's lock.
LEMMA WaitingStep ==
  ASSUME IndInv, ParentInv, [Next]_vars, NEW a \in Matrix, status'[a] = "queued"
  PROVE  ActiveChildren(a)' = {}
<1> USE BatchAssumption
<1>0. a \in Batches /\ a # None
  BY DEF Matrix
<1>1. CASE \A w \in Workers : ~ClaimCommits(w)
  <2>1. ActiveChildren(a)' \subseteq ActiveChildren(a)
    BY <1>1, ShrinkStep DEF IndInv, Shrinks
  <2>2. CASE status[a] = "queued"
    BY <1>0, <2>1, <2>2 DEF ParentInv, ParentMatchesChildren, Matrix
  <2>3. CASE status[a] = "absent"
    <3>1. Children(a) = {}
      BY <2>3, <1>0 DEF IndInv, CreatedInv, Children
    <3> QED BY <2>1, <3>1 DEF ActiveChildren
  <2>4. CASE status[a] \in Terminal
    BY <1>0, <2>4, ParentFrozen DEF Terminal
  <2>5. CASE status[a] = "running"
    <3> USE <1>0, <2>5 DEF IndInv, TypeOK, rows, queue, workers
    <3>1. CASE \/ \E r \in Runs : CreateRun(r) \/ CancelQueued(r) \/ DropDelivery(r)
               \/ UNCHANGED vars
      BY <3>1 DEF CreateRun, CancelQueued, DropDelivery, vars
    <3>2. CASE \E b \in Batches, children \in SUBSET Runs, n \in 1..MaxRuns :
                 CreateBatch(b, children, n) \/ CreateMatrix(b, children, n)
      BY <3>2 DEF CreateBatch, CreateMatrix, Seal
    <3>3. ASSUME NEW b \in Batches, Refresh(b) PROVE FALSE
      <4>1. Aggregate(b) # "queued"
        BY DEF Aggregate
      <4> QED BY <3>3, <4>1 DEF Refresh
    <3>4. CASE \E w \in Workers : WorkerStep(w) \/ RequeueRun(w) \/ Crash(w)
      BY <3>4 DEF WorkerStep, ClaimAdmitted, ClaimCommits, ClaimDeferred, ClaimRefused,
                  LookupBatch, FinishRun, RequeueRun, Crash, Started
    <3> QED BY <3>1, <3>2, <3>3, <3>4 DEF Next, ApiStep
  <2>6. status[a] \in BatchStatuses
    BY <1>0 DEF IndInv, TypeOK
  <2> QED BY <2>2, <2>3, <2>4, <2>5, <2>6 DEF BatchStatuses
<1>2. ASSUME NEW w \in Workers, ClaimCommits(w) PROVE ActiveChildren(a)' = {}
  <2>1. /\ target[w] \in Runs /\ pc[w] = "starting"
        /\ run' = [run EXCEPT ![target[w]] = "running"]
        /\ member' = member /\ status' = Started(held[w])
    BY <1>2 DEF ClaimCommits, IndInv, LockInv
  <2>2. status[a] = "queued" /\ held[w] # a
    BY <1>0, <2>1 DEF Started, IndInv, TypeOK
  <2>3. member[target[w]] # a
    BY <2>1, <2>2 DEF IndInv, LockInv, Claiming
  <2>4. ActiveChildren(a) = {}
    BY <1>0, <2>2 DEF ParentInv, ParentMatchesChildren, Matrix
  <2> QED BY <2>1, <2>3, <2>4 DEF IndInv, TypeOK, ActiveChildren, Children
<1> QED BY <1>1, <1>2

LEMMA ParentInit == Init => ParentInv
<1> SUFFICES ASSUME Init PROVE ParentInv
  OBVIOUS
<1>1. OwnInv
  BY DEF Init, OwnInv
<1>2. Populated
  BY DEF Init, Populated
<1>3. ParentMatchesChildren
  BY DEF Init, ParentMatchesChildren, Terminal
<1> QED BY <1>1, <1>2, <1>3 DEF ParentInv

LEMMA ParentStep == IndInv /\ ParentInv /\ [Next]_vars => ParentInv'
<1> SUFFICES ASSUME IndInv, ParentInv, [Next]_vars PROVE ParentInv'
  OBVIOUS
<1>1. OwnInv'
  BY OwnStep DEF ParentInv
<1>2. Populated'
  BY PopulatedStep DEF ParentInv
<1>3. ParentMatchesChildren'
  BY FinishedStep, WaitingStep DEF ParentMatchesChildren, Matrix
<1> QED BY <1>1, <1>2, <1>3 DEF ParentInv

\* The parent's status agrees with the children and, once it is terminal, is true
\* for ever, whatever workers and clients do to any number of runs and batches.
THEOREM ParentAgreesWithChildren == Spec => []ParentMatchesChildren
<1>1. IndInv /\ ParentInv /\ [Next]_vars => (IndInv /\ ParentInv)'
  BY NextInv, ParentStep
<1>2. Init => IndInv /\ ParentInv
  BY InitInv, ParentInit
<1>3. IndInv /\ ParentInv => ParentMatchesChildren
  BY DEF ParentInv
<1> QED BY <1>1, <1>2, <1>3, PTL DEF Spec

\* A run joins at most one batch, while it is queued, and never leaves it.
THEOREM MembershipIsFrozen == Spec => MembershipFrozen
<1>1. ASSUME IndInv, [Next]_vars, NEW r \in Runs, member'[r] # member[r]
      PROVE  member[r] = None /\ run'[r] = "queued" /\ run[r] \in {"absent", "queued"}
  <2>1. PICK b \in Batches, children \in SUBSET Runs, n \in 1..MaxRuns :
          /\ Seal(b, children, n)
          /\ \A s \in children : /\ member[s] = None /\ run'[s] = "queued"
                                 /\ run[s] \in {"absent", "queued"}
    BY <1>1, LinkStep
  <2>2. r \in children
    BY <1>1, <2>1 DEF Seal, IndInv, TypeOK
  <2> QED BY <2>1, <2>2
<1>2. IndInv /\ [Next]_vars =>
        [\A r \in Runs : member'[r] # member[r] =>
           /\ member[r] = None /\ run'[r] = "queued"
           /\ run[r] \in {"absent", "queued"}]_vars
  BY <1>1
<1> QED BY <1>2, InitInv, NextInv, PTL DEF Spec, MembershipFrozen
=============================================================================
