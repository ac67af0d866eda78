---------------------------- MODULE JobQueueProofs ----------------------------
(***************************************************************************)
(* The capacity of generations and the uniqueness of repeated requests,    *)
(* for any number of jobs, clients and dispatchers, and the safety part of *)
(* the delivery contract.  What a request has counted and looked up under  *)
(* the project's lock is still true when it commits.                       *)
(***************************************************************************)
EXTENDS JobQueue, FiniteSetTheorems, TLAPS

\* At most one request is between its checks and its commit.
OneAdmission ==
  \A s, t \in Submitters : pc[s] = "admitted" /\ pc[t] = "admitted" => s = t

\* The numbers in use are an initial segment.
Dense == \E n \in Nat : Created = 1..n

\* What an admitted request has found still holds.
StillFits ==
  \A s \in Submitters : pc[s] = "admitted" =>
    /\ req[s].kind # "exact"
    /\ Existing(req[s]) = {}
    /\ req[s].class = "generation" =>
         Cardinality(Admitted) + Additional(req[s]) <= Capacity["generation"]

IndInv ==
  /\ TypeOK /\ OneAdmission /\ Dense /\ StillFits
  /\ GenerationWithinLimit /\ NoDuplicateWork

-----------------------------------------------------------------------------
\* The sets of jobs are finite.
LEMMA JobsFinite ==
  ASSUME NEW S \in SUBSET Ids
  PROVE  IsFiniteSet(S) /\ Cardinality(S) \in Nat
<1>1. IsFiniteSet(Ids)
  BY QueueAssumption, FS_Interval DEF Ids
<1> QED BY <1>1, FS_Subset, FS_CardinalityType

\* A smaller set of jobs does not count more.
LEMMA JobsShrink ==
  ASSUME NEW S \in SUBSET Ids, NEW T \in SUBSET S
  PROVE  Cardinality(T) <= Cardinality(S)
BY JobsFinite, FS_Subset

\* Adding a jobs to a set adds at most a to its cardinality.
LEMMA JobsGrow ==
  ASSUME NEW S \in SUBSET Ids, NEW n \in Nat, NEW a \in Nat,
         (n + 1)..(n + a) \subseteq Ids,
         NEW T \in SUBSET (S \cup ((n + 1)..(n + a)))
  PROVE  Cardinality(T) <= Cardinality(S) + a
<1> DEFINE new == (n + 1)..(n + a)
<1>1. IsFiniteSet(new) /\ Cardinality(new) = a
  BY FS_Interval
<1>2. IsFiniteSet(S) /\ Cardinality(S) \in Nat
  BY JobsFinite
<1>3. S \cap new \in SUBSET Ids
  OBVIOUS
<1> HIDE DEF new
<1>4. Cardinality(S \cup new) = Cardinality(S) + a - Cardinality(S \cap new)
  BY <1>1, <1>2, FS_Union
<1>5. Cardinality(S \cap new) \in Nat
  BY <1>3, JobsFinite
<1>6. S \cup new \in SUBSET Ids /\ T \in SUBSET (S \cup new)
  BY DEF new
<1>7. Cardinality(T) <= Cardinality(S \cup new)
  BY <1>6, JobsShrink
<1>8. Cardinality(T) \in Nat
  BY <1>6, JobsFinite
<1> QED BY <1>2, <1>4, <1>5, <1>7, <1>8

\* The requests the services make are requests.
LEMMA RequestTypes ==
  /\ NoRequest \in Requests
  /\ \A j \in Ids : Request("exact", "generation", "none", j) \in Requests
  /\ \A r \in Requests : r.kind \in {"retry", "submit"} => Additional(r) = 1
  /\ \A r \in Requests : Additional(r) \in Nat
  /\ \A r \in Requests : r.kind = "retry" => r.class = "generation"
BY QueueAssumption DEF NoRequest, Request, Requests, Additional

-----------------------------------------------------------------------------
LEMMA InitInv == Init => IndInv
<1> SUFFICES ASSUME Init PROVE IndInv
  OBVIOUS
<1>1. TypeOK
  BY QueueAssumption, RequestTypes DEF Init, TypeOK, Active, Terminal
<1>2. Created = {}
  BY DEF Init, Created
<1>3. Dense
  BY <1>2 DEF Dense
<1>4. Admitted = {}
  BY DEF Init, Admitted, ActiveOf, ActiveJobs, Active
<1>5. GenerationWithinLimit
  BY <1>4, FS_EmptySet, QueueAssumption DEF GenerationWithinLimit, Classes
<1>6. OneAdmission /\ StillFits
  BY DEF Init, OneAdmission, StillFits
<1>7. NoDuplicateWork
  BY <1>2 DEF NoDuplicateWork
<1> QED BY <1>1, <1>3, <1>5, <1>6, <1>7 DEF IndInv

\* Steps of dispatchers change neither jobs nor requests.
Relaying ==
  \/ \E d \in Dispatchers :
       \/ \E js \in SUBSET Waiting : Scan(d, js)
       \/ \E j \in Ids : Enqueue(d, j) \/ EnqueueFails(d, j)
       \/ CommitBatch(d) \/ DispatcherCrash(d) \/ PollElapses(d)
  \/ \E j \in Ids : BackoffElapses(j)

\* The actions, by what they do to the jobs.
LEMMA NextSplit ==
  ASSUME [Next]_vars
  PROVE  \/ \E s \in Submitters, r \in Requests : Admit(s, r)
         \/ \E s \in Submitters : Commit(s)
         \/ \E s \in Submitters : Rollback(s)
         \/ \E j \in Ids : ExactRerun(j)
         \/ Work
         \/ Relaying
         \/ UNCHANGED vars
BY DEF Next, Submit, Dispatch, Relaying

LEMMA InsertType ==
  ASSUME TypeOK, NEW r \in Requests, Insert(r)
  PROVE  /\ status' \in [Ids -> {"none"} \cup Active \cup Terminal]
         /\ origin' \in [Ids -> Requests]
         /\ outbox' \in [Ids -> {"none", "pending", "dispatched"}]
BY DEF TypeOK, Insert, Active

LEMMA TypeStep == TypeOK /\ [Next]_vars => TypeOK'
<1> SUFFICES ASSUME TypeOK, [Next]_vars PROVE TypeOK'
  OBVIOUS
<1> USE DEF jobs, rows, queue, api, daemon, vars
<1>1. ASSUME NEW s \in Submitters, NEW r \in Requests, Admit(s, r) PROVE TypeOK'
  BY <1>1 DEF TypeOK, Admit
<1>2. ASSUME NEW s \in Submitters, Commit(s) PROVE TypeOK'
  <2>1. req[s] \in Requests /\ Insert(req[s])
    BY <1>2 DEF TypeOK, Commit
  <2>2. /\ pc' \in [Submitters -> {"idle", "admitted"}]
        /\ req' \in [Submitters -> Requests]
    BY <1>2, RequestTypes DEF TypeOK, Commit
  <2>3. UNCHANGED <<attempts, due, queue, daemon, crashes>>
    BY <2>1 DEF Insert
  <2> QED BY <2>1, <2>2, <2>3, InsertType DEF TypeOK
<1>3. ASSUME NEW s \in Submitters, Rollback(s) PROVE TypeOK'
  BY <1>3, RequestTypes DEF TypeOK, Rollback
<1>4. ASSUME NEW j \in Ids, ExactRerun(j) PROVE TypeOK'
  <2> DEFINE r == Request("exact", "generation", "none", j)
  <2>1. r \in Requests /\ Insert(r)
    BY <1>4, RequestTypes DEF ExactRerun
  <2>2. UNCHANGED <<attempts, due, queue, daemon, crashes, api>>
    BY <1>4, <2>1 DEF Insert, ExactRerun
  <2> HIDE DEF r
  <2> QED BY <2>1, <2>2, InsertType DEF TypeOK
<1>5. CASE Work
  <2> USE DEF TypeOK, Active, Terminal
  <2>1. PICK j \in Ids :
          \/ Claim(j) \/ Retry(j) \/ CancelQueued(j) \/ Consume(j) \/ ResultExpires(j)
          \/ \E outcome \in Terminal : Finish(j, outcome)
    BY <1>5 DEF Work
  <2>2. CASE Claim(j)
    <3>1. attempts[j] \in 0..MaxAttempts /\ attempts' = [attempts EXCEPT ![j] = @ + 1]
      BY <2>2 DEF Claim
    <3>2. attempts[j] < MaxAttempts
      BY <2>2 DEF Claim, Claimable
    <3>3. attempts' \in [Ids -> 0..MaxAttempts]
      BY <3>1, <3>2, QueueAssumption
    <3> QED BY <2>2, <3>3 DEF Claim
  <2>3. CASE Retry(j) \/ CancelQueued(j)
    BY <2>3 DEF Retry, CancelQueued
  <2>4. CASE Consume(j) \/ ResultExpires(j)
    BY <2>4 DEF Consume, ResultExpires
  <2>5. ASSUME NEW outcome \in Terminal, Finish(j, outcome) PROVE TypeOK'
    BY <2>5 DEF Finish
  <2> QED BY <2>1, <2>2, <2>3, <2>4, <2>5
<1>6. CASE Relaying
  <2>1. ASSUME NEW j \in Ids, BackoffElapses(j) PROVE TypeOK'
    BY <2>1 DEF TypeOK, BackoffElapses
  <2>2. ASSUME NEW d \in Dispatchers, NEW js \in SUBSET Waiting, Scan(d, js) PROVE TypeOK'
    BY <2>2 DEF TypeOK, Scan, Waiting
  <2>3. ASSUME NEW d \in Dispatchers, NEW j \in Ids, Enqueue(d, j) \/ EnqueueFails(d, j)
        PROVE TypeOK'
    BY <2>3 DEF TypeOK, Enqueue, EnqueueFails, Accepted
  <2>4. ASSUME NEW d \in Dispatchers, CommitBatch(d) PROVE TypeOK'
    BY <2>4 DEF TypeOK, CommitBatch, MarkRows, Release
  <2>5. ASSUME NEW d \in Dispatchers, DispatcherCrash(d) PROVE TypeOK'
    BY <2>5, QueueAssumption DEF TypeOK, DispatcherCrash, Release
  <2>6. ASSUME NEW d \in Dispatchers, PollElapses(d) PROVE TypeOK'
    BY <2>6 DEF TypeOK, PollElapses
  <2> QED BY <1>6, <2>1, <2>2, <2>3, <2>4, <2>5, <2>6 DEF Relaying
<1>7. CASE UNCHANGED vars
  BY <1>7 DEF TypeOK
<1> QED BY <1>1, <1>2, <1>3, <1>4, <1>5, <1>6, <1>7, NextSplit

-----------------------------------------------------------------------------
(* Steps that insert. *)

\* The jobs inserted are the next numbers, and none of them existed.
LEMMA InsertRows ==
  ASSUME TypeOK, Dense, NEW r \in Requests, Insert(r)
  PROVE  \E n \in Nat :
           /\ Created = 1..n /\ (n + 1)..(n + Additional(r)) \subseteq Ids
           /\ Created' = 1..(n + Additional(r))
           /\ \A j \in Ids : j \in (n + 1)..(n + Additional(r)) =>
                /\ status[j] = "none" /\ status'[j] = "queued" /\ origin'[j] = r
           /\ \A j \in Ids : j \notin (n + 1)..(n + Additional(r)) =>
                /\ status'[j] = status[j] /\ origin'[j] = origin[j]
<1>1. PICK n \in Nat : Created = 1..n
  BY DEF Dense
<1>2. Cardinality(Created) = n
  BY <1>1, FS_Interval
<1> DEFINE a == Additional(r)  new == (n + 1)..(n + a)
<1>3. a \in Nat
  BY RequestTypes
<1> HIDE DEF a
<1>4. new = (n + 1)..(n + 1 + a - 1)
  BY <1>3
<1>5. new \subseteq Ids
  BY <1>2, <1>4 DEF Insert, a
<1>6. /\ status' = [j \in Ids |-> IF j \in new THEN "queued" ELSE status[j]]
      /\ origin' = [j \in Ids |-> IF j \in new THEN r ELSE origin[j]]
  BY <1>2, <1>4 DEF Insert, a
<1>7. \A j \in new : j \notin 1..n
  BY <1>3
<1>8. \A j \in Ids : j \in new => status[j] = "none"
  BY <1>1, <1>7 DEF Created
<1>9. Created' = 1..(n + a)
  <2>1. 1..(n + a) = 1..n \cup new
    BY <1>3
  <2>2. Created' = Created \cup new
    BY <1>5, <1>6 DEF Created
  <2> QED BY <1>1, <2>1, <2>2
<1> QED BY <1>1, <1>5, <1>6, <1>8, <1>9 DEF a

\* The admitted generations grow by at most the jobs inserted, and not at all when
\* these are of another class or exact reruns.
LEMMA InsertAdmitted ==
  ASSUME TypeOK, Dense, NEW r \in Requests, Insert(r)
  PROVE  /\ Cardinality(Admitted') <= Cardinality(Admitted) + Additional(r)
         /\ r.class # "generation" \/ r.kind = "exact" => Admitted' = Admitted
<1> DEFINE a == Additional(r)
<1>1. PICK n \in Nat :
        /\ Created = 1..n /\ (n + 1)..(n + a) \subseteq Ids
        /\ \A j \in Ids : j \in (n + 1)..(n + a) =>
             /\ status[j] = "none" /\ status'[j] = "queued" /\ origin'[j] = r
        /\ \A j \in Ids : j \notin (n + 1)..(n + a) =>
             /\ status'[j] = status[j] /\ origin'[j] = origin[j]
  BY InsertRows
<1>2. a \in Nat
  BY RequestTypes
<1> HIDE DEF a
<1>3. Admitted \in SUBSET Ids
  BY DEF Admitted, ActiveOf, ActiveJobs
<1>4. Admitted' \subseteq Admitted \cup ((n + 1)..(n + a))
  BY <1>1 DEF Admitted, ActiveOf, ActiveJobs
<1>5. Cardinality(Admitted') <= Cardinality(Admitted) + a
  BY <1>1, <1>2, <1>3, <1>4, JobsGrow
<1>6. r.class # "generation" \/ r.kind = "exact" => Admitted' = Admitted
  BY <1>1 DEF Admitted, ActiveOf, ActiveJobs, Active
<1> QED BY <1>5, <1>6 DEF a

\* What was inserted before keeps apart, and the new job is apart from it when
\* the request has found nothing.
LEMMA InsertApart ==
  ASSUME TypeOK, Dense, NoDuplicateWork, NEW r \in Requests, Insert(r),
         r.kind # "exact" => Existing(r) = {}
  PROVE  NoDuplicateWork'
<1> DEFINE a == Additional(r)
<1>1. PICK n \in Nat :
        /\ Created = 1..n /\ (n + 1)..(n + a) \subseteq Ids
        /\ Created' = 1..(n + a)
        /\ \A j \in Ids : j \in (n + 1)..(n + a) =>
             /\ status[j] = "none" /\ status'[j] = "queued" /\ origin'[j] = r
        /\ \A j \in Ids : j \notin (n + 1)..(n + a) =>
             /\ status'[j] = status[j] /\ origin'[j] = origin[j]
  BY InsertRows
<1>2. a \in Nat /\ (r.kind \in {"retry", "submit"} => a = 1)
  BY RequestTypes
<1> HIDE DEF a
<1> DEFINE Apart(x, y) ==
      /\ x.kind = "retry" => x.source # y.source
      /\ x.kind = "submit" => <<x.class, x.key>> # <<y.class, y.key>>
<1>3. ASSUME NEW j \in Created', NEW k \in Created', j # k,
             origin'[j].kind = origin'[k].kind
      PROVE  Apart(origin'[j], origin'[k])
  <2>0. j \in Ids /\ k \in Ids
    BY <1>3 DEF Created
  <2>1. CASE j \in 1..n /\ k \in 1..n
    <3>1. origin'[j] = origin[j] /\ origin'[k] = origin[k]
      BY <1>1, <1>2, <2>0, <2>1
    <3> QED BY <1>1, <1>3, <2>1, <3>1 DEF NoDuplicateWork
  <2>2. CASE j \in 1..n /\ k \notin 1..n
    <3>1. k \in (n + 1)..(n + a) /\ j \notin (n + 1)..(n + a)
      BY <1>1, <1>2, <1>3, <2>2
    <3>2. origin'[j] = origin[j] /\ origin'[k] = r
      BY <1>1, <2>0, <3>1
    <3>3. r.kind # "exact" => j \notin Existing(r)
      OBVIOUS
    <3> QED BY <1>1, <1>3, <2>2, <3>2, <3>3 DEF Existing
  <2>3. CASE j \notin 1..n /\ k \in 1..n
    <3>1. j \in (n + 1)..(n + a) /\ k \notin (n + 1)..(n + a)
      BY <1>1, <1>2, <1>3, <2>3
    <3>2. origin'[j] = r /\ origin'[k] = origin[k]
      BY <1>1, <2>0, <3>1
    <3>3. r.kind # "exact" => k \notin Existing(r)
      OBVIOUS
    <3> QED BY <1>1, <1>3, <2>3, <3>2, <3>3 DEF Existing
  <2>4. CASE j \notin 1..n /\ k \notin 1..n
    <3>1. j \in (n + 1)..(n + a) /\ k \in (n + 1)..(n + a)
      BY <1>1, <1>2, <1>3, <2>4
    <3>2. origin'[j] = r
      BY <1>1, <2>0, <3>1
    <3>3. a # 1
      BY <1>2, <1>3, <3>1
    <3> QED BY <1>2, <3>2, <3>3
  <2> QED BY <2>1, <2>2, <2>3, <2>4
<1> QED BY <1>3 DEF NoDuplicateWork

-----------------------------------------------------------------------------
\* Workers and cancellations make no generation active that was not.
LEMMA WorkShrinks ==
  ASSUME TypeOK, Work
  PROVE  /\ Created' = Created /\ origin' = origin /\ api' = api
         /\ Admitted' \subseteq Admitted
<1>1. PICK j \in Ids :
        \/ Claim(j) \/ Retry(j) \/ CancelQueued(j) \/ Consume(j) \/ ResultExpires(j)
        \/ \E outcome \in Terminal : Finish(j, outcome)
  BY DEF Work
<1> USE DEF TypeOK, Created, Admitted, ActiveOf, ActiveJobs, Active, Terminal, api
<1>2. CASE Claim(j)
  BY <1>2 DEF Claim, Claimable
<1>3. CASE Retry(j)
  BY <1>3 DEF Retry
<1>4. CASE CancelQueued(j)
  BY <1>4 DEF CancelQueued
<1>5. CASE Consume(j) \/ ResultExpires(j)
  BY <1>5 DEF Consume, ResultExpires, jobs
<1>6. ASSUME NEW outcome \in Terminal, Finish(j, outcome)
      PROVE  /\ Created' = Created /\ origin' = origin /\ api' = api
             /\ Admitted' \subseteq Admitted
  BY <1>6 DEF Finish
<1> QED BY <1>1, <1>2, <1>3, <1>4, <1>5, <1>6

\* Steps that insert nothing and admit nobody.
LEMMA QuietStep ==
  ASSUME IndInv, Created' = Created, origin' = origin, Admitted' \subseteq Admitted,
         req' = req \/ (\A s \in Submitters : pc'[s] # "admitted"),
         \A s \in Submitters : pc'[s] = "admitted" => pc[s] = "admitted"
  PROVE  OneAdmission' /\ Dense' /\ StillFits' /\ GenerationWithinLimit' /\ NoDuplicateWork'
<1>1. Admitted \in SUBSET Ids /\ Admitted' \in SUBSET Ids
  BY DEF Admitted, ActiveOf, ActiveJobs
<1>2. /\ Cardinality(Admitted') <= Cardinality(Admitted)
      /\ Cardinality(Admitted) \in Nat /\ Cardinality(Admitted') \in Nat
  BY <1>1, JobsShrink, JobsFinite
<1>3. Capacity["generation"] \in Nat
  BY QueueAssumption DEF Classes
<1>4. OneAdmission' /\ Dense' /\ NoDuplicateWork'
  BY DEF IndInv, OneAdmission, Dense, NoDuplicateWork
<1>5. GenerationWithinLimit'
  BY <1>2, <1>3 DEF IndInv, GenerationWithinLimit
<1>6. ASSUME NEW s \in Submitters, pc'[s] = "admitted"
      PROVE  /\ req'[s].kind # "exact" /\ Existing(req[s])' = {}
             /\ req'[s].class = "generation" =>
                  Cardinality(Admitted') + Additional(req'[s]) <= Capacity["generation"]
  <2>1. pc[s] = "admitted" /\ req' = req
    BY <1>6
  <2>2. /\ req[s].kind # "exact" /\ Existing(req[s]) = {}
        /\ req[s].class = "generation" =>
             Cardinality(Admitted) + Additional(req[s]) <= Capacity["generation"]
    BY <2>1 DEF IndInv, StillFits
  <2>3. Existing(req[s])' = Existing(req[s])
    BY <2>1 DEF Existing
  <2>4. Additional(req[s]) \in Nat
    BY RequestTypes DEF IndInv, TypeOK
  <2> QED BY <1>2, <1>3, <2>1, <2>2, <2>3, <2>4
<1>7. StillFits'
  BY <1>6 DEF StillFits
<1> QED BY <1>4, <1>5, <1>7
LEMMA NextInv == IndInv /\ [Next]_vars => IndInv'
<1> SUFFICES ASSUME IndInv, [Next]_vars PROVE IndInv'
  OBVIOUS
<1>1. TypeOK /\ TypeOK'
  BY TypeStep DEF IndInv
<1> DEFINE Rest == OneAdmission' /\ Dense' /\ StillFits' /\ GenerationWithinLimit' /\ NoDuplicateWork'
<1>2. ASSUME NEW s \in Submitters, NEW r \in Requests, Admit(s, r) PROVE Rest
  <2>1. UNCHANGED <<jobs, rows, queue, daemon, crashes>>
    BY <1>2 DEF Admit
  <2>2. Created' = Created /\ Admitted' = Admitted /\ origin' = origin
    BY <2>1 DEF jobs, Created, Admitted, ActiveOf, ActiveJobs
  <2>3. /\ pc' = [pc EXCEPT ![s] = "admitted"] /\ req' = [req EXCEPT ![s] = r]
        /\ \A t \in Submitters : pc[t] = "idle"
    BY <1>2 DEF Admit, ProjectFree
  <2>4. OneAdmission' /\ Dense' /\ GenerationWithinLimit' /\ NoDuplicateWork'
    <3>1. OneAdmission'
      BY <1>1, <2>3 DEF TypeOK, OneAdmission
    <3>2. Dense' /\ GenerationWithinLimit' /\ NoDuplicateWork'
      BY <2>2 DEF IndInv, Dense, GenerationWithinLimit, NoDuplicateWork
    <3> QED BY <3>1, <3>2
  <2>5. /\ r.kind # "exact" /\ Existing(r) = {}
        /\ Cardinality(ActiveOf(r.class)) + Additional(r) <= Capacity[r.class]
    BY <1>2 DEF Admit, Fits
  <2>6. Existing(r)' = Existing(r)
    BY <2>2 DEF Existing
  <2>7. ASSUME r.class = "generation"
        PROVE  Cardinality(Admitted) + Additional(r) <= Capacity["generation"]
    <3>1. ActiveOf("generation") \in SUBSET Ids /\ Admitted \in SUBSET ActiveOf("generation")
      BY DEF Admitted, ActiveOf, ActiveJobs
    <3>2. Cardinality(Admitted) <= Cardinality(ActiveOf("generation"))
      BY <3>1, JobsShrink
    <3>3. Admitted \in SUBSET Ids
      BY <3>1
    <3>4. Cardinality(Admitted) \in Nat /\ Cardinality(ActiveOf("generation")) \in Nat
      BY <3>1, <3>3, JobsFinite
    <3>5. Capacity["generation"] \in Nat /\ Additional(r) \in Nat
      BY QueueAssumption, RequestTypes DEF Classes
    <3> QED BY <2>5, <2>7, <3>2, <3>4, <3>5
  <2>8. \A t \in Submitters : pc'[t] = "admitted" => t = s /\ req'[t] = r
    BY <1>1, <2>3 DEF TypeOK
  <2>9. StillFits'
    BY <2>2, <2>5, <2>6, <2>7, <2>8 DEF StillFits
  <2> QED BY <2>4, <2>9
<1>3. ASSUME NEW s \in Submitters, Commit(s) PROVE Rest
  <2> DEFINE r == req[s]
  <2>1. r \in Requests /\ Insert(r) /\ pc[s] = "admitted"
    BY <1>1, <1>3 DEF TypeOK, Commit
  <2>2. \A t \in Submitters : pc'[t] # "admitted"
    BY <1>1, <1>3, <2>1 DEF IndInv, OneAdmission, Commit, TypeOK
  <2>3. /\ r.kind # "exact" /\ Existing(r) = {}
        /\ r.class = "generation" =>
             Cardinality(Admitted) + Additional(r) <= Capacity["generation"]
    BY <2>1 DEF IndInv, StillFits
  <2> HIDE DEF r
  <2>4. OneAdmission' /\ StillFits'
    BY <2>2 DEF OneAdmission, StillFits
  <2>5. Dense'
    <3>1. PICK n \in Nat : Created' = 1..(n + Additional(r))
      BY <1>1, <2>1, InsertRows DEF IndInv
    <3>2. n + Additional(r) \in Nat
      BY <2>1, RequestTypes
    <3> QED BY <3>1, <3>2 DEF Dense
  <2>6. NoDuplicateWork'
    BY <1>1, <2>1, <2>3, InsertApart DEF IndInv
  <2>7. /\ Cardinality(Admitted') <= Cardinality(Admitted) + Additional(r)
        /\ r.class # "generation" => Admitted' = Admitted
    BY <1>1, <2>1, InsertAdmitted DEF IndInv
  <2>8. /\ Cardinality(Admitted) \in Nat /\ Cardinality(Admitted') \in Nat
        /\ Capacity["generation"] \in Nat /\ Additional(r) \in Nat
    <3>1. Admitted \in SUBSET Ids /\ Admitted' \in SUBSET Ids
      BY DEF Admitted, ActiveOf, ActiveJobs
    <3> QED BY <2>1, <3>1, JobsFinite, QueueAssumption, RequestTypes DEF Classes
  <2>9. GenerationWithinLimit'
    <3>1. Cardinality(Admitted) <= Capacity["generation"]
      BY DEF IndInv, GenerationWithinLimit
    <3>2. Cardinality(Admitted') <= Capacity["generation"]
      BY <2>3, <2>7, <2>8, <3>1
    <3> QED BY <3>2 DEF GenerationWithinLimit
  <2> QED BY <2>4, <2>5, <2>6, <2>9
<1>4. ASSUME NEW s \in Submitters, Rollback(s) PROVE Rest
  <2>1. UNCHANGED <<jobs, rows, queue, daemon, crashes>>
    BY <1>4 DEF Rollback
  <2>2. Created' = Created /\ Admitted' = Admitted /\ origin' = origin
    BY <2>1 DEF jobs, Created, Admitted, ActiveOf, ActiveJobs
  <2>3. \A t \in Submitters : pc'[t] # "admitted"
    BY <1>1, <1>4 DEF Rollback, IndInv, OneAdmission, TypeOK
  <2> QED BY <2>2, <2>3, QuietStep
<1>5. ASSUME NEW j \in Ids, ExactRerun(j) PROVE Rest
  <2> DEFINE r == Request("exact", "generation", "none", j)
  <2>1. r \in Requests /\ Insert(r) /\ r.kind = "exact"
    BY <1>5, RequestTypes DEF ExactRerun, Request
  <2>2. \A t \in Submitters : pc[t] = "idle" /\ pc'[t] = pc[t]
    BY <1>5 DEF ExactRerun, ProjectFree, api
  <2> HIDE DEF r
  <2>3. OneAdmission' /\ StillFits'
    BY <2>2 DEF OneAdmission, StillFits
  <2>4. Dense'
    <3>1. PICK n \in Nat : Created' = 1..(n + Additional(r))
      BY <1>1, <2>1, InsertRows DEF IndInv
    <3>2. n + Additional(r) \in Nat
      BY <2>1, RequestTypes
    <3> QED BY <3>1, <3>2 DEF Dense
  <2>5. NoDuplicateWork'
    BY <1>1, <2>1, InsertApart DEF IndInv
  <2>6. Admitted' = Admitted
    BY <1>1, <2>1, InsertAdmitted DEF IndInv
  <2>7. GenerationWithinLimit'
    BY <2>6 DEF IndInv, GenerationWithinLimit
  <2> QED BY <2>3, <2>4, <2>5, <2>7
<1>6. ASSUME Work PROVE Rest
  <2>1. /\ Created' = Created /\ origin' = origin /\ api' = api /\ Admitted' \subseteq Admitted
    BY <1>1, <1>6, WorkShrinks
  <2> QED BY <2>1, QuietStep DEF api
<1>7. ASSUME Relaying PROVE Rest
  <2>1. UNCHANGED <<jobs, api>>
    BY <1>7 DEF Relaying, Scan, Enqueue, EnqueueFails, CommitBatch, DispatcherCrash,
                PollElapses, BackoffElapses
  <2>2. Created' = Created /\ Admitted' = Admitted /\ origin' = origin
    BY <2>1 DEF jobs, Created, Admitted, ActiveOf, ActiveJobs
  <2> QED BY <2>1, <2>2, QuietStep DEF api
<1>8. ASSUME UNCHANGED vars PROVE Rest
  <2>1. UNCHANGED <<jobs, api>>
    BY <1>8 DEF vars
  <2>2. Created' = Created /\ Admitted' = Admitted /\ origin' = origin
    BY <2>1 DEF jobs, Created, Admitted, ActiveOf, ActiveJobs
  <2> QED BY <2>1, <2>2, QuietStep DEF api
<1>9. Rest
  BY <1>2, <1>3, <1>4, <1>5, <1>6, <1>7, <1>8, NextSplit
<1> QED BY <1>1, <1>9 DEF IndInv

LEMMA SpecInv == Spec => []IndInv
BY InitInv, NextInv, PTL DEF Spec

\* The statuses, rows and bookkeeping of the queue stay in range, whatever requests,
\* dispatchers and workers do.
THEOREM QueueTypeCorrect == Spec => []TypeOK
<1>1. IndInv => TypeOK
  BY DEF IndInv
<1> QED BY <1>1, SpecInv, PTL

\* For any number of clients and workers, the generations admitted never exceed
\* the capacity: nothing between the count and the commit adds one.
THEOREM GenerationsAreLimited == Spec => []GenerationWithinLimit
<1>1. IndInv => GenerationWithinLimit
  BY DEF IndInv
<1> QED BY <1>1, SpecInv, PTL

\* For any number of clients asking at once, a source is retried once, an
\* artifact ingested once, an export made once.
THEOREM RequestsAreIdempotent == Spec => []NoDuplicateWork
<1>1. IndInv => NoDuplicateWork
  BY DEF IndInv
<1> QED BY <1>1, SpecInv, PTL
-----------------------------------------------------------------------------
(* The delivery contract, without its fairness. *)

\* Outbox rows, dispatchers and Redis know only committed jobs.
RelayInv ==
  /\ handed \subseteq Created
  /\ \A d \in Dispatchers : claimed[d] \subseteq Created
  /\ \A d \in Dispatchers : sent[d] \subseteq claimed[d]
  /\ \A d \in Dispatchers : relay[d] # "deliver" => sent[d] = {}
  /\ \A j \in Ids : outbox[j] # "none" => j \in Created

DeliveryNext == Delivery!Next \/ UNCHANGED <<Created \ handed, handed>>

LEMMA RelayInit == Init => RelayInv /\ Delivery!Init
BY DEF Init, RelayInv, Created, Delivery!Init

\* A step that creates jobs hands none over.
LEMMA RelayInsert ==
  ASSUME TypeOK, Dense, RelayInv, NEW r \in Requests, Insert(r)
  PROVE  RelayInv' /\ DeliveryNext
<1> DEFINE a == Additional(r)
<1>1. PICK n \in Nat :
        /\ Created = 1..n /\ (n + 1)..(n + a) \subseteq Ids
        /\ Created' = 1..(n + a)
  BY InsertRows
<1>2. a \in Nat
  BY RequestTypes
<1> HIDE DEF a
<1> DEFINE new == Created' \ Created
<1>3. /\ Created' = Created \cup new /\ new \cap Created = {} /\ new \subseteq Ids
  BY <1>1, <1>2 DEF Created
<1>4. /\ handed' = handed /\ UNCHANGED <<claimed, sent, relay>>
      /\ \A j \in Ids : outbox'[j] # outbox[j] => status'[j] = "queued"
  BY DEF Insert, queue, daemon, TypeOK
<1>5. RelayInv'
  <2>1. handed' \subseteq Created' /\ \A d \in Dispatchers : claimed'[d] \subseteq Created'
    BY <1>3, <1>4 DEF RelayInv
  <2>2. ASSUME NEW j \in Ids, outbox'[j] # "none" PROVE j \in Created'
    <3>1. CASE outbox'[j] = outbox[j]
      BY <1>3, <2>2, <3>1 DEF RelayInv
    <3>2. CASE outbox'[j] # outbox[j]
      BY <1>4, <3>2 DEF Created
    <3> QED BY <3>1, <3>2
  <2>3. \A d \in Dispatchers : sent'[d] \subseteq claimed'[d]
    BY <1>4 DEF RelayInv
  <2>4. \A d \in Dispatchers : relay'[d] # "deliver" => sent'[d] = {}
    BY <1>4 DEF RelayInv
  <2> QED BY <2>1, <2>2, <2>3, <2>4 DEF RelayInv
<1>6. DeliveryNext
  <2>1. CASE new = {}
    BY <1>3, <1>4, <2>1 DEF DeliveryNext
  <2>2. CASE new # {}
    <3> HIDE DEF new
    <3>1. Created \subseteq Ids /\ handed \subseteq Created
      BY DEF Created, RelayInv
    <3>2. new \cap ((Created \ handed) \cup handed) = {}
      BY <1>3, <3>1
    <3>3. (Created \ handed)' = (Created \ handed) \cup new
      BY <1>3, <1>4, <3>1
    <3>4. Delivery!Accept(new)
      BY <1>4, <2>2, <3>2, <3>3 DEF Delivery!Accept
    <3> QED BY <1>3, <3>4 DEF DeliveryNext, Delivery!Next
  <2> QED BY <2>1, <2>2
<1> QED BY <1>5, <1>6

\* Redis accepts a job that is committed.
LEMMA RelayAccept ==
  ASSUME RelayInv, NEW j \in Created, Accepted(j), Created' = Created
  PROVE  handed' \subseteq Created' /\ DeliveryNext
<1>1. handed' = handed \cup {j} /\ handed \subseteq Created /\ j \in Ids
  BY DEF Accepted, RelayInv, Created
<1>2. CASE j \in handed
  BY <1>1, <1>2 DEF DeliveryNext
<1>3. CASE j \notin handed
  <2>1. Delivery!HandOver(j)
    BY <1>1, <1>3 DEF Delivery!HandOver
  <2> QED BY <1>1, <2>1 DEF DeliveryNext, Delivery!Next
<1> QED BY <1>1, <1>2, <1>3

LEMMA RelayStep ==
  IndInv /\ RelayInv /\ [Next]_vars => RelayInv' /\ DeliveryNext
<1> SUFFICES ASSUME IndInv, RelayInv, [Next]_vars PROVE RelayInv' /\ DeliveryNext
  OBVIOUS
<1> DEFINE Quiet == UNCHANGED <<handed, outbox, claimed, sent, relay>> /\ Created' = Created
<1>0. TypeOK /\ Dense
  BY DEF IndInv
<1>1. Quiet => RelayInv' /\ DeliveryNext
  BY DEF RelayInv, DeliveryNext
<1> USE DEF jobs, rows, queue, api, daemon
<1>2. ASSUME NEW s \in Submitters, Commit(s) PROVE RelayInv' /\ DeliveryNext
  <2>1. req[s] \in Requests /\ Insert(req[s])
    BY <1>0, <1>2 DEF TypeOK, Commit
  <2> QED BY <1>0, <2>1, RelayInsert
<1>3. ASSUME NEW j \in Ids, ExactRerun(j) PROVE RelayInv' /\ DeliveryNext
  <2> DEFINE r == Request("exact", "generation", "none", j)
  <2>1. r \in Requests /\ Insert(r)
    BY <1>3, RequestTypes DEF ExactRerun
  <2> HIDE DEF r
  <2> QED BY <1>0, <2>1, RelayInsert
<1>4. ASSUME NEW s \in Submitters, NEW r \in Requests, Admit(s, r) PROVE Quiet
  BY <1>4 DEF Admit, Created
<1>10. ASSUME NEW s \in Submitters, Rollback(s) PROVE Quiet
  BY <1>10 DEF Rollback, Created
<1>5. ASSUME Work PROVE Quiet
  <2>1. Created' = Created
    BY <1>0, <1>5, WorkShrinks
  <2>2. UNCHANGED <<handed, outbox, claimed, sent, relay>>
    BY <1>5 DEF Work, Claim, Retry, CancelQueued, Consume, ResultExpires, Finish
  <2> QED BY <2>1, <2>2
<1>6. ASSUME Relaying PROVE RelayInv' /\ DeliveryNext
  <2>0. Created' = Created
    BY <1>6 DEF Relaying, Scan, Enqueue, EnqueueFails, CommitBatch, DispatcherCrash,
                PollElapses, BackoffElapses, Created
  <2>1. ASSUME NEW d \in Dispatchers, NEW js \in SUBSET Waiting, Scan(d, js)
        PROVE  RelayInv' /\ DeliveryNext
    <3>1. js \subseteq Created
      BY DEF Waiting, RelayInv
    <3>2. /\ claimed' = [claimed EXCEPT ![d] = js] /\ relay[d] = "scan"
          /\ \A e \in Dispatchers \ {d} : relay'[e] = relay[e]
          /\ UNCHANGED <<handed, outbox, sent>>
      BY <1>0, <2>1 DEF Scan, TypeOK
    <3>3. sent[d] = {}
      BY <3>2 DEF RelayInv
    <3> QED BY <1>0, <2>0, <3>1, <3>2, <3>3 DEF RelayInv, DeliveryNext, TypeOK
  <2>2. ASSUME NEW d \in Dispatchers, NEW j \in Ids, Enqueue(d, j) \/ EnqueueFails(d, j)
        PROVE  RelayInv' /\ DeliveryNext
    <3>1. j \in Created /\ j \in claimed[d] /\ relay[d] = "deliver"
      BY <2>2 DEF Enqueue, EnqueueFails, Undecided, RelayInv
    <3>2. UNCHANGED <<outbox, claimed, relay>> /\ (Accepted(j) \/ UNCHANGED queue)
      BY <2>2 DEF Enqueue, EnqueueFails
    <3>3. \A e \in Dispatchers : sent'[e] = sent[e] \/ (e = d /\ sent'[e] = sent[e] \cup {j})
      BY <1>0, <2>2 DEF Enqueue, EnqueueFails, TypeOK
    <3>4. handed' \subseteq Created' /\ DeliveryNext
      BY <2>0, <3>1, <3>2, RelayAccept DEF RelayInv, DeliveryNext
    <3> QED BY <2>0, <3>1, <3>2, <3>3, <3>4 DEF RelayInv
  <2>3. ASSUME NEW d \in Dispatchers, CommitBatch(d) \/ DispatcherCrash(d)
        PROVE  RelayInv' /\ DeliveryNext
    <3>7. /\ handed' = handed /\ claimed' = [claimed EXCEPT ![d] = {}]
          /\ sent' = [sent EXCEPT ![d] = {}]
      BY <2>3 DEF CommitBatch, DispatcherCrash, Release
    <3>8. \E at \in {"scan", "poll"} : relay' = [relay EXCEPT ![d] = at]
      BY <2>3 DEF CommitBatch, DispatcherCrash
    <3>9. \A e \in Dispatchers \ {d} : relay'[e] = relay[e]
      BY <1>0, <3>8 DEF TypeOK
    <3>1. /\ handed' = handed /\ claimed' = [claimed EXCEPT ![d] = {}]
          /\ sent' = [sent EXCEPT ![d] = {}]
          /\ \A e \in Dispatchers \ {d} : relay'[e] = relay[e]
      BY <3>7, <3>9
    <3>2. \A j \in Ids : outbox'[j] = outbox[j] \/ j \in sent[d]
      <4>1. CASE CommitBatch(d)
        <5>1. outbox' = [j \in Ids |-> IF j \in sent[d] THEN "dispatched" ELSE outbox[j]]
          BY <4>1 DEF CommitBatch, MarkRows
        <5> QED BY <5>1
      <4>2. CASE DispatcherCrash(d)
        <5>1. outbox' = outbox
          BY <4>2 DEF DispatcherCrash
        <5> QED BY <5>1
      <4> QED BY <2>3, <4>1, <4>2
    <3>3. sent[d] \subseteq Created
      BY DEF RelayInv
    <3>4. \A e \in Dispatchers :
            /\ claimed'[e] = IF e = d THEN {} ELSE claimed[e]
            /\ sent'[e] = IF e = d THEN {} ELSE sent[e]
      BY <1>0, <3>1 DEF TypeOK
    <3>5. \A j \in Ids : outbox'[j] # "none" => j \in Created'
      BY <2>0, <3>2, <3>3 DEF RelayInv
    <3>6. RelayInv'
      BY <2>0, <3>1, <3>4, <3>5 DEF RelayInv
    <3> QED BY <2>0, <3>1, <3>6 DEF DeliveryNext
  <2>4. ASSUME NEW d \in Dispatchers, PollElapses(d) PROVE RelayInv' /\ DeliveryNext
    <3>1. UNCHANGED <<handed, outbox, claimed, sent>> /\ relay[d] = "poll"
          /\ \A e \in Dispatchers \ {d} : relay'[e] = relay[e]
      BY <1>0, <2>4 DEF PollElapses, TypeOK
    <3> QED BY <2>0, <3>1 DEF RelayInv, DeliveryNext
  <2>5. ASSUME NEW j \in Ids, BackoffElapses(j) PROVE RelayInv' /\ DeliveryNext
    <3>1. Quiet
      BY <2>0, <2>5 DEF BackoffElapses
    <3> QED BY <1>1, <3>1
  <2> QED BY <1>6, <2>1, <2>2, <2>3, <2>4, <2>5 DEF Relaying
<1>7. ASSUME UNCHANGED vars PROVE Quiet
  BY <1>7 DEF vars, Created
<1> HIDE DEF Quiet, jobs, rows, queue, api, daemon
<1>8. CASE UNCHANGED vars
  BY <1>1, <1>7, <1>8
<1>9. CASE Next
  <2> DEFINE Goal == RelayInv' /\ DeliveryNext
  <2>1. \A s \in Submitters, r \in Requests : Admit(s, r) => Goal
    BY <1>1, <1>4
  <2>2. \A s \in Submitters : Commit(s) \/ Rollback(s) => Goal
    BY <1>1, <1>2, <1>10
  <2>3. (\E j \in Ids : ExactRerun(j)) \/ Work \/ Relaying => Goal
    BY <1>1, <1>3, <1>5, <1>6
  <2>4. UNCHANGED vars => Goal
    BY <1>1, <1>7
  <2> HIDE DEF Goal
  <2>5. Goal
    BY <2>1, <2>2, <2>3, <2>4, NextSplit
  <2> QED BY <2>5 DEF Goal
<1> QED BY <1>8, <1>9

\* No job is handed to a worker before it is committed, handed over twice counts
\* once, and nothing handed over is owed again: the outbox implements the safety
\* of the delivery contract, for any number of jobs and dispatchers.
THEOREM DeliveryIsSafe ==
  Spec => Delivery!Init /\ [][Delivery!Next]_<<Created \ handed, handed>>
<1>1. Init => RelayInv /\ Delivery!Init
  BY RelayInit
<1>2. IndInv /\ RelayInv /\ [Next]_vars =>
        RelayInv' /\ [Delivery!Next]_<<Created \ handed, handed>>
  BY RelayStep DEF DeliveryNext
<1> QED BY <1>1, <1>2, SpecInv, PTL DEF Spec
=============================================================================
