------------------------------ MODULE MCJobQueue ------------------------------
(* Two slices of JobQueue, chosen initially: every interleaving of requests    *)
(* and workers with a dispatcher that does not fail,  and every interleaving   *)
(* and failure of dispatchers under requests that come one by one.             *)
EXTENDS JobQueue, TLC

CONSTANT SliceJobs

VARIABLE slice

MCCapacity == ("generation" :> 2) @@ ("ingest" :> 1) @@ ("export" :> 1)

\* Scan, Enqueue and CommitBatch of one row, undisturbed.
Relay(j) ==
  /\ outbox[j] = "pending"
  /\ Accepted(j)
  /\ outbox' = [outbox EXCEPT ![j] = "dispatched"]
  /\ UNCHANGED <<jobs, due, api, daemon, crashes>>

AdmissionSlice ==
  \/ Submit
  \/ \E j \in Ids :
       \/ ExactRerun(j) \/ Relay(j)
       \/ Claim(j) \/ Retry(j) \/ CancelQueued(j) \/ Consume(j)
       \/ \E outcome \in Terminal : Finish(j, outcome)

DeliverySlice ==
  \/ \E s \in Submitters : Admit(s, NoRequest) /\ Cardinality(Created) < SliceJobs
  \/ \E s \in Submitters : Commit(s)
  \/ Dispatch
  \/ \E j \in Ids : Claim(j) \/ Finish(j, "succeeded") \/ ResultExpires(j) \/ BackoffElapses(j)

MCInit == Init /\ slice \in {"admission", "delivery"}
MCNext ==
  /\ IF slice = "admission" THEN AdmissionSlice ELSE DeliverySlice
  /\ UNCHANGED slice
In(name, A) == slice = name /\ A

\* JobQueue!Fairness in the slice that has dispatchers.
MCFairness ==
  /\ \A d \in Dispatchers : WF_vars(In("delivery", DispatcherStep(d)))
  /\ \A j \in Ids : WF_vars(In("delivery", BackoffElapses(j)))
  /\ \A j \in Ids : SF_vars(In("delivery", \E d \in Dispatchers : Enqueue(d, j)))
  /\ \A j \in Ids : WF_vars(In("admission", Relay(j)))

MCSpec == MCInit /\ [][MCNext]_<<vars, slice>> /\ MCFairness
=============================================================================
