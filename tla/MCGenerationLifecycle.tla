------------------------ MODULE MCGenerationLifecycle ------------------------
(* A plan of four stages: 1 <- 2 <- 4, and stage 3 skipped on request. Failures *)
(* of processes, connections and configuration happen in some behaviours and,   *)
(* chosen initially, not in the others, for which liveness is stated.           *)
EXTENDS GenerationLifecycle, TLC

CONSTANT Reserve  \* workers that take no part in the behaviours with failures

VARIABLE faulty

\* A chain of two stages.
MCDeps2 == (1 :> {}) @@ (2 :> {1})

MCDeps == (1 :> {}) @@ (2 :> {1}) @@ (3 :> {1}) @@ (4 :> {2})

Crew == Workers \ (IF faulty THEN Reserve ELSE Unconfigured)

MCInit == Init /\ faulty \in BOOLEAN
MCNext ==
  /\ IF faulty THEN Next ELSE Step
  /\ \A w \in Workers \ Crew : pc'[w] = "idle"
  /\ UNCHANGED faulty

\* GenerationLifecycle!Fairness, of the behaviours without failures.
MCFairness ==
  /\ \A w \in Workers : WF_vars(w \in Crew /\ ~faulty /\ WorkerStep(w))
  /\ WF_vars(~faulty /\ BackoffElapses)

MCSpec == MCInit /\ [][MCNext]_<<vars, faulty>> /\ MCFairness

\* No process fails, but a worker may lack its runtime.
UnconfiguredSpec ==
  /\ Init /\ faulty = FALSE
  /\ [][Step /\ UNCHANGED faulty]_<<vars, faulty>>
  /\ Fairness

\* When no process fails and every worker has its runtime, every run ends whatever its
\* stages raise (GenerationJobService.run, and the retry of tasks.py), and a committed
\* request for cancellation ends in a cancelled run, whatever the worker was doing
\* (generation_state.py, request_cancel).
CalmRunSettles == ~faulty => RunSettles /\ CancelSettles
=============================================================================
