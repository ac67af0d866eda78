----------------------------- MODULE MCIngestJob -----------------------------
(* Two attempts of one ingest. In some behaviours the environment fails, in the *)
(* others, chosen initially, it does not; liveness is stated for these.         *)
EXTENDS IngestJob

VARIABLE calm

MCInit == Init /\ calm \in BOOLEAN
MCNext == (IF calm THEN CalmNext ELSE Next) /\ UNCHANGED calm

\* IngestJob!Fairness, of the behaviours without failures of the environment.
MCFairness == \A t \in Threads : WF_vars(calm /\ ThreadStep(t))

MCSpec == MCInit /\ [][MCNext]_<<vars, calm>> /\ MCFairness

\* Without failures of the environment, the job ends ready, or failed with an error
\* that is not to be retried, or with its attempts used up: it never shows a retry
\* (retry_pending) that nobody will make.
CalmSettles == calm => Settles
=============================================================================
