----------------------------- MODULE RunContract -----------------------------
(***************************************************************************)
(* What a generation run promises to a client that polls it: a status, a   *)
(* one-way cancellation flag and the progress rows of its stages, without  *)
(* workers, deliveries, attempts or failures.  GenerationLifecycle         *)
(* implements it.                                                          *)
(***************************************************************************)
EXTENDS Integers

CONSTANTS NumStages, Skip

Stages == 1..NumStages

VARIABLES
  status,      \* the run's status
  cancelling,  \* a cancellation request is recorded
  rows         \* the status of each stage's row, "none" if absent

vars == <<status, cancelling, rows>>

Settled(i) == IF i \in Skip THEN "skipped" ELSE "succeeded"

Init ==
  /\ status = "queued"
  /\ cancelling = FALSE
  /\ rows = [i \in Stages |-> "none"]

Working == status = "running" /\ ~cancelling

Begin ==
  /\ status = "queued" /\ ~cancelling
  /\ status' = "running"
  /\ UNCHANGED <<cancelling, rows>>

\* An attempt is repeated only while it has left no trace.
Requeue ==
  /\ Working
  /\ \A i \in Stages : rows[i] = "none"
  /\ status' = "queued"
  /\ UNCHANGED <<cancelling, rows>>

\* A stage gets its row once, after every earlier stage is settled.
AddRow(i) ==
  /\ Working
  /\ rows[i] = "none"
  /\ \A j \in 1..(i - 1) : rows[j] = Settled(j)
  /\ rows' = [rows EXCEPT ![i] = IF i \in Skip THEN "skipped" ELSE "running"]
  /\ UNCHANGED <<status, cancelling>>

FinishRow(i, outcome) ==
  /\ Working
  /\ rows[i] = "running"
  /\ rows' = [rows EXCEPT ![i] = outcome]
  /\ UNCHANGED <<status, cancelling>>

DiscardRow(i) ==
  /\ status = "running" /\ cancelling
  /\ rows[i] \in {"running", "failed"}
  /\ rows' = [rows EXCEPT ![i] = "cancelled"]
  /\ UNCHANGED <<status, cancelling>>

Succeed ==
  /\ Working
  /\ \A i \in Stages : rows[i] = Settled(i)
  /\ status' = "succeeded"
  /\ UNCHANGED <<cancelling, rows>>

Fail ==
  /\ Working
  /\ \A i \in Stages : rows[i] \notin {"running", "cancelled"}
  /\ status' = "failed"
  /\ UNCHANGED <<cancelling, rows>>

Cancel ==
  /\ status = "running" /\ cancelling
  /\ \A i \in Stages : rows[i] \notin {"running", "failed"}
  /\ status' = "cancelled"
  /\ UNCHANGED <<cancelling, rows>>

Request ==
  /\ status \in {"queued", "running"} /\ ~cancelling
  /\ cancelling' = TRUE
  /\ status' = IF status = "queued" THEN "cancelled" ELSE status
  /\ UNCHANGED rows

Next ==
  \/ Begin \/ Requeue \/ Succeed \/ Fail \/ Cancel \/ Request
  \/ \E i \in Stages : AddRow(i) \/ DiscardRow(i)
                       \/ \E outcome \in {"succeeded", "failed"} : FinishRow(i, outcome)

Spec == Init /\ [][Next]_vars
=============================================================================
