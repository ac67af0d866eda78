--------------------------- MODULE DeliveryContract ---------------------------
(***************************************************************************)
(* What the outbox promises to whoever creates a job: once the creating    *)
(* transaction has committed, the job is handed to a worker queue at least *)
(* once, and never before (docs/adr/0004).                                 *)
(***************************************************************************)
CONSTANT Jobs

VARIABLES
  owed,    \* jobs committed and not yet handed over
  handed   \* jobs handed over at least once

Init == owed = {} /\ handed = {}

\* One transaction commits one job, or all the jobs of a scenario matrix.
Accept(js) ==
  /\ js # {} /\ js \cap (owed \cup handed) = {}
  /\ owed' = owed \cup js
  /\ UNCHANGED handed

HandOver(j) ==
  /\ j \in owed
  /\ owed' = owed \ {j}
  /\ handed' = handed \cup {j}

Next == (\E js \in SUBSET Jobs : Accept(js)) \/ (\E j \in Jobs : HandOver(j))

Spec ==
  /\ Init /\ [][Next]_<<owed, handed>>
  /\ \A j \in Jobs : WF_<<owed, handed>>(HandOver(j))
=============================================================================
