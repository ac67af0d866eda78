----------------------------- MODULE MCWorkspace -----------------------------
(***************************************************************************)
(* What a user reads in the browser: the workspace, and the polling of its *)
(* runs panel. Every behaviour is one of the two, while the other is idle. *)
(* Two projects: the first with two versions and two runs, the second with *)
(* one of each.                                                            *)
(***************************************************************************)
EXTENDS Workspace, RunPolling, TLC

CONSTANTS p1, p2, v1, v2, v3, r1, r2, r3

VARIABLE side

MCProjectOf ==
  (v1 :> p1) @@ (v2 :> p1) @@ (v3 :> p2) @@ (r1 :> p1) @@ (r2 :> p1) @@ (r3 :> p2)

WorkspaceIdle ==
  /\ selection = [project |-> None, version |-> None, run |-> None] /\ part = None
  /\ visible = {} /\ panel = Mounted(None) /\ orphans = {}
  /\ chosen = << >> /\ comparing = None /\ compared = None
PollIdle ==
  /\ rows = << >> /\ cancelling = {} /\ listed = << >> /\ poll = "idle"
  /\ snapshot = << >> /\ failures = 0 /\ request = Idle /\ actionError = FALSE

MCInit ==
  /\ side \in {"workspace", "polling"}
  /\ IF side = "workspace" THEN WorkspaceInit ELSE WorkspaceIdle
  /\ IF side = "polling" THEN PollInit ELSE PollIdle

MCNext ==
  /\ UNCHANGED side
  /\ \/ side = "workspace" /\ WorkspaceNext /\ UNCHANGED pollVars
     \/ side = "polling" /\ PollNext /\ UNCHANGED workspaceVars

MCSpec == MCInit /\ [][MCNext]_<<side, workspaceVars, pollVars>>
=============================================================================
