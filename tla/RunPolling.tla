------------------------------ MODULE RunPolling ------------------------------
(***************************************************************************)
(* RunsPanel and useRunPolling (frontend/src): the panel polls the runs of *)
(* its project while any of them is active, and creates, cancels and       *)
(* retries runs, after which it starts polling anew. Workers move the runs *)
(* meanwhile. The list is what the server read when it handled the         *)
(* request, and is displayed when the answer arrives.                      *)
(*                                                                         *)
(* The panel is the only client of the project, the list is not truncated, *)
(* and a request whose answer is lost has been handled by then or never is.*)
(***************************************************************************)
EXTENDS Integers

CONSTANTS
  RunIds,       \* runs that can be created
  MaxFailures   \* RUN_POLL_MAX_FAILURES

ASSUME RunPollingAssumption == MaxFailures \in Nat \ {0}

VARIABLES
  rows,        \* status of every run of the project
  cancelling,  \* running runs with cancel_requested_at
  listed,      \* the runs on display and their status
  poll,        \* the tick: "request", "answer", "timer", or "stopped"
  snapshot,    \* what the server has answered
  failures,    \* consecutive failures of the poll
  request,     \* what create, cancel or retry is sent, answered, or nothing
  actionError  \* the last of them failed as far as the panel knows

pollVars == <<rows, cancelling, listed, poll, snapshot, failures, request, actionError>>
serverVars == <<rows, cancelling>>

Active(runs) == {r \in DOMAIN runs : runs[r] \in {"queued", "running"}}
Idle == [kind |-> "none", run |-> 0, done |-> FALSE]

PollInit ==
  /\ rows = << >> /\ cancelling = {}
  /\ listed = << >>
  /\ poll = "request" /\ snapshot = << >> /\ failures = 0
  /\ request = Idle /\ actionError = FALSE

-----------------------------------------------------------------------------
(* The workers. *)

WorkerClaims(r) ==
  /\ r \in DOMAIN rows /\ rows[r] = "queued"
  /\ rows' = [rows EXCEPT ![r] = "running"]
  /\ UNCHANGED <<cancelling, listed, poll, snapshot, failures, request, actionError>>

\* Also back to the queue, for another attempt.
WorkerEnds(r, status) ==
  /\ r \in DOMAIN rows /\ rows[r] = "running"
  /\ status = "cancelled" <=> r \in cancelling
  /\ rows' = [rows EXCEPT ![r] = status]
  /\ cancelling' = cancelling \ {r}
  /\ UNCHANGED <<listed, poll, snapshot, failures, request, actionError>>

-----------------------------------------------------------------------------
(* The poll: one request in flight, or one timer, or none. *)

\* nextRunPollDelay: null stops the poll.
PollsAgain(active, failed) == failed < MaxFailures /\ (active \/ failed > 0)

\* Mutant: a request under way is not aborted, and its answer is taken for the new one.
RestartPollKeepRequest ==
  /\ listed' = << >> /\ failures' = 0
  /\ poll' = IF poll = "answer" THEN poll ELSE "request"
  /\ UNCHANGED snapshot

\* The effect on [projectId, refreshKey]: the old request and timer are gone.
RestartPoll == listed' = << >> /\ poll' = "request" /\ snapshot' = << >> /\ failures' = 0

ServeList ==
  /\ poll = "request"
  /\ poll' = "answer" /\ snapshot' = rows
  /\ UNCHANGED <<rows, cancelling, listed, failures, request, actionError>>

ListArrives ==
  /\ poll = "answer"
  /\ listed' = snapshot /\ failures' = 0
  /\ poll' = IF PollsAgain(Active(snapshot) # {}, 0) THEN "timer" ELSE "stopped"
  /\ UNCHANGED <<serverVars, snapshot, request, actionError>>

PollFails ==
  /\ poll \in {"request", "answer"}
  /\ failures' = failures + 1
  /\ poll' = IF PollsAgain(TRUE, failures') THEN "timer" ELSE "stopped"
  /\ UNCHANGED <<serverVars, listed, snapshot, request, actionError>>

Tick ==
  /\ poll = "timer"
  /\ poll' = "request"
  /\ UNCHANGED <<serverVars, listed, snapshot, failures, request, actionError>>

RefreshList ==
  /\ request = Idle
  /\ RestartPoll
  /\ UNCHANGED <<serverVars, request, actionError>>

-----------------------------------------------------------------------------
(* Create, cancel and retry: one at a time, for a run as it is displayed. *)

Send(kind, run) ==
  /\ request = Idle
  /\ request' = [kind |-> kind, run |-> run, done |-> FALSE]
  /\ actionError' = FALSE
  /\ UNCHANGED <<serverVars, listed, poll, snapshot, failures>>

SendCreate == Send("create", 0)
SendCancel(r) == r \in Active(listed) /\ Send("cancel", r)
SendRetry(r) == r \in DOMAIN listed /\ listed[r] \in {"failed", "cancelled"} /\ Send("retry", r)

Handled == request' = [request EXCEPT !.done = TRUE]
\* A second retry of a run finds the first one's.
HandleNew ==
  /\ request.kind \in {"create", "retry"}
  /\ \/ \E r \in RunIds \ DOMAIN rows :
          rows' = [x \in DOMAIN rows \cup {r} |-> IF x = r THEN "queued" ELSE rows[x]]
     \/ request.kind = "retry" /\ UNCHANGED rows
  /\ UNCHANGED cancelling
\* A queued run ends at once, a running one at its next boundary, a finished one stays.
HandleCancel ==
  /\ request.kind = "cancel"
  /\ rows' = [rows EXCEPT ![request.run] = IF @ = "queued" THEN "cancelled" ELSE @]
  /\ cancelling' = cancelling \cup ({request.run} \cap {r \in DOMAIN rows : rows[r] = "running"})

ServeAction ==
  /\ request # Idle /\ ~request.done
  /\ Handled
  /\ HandleNew \/ HandleCancel
  /\ UNCHANGED <<listed, poll, snapshot, failures, actionError>>

\* The answer arrives: the poll starts anew.
ActionSucceeds ==
  /\ request.done
  /\ request' = Idle
  /\ RestartPoll
  /\ UNCHANGED <<serverVars, actionError>>

\* An error, of the server or of the network, after or instead of handling.
ActionFails ==
  /\ request # Idle
  /\ request' = Idle /\ actionError' = TRUE
  /\ UNCHANGED <<serverVars, listed, poll, snapshot, failures>>

PollNext ==
  \/ \E r \in RunIds : WorkerClaims(r)
  \/ \E r \in RunIds, s \in {"succeeded", "failed", "cancelled", "queued"} : WorkerEnds(r, s)
  \/ ServeList \/ ListArrives \/ PollFails \/ Tick \/ RefreshList
  \/ SendCreate \/ (\E r \in RunIds : SendCancel(r) \/ SendRetry(r))
  \/ ServeAction \/ ActionSucceeds \/ ActionFails

PollSpec == PollInit /\ [][PollNext]_pollVars

-----------------------------------------------------------------------------
(* A panel that has stopped polling, shows no error and waits for no answer of its own  *)
(* shows every run as it is, and none of them will change.                              *)
QuietMeansCurrent ==
  poll = "stopped" /\ failures = 0 /\ request = Idle /\ ~actionError =>
    listed = rows /\ Active(rows) = {}
=============================================================================
