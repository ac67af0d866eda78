------------------------- MODULE ArtifactCollection -------------------------
(***************************************************************************)
(* Publication of the artifacts of executing stages, and the cleanup of    *)
(* what publication leaves behind.  A stage puts an artifact under a key   *)
(* of its run; SqlAlchemyStageArtifactPublisher registers a row, promotes  *)
(* the blob and references the row; SqlAlchemyArtifactGc, started by the   *)
(* hourly cron or by an operator, expires old rows and deletes old files   *)
(* of runs that have ended.  Database and store share no transaction.      *)
(*                                                                         *)
(* A transaction of the publisher is one step: it locks run, stage and row *)
(* in that order.  The collector holds its row locks while it deletes, and *)
(* every file it deletes is one step.                                      *)
(***************************************************************************)
EXTENDS Integers, FiniteSets, Sequences

CONSTANTS
  Keys,        \* logical keys; each belongs to a stage of a run of its own
  Collectors,  \* the worker's cron and scripts/artifact_gc.py --execute
  MaxBatch,    \* max_batch
  MaxFailures, \* bound: errors of the store or the database
  None

ASSUME CollectionAssumption ==
  /\ IsFiniteSet(Keys) /\ MaxBatch \in Nat \ {0} /\ MaxFailures \in Nat
  /\ None \notin Keys

VARIABLES
  owner,     \* per key: its stage runs, only its run still runs, both ended
  row,       \* Artifact.state, "none" before the row is inserted
  births,    \* the keys with a row, in the order of created_at
  files,     \* per key: its files in the two namespaces of the store
  pub,       \* per key: where its publisher is
  phase,     \* per collector: where collect is
  cutoff,    \* per collector: rows and files unchanged for min_age
  locked,    \* per collector: the rows it holds FOR UPDATE
  todo,      \* per collector: rows or candidates it has not looked at
  target,    \* per collector: the key it is deleting
  expiring,  \* per collector: rows it expires when it commits
  spent,     \* per collector: eligible rows and keys of this pass
  visited,   \* per collector: keys behind the cursor of its scan
  failures

rows == <<row, births>>
progress == <<phase, locked, todo, target, expiring, spent, visited>>
vars == <<owner, rows, files, pub, cutoff, progress, failures>>

\* Payload and metadata, temporary and ready, in the order they are unlinked.
Unlinks == <<"tp", "tm", "rp", "rm">>
File == {"tp", "tm", "rp", "rm"}
Temporary == {"tp", "tm"}
Ready == {"rp", "rm"}

Positions == {"new", "putting", "stored", "resuming", "resuming_meta", "registering",
              "promoting", "promoting_meta", "referencing", "published"}

TypeOK ==
  /\ owner \in [Keys -> {"stage", "run", "ended"}]
  /\ row \in [Keys -> {"none", "temporary", "referenced", "expired"}]
  /\ births \in Seq(Keys)
  /\ {births[i] : i \in DOMAIN births} = {k \in Keys : row[k] # "none"}
  /\ files \in [Keys -> SUBSET File]
  /\ pub \in [Keys -> Positions]
  /\ phase \in [Collectors -> {"idle", "rows", "scan", "candidates"}]
  /\ cutoff \in [Collectors -> [rows : SUBSET Keys, files : SUBSET Keys]]
  /\ locked \in [Collectors -> SUBSET Keys]
  /\ todo \in [Collectors -> SUBSET Keys]
  /\ target \in [Collectors -> Keys \cup {None}]
  /\ expiring \in [Collectors -> SUBSET Keys]
  /\ spent \in [Collectors -> 0..MaxBatch]
  /\ visited \in [Collectors -> SUBSET Keys]
  /\ failures \in 0..MaxFailures

NoCutoff == [rows |-> {}, files |-> {}]

Init ==
  /\ owner = [k \in Keys |-> "stage"]
  /\ row = [k \in Keys |-> "none"] /\ births = <<>>
  /\ files = [k \in Keys |-> {}]
  /\ pub = [k \in Keys |-> "new"]
  /\ phase = [c \in Collectors |-> "idle"]
  /\ cutoff = [c \in Collectors |-> NoCutoff]
  /\ locked = [c \in Collectors |-> {}]
  /\ todo = [c \in Collectors |-> {}]
  /\ target = [c \in Collectors |-> None]
  /\ expiring = [c \in Collectors |-> {}]
  /\ spent = [c \in Collectors |-> 0]
  /\ visited = [c \in Collectors |-> {}]
  /\ failures = 0

\* The transactions of publisher and collector wait for the lock of a row.
RowFree(k) == \A c \in Collectors : k \notin locked[c]

\* Rows and files that have just been written are younger than every cutoff; a
\* collector whose pass has ended has none.
Younger(touchedRows, touchedFiles, ended) ==
  cutoff' = [c \in Collectors |->
    IF c \in ended THEN NoCutoff
    ELSE [rows |-> cutoff[c].rows \ touchedRows, files |-> cutoff[c].files \ touchedFiles]]

-----------------------------------------------------------------------------
(* Publication.  Nothing obliges a publisher to go on: one that has died is   *)
(* one that takes no further step.                                           *)

Goto(k, label) == pub' = [pub EXCEPT ![k] = label]

\* _require_active_stage
Active(k) == owner[k] = "stage"

\* put: the payload, then the metadata.
PutPayload(k) ==
  /\ pub[k] = "new" /\ Active(k)
  /\ files' = [files EXCEPT ![k] = {"tp"}]
  /\ Younger({}, {k}, {})
  /\ Goto(k, "putting")
  /\ UNCHANGED <<owner, row, births, progress, failures>>

PutMeta(k) ==
  /\ pub[k] = "putting"
  /\ files' = [files EXCEPT ![k] = @ \cup {"tm"}]
  /\ Younger({}, {k}, {})
  /\ Goto(k, "stored")
  /\ UNCHANGED <<owner, row, births, progress, failures>>

\* publish begins. _storage_stat: a blob that is whole in neither namespace is
\* promoted first.
Inspect(k) ==
  /\ pub[k] = "stored"
  /\ Goto(k, IF Temporary \subseteq files[k] \/ Ready \subseteq files[k]
             THEN "registering" ELSE "resuming")
  /\ UNCHANGED <<owner, rows, files, cutoff, progress, failures>>

\* The first transaction inserts the row, or finds that of an earlier call.
Registrable(k) == Active(k) /\ row[k] \in {"none", "temporary"}

RegisterTx(k) ==
  /\ Registrable(k)
  /\ IF row[k] = "none"
     THEN /\ row' = [row EXCEPT ![k] = "temporary"]
          /\ births' = Append(births, k)
     ELSE UNCHANGED <<row, births>>
  /\ UNCHANGED <<owner, files, cutoff, progress>>

Register(k) ==
  /\ pub[k] = "registering" /\ RowFree(k)
  /\ RegisterTx(k)
  /\ Goto(k, "promoting")
  /\ UNCHANGED failures

\* A repeated call returns what is published; everything else raises.
AlreadyPublished(k) == Active(k) /\ row[k] = "referenced"

RegisterRefused(k) ==
  /\ pub[k] = "registering" /\ RowFree(k)
  /\ ~Registrable(k)
  /\ Goto(k, IF AlreadyPublished(k) /\ Ready \subseteq files[k] THEN "published" ELSE "stored")
  /\ UNCHANGED <<owner, rows, files, cutoff, progress, failures>>

\* promote moves what is still temporary, has nothing to do, or raises.
Promotable(k) ==
  IF Ready \subseteq files[k] THEN files[k] \cap Temporary = {}
  ELSE /\ Cardinality(files[k] \cap {"tp", "rp"}) = 1
       /\ Cardinality(files[k] \cap {"tm", "rm"}) = 1

Renamed(set, from, to) == IF from \in set THEN (set \ {from}) \cup {to} ELSE set

PromotePayload(k, here, next) ==
  /\ pub[k] = here
  /\ IF Promotable(k)
     THEN files' = [files EXCEPT ![k] = Renamed(@, "tp", "rp")] /\ Goto(k, next)
     ELSE Goto(k, "stored") /\ UNCHANGED files
  /\ UNCHANGED <<owner, rows, cutoff, progress, failures>>

\* A file that has gone, or the stat at the end, raises.
PromoteMeta(k, here, next) ==
  /\ pub[k] = here
  /\ files' = [files EXCEPT ![k] = Renamed(@, "tm", "rm")]
  /\ Goto(k, IF Ready \subseteq files'[k] THEN next ELSE "stored")
  /\ UNCHANGED <<owner, rows, cutoff, progress, failures>>

\* The second transaction: ready, referenced and linked to the stage at once.
Referencable(k) == Active(k) /\ row[k] = "temporary"

ReferenceTx(k) ==
  /\ Referencable(k)
  /\ row' = [row EXCEPT ![k] = "referenced"]
  /\ Younger({k}, {}, {})
  /\ UNCHANGED <<owner, births, files, progress>>

Reference(k) ==
  /\ pub[k] = "referencing" /\ RowFree(k)
  /\ ReferenceTx(k)
  /\ Goto(k, "published")
  /\ UNCHANGED failures

ReferenceRefused(k) ==
  /\ pub[k] = "referencing" /\ RowFree(k)
  /\ ~Referencable(k)
  /\ Goto(k, IF AlreadyPublished(k) THEN "published" ELSE "stored")
  /\ UNCHANGED <<owner, rows, files, cutoff, progress, failures>>

\* An exception, also of a transaction whose commit is not acknowledged: the
\* caller may call publish again.
PublisherFails(k) ==
  /\ failures < MaxFailures
  /\ failures' = failures + 1
  /\ \/ /\ pub[k] \in {"resuming", "resuming_meta", "promoting", "promoting_meta"}
        /\ UNCHANGED <<owner, rows, files, cutoff, progress>>
     \/ pub[k] = "registering" /\ RowFree(k) /\ RegisterTx(k)
     \/ pub[k] = "referencing" /\ RowFree(k) /\ ReferenceTx(k)
  /\ Goto(k, "stored")

-----------------------------------------------------------------------------
(* Collection. *)

\* LIMIT max_batch
Oldest(n) == n

\* Old, temporary, and not locked by anybody (SKIP LOCKED).
Eligible(k, oldRows) == k \in oldRows /\ row[k] = "temporary" /\ RowFree(k)

\* The first transaction locks the oldest eligible rows.
Selected(oldRows) ==
  LET eligible == {i \in DOMAIN births : Eligible(births[i], oldRows)}
  IN  {births[i] : i \in {i \in eligible :
                           Cardinality({j \in eligible : j < i}) < Oldest(MaxBatch)}}

\* The cutoff divides rows and files; a row is written after the files of its key,
\* and a temporary one never again.
StartPass(c, oldRows, oldFiles) ==
  /\ phase[c] = "idle"
  /\ \A k \in oldRows : row[k] # "none" /\ (files[k] = {} \/ k \in oldFiles)
  /\ \A i, j \in DOMAIN births :
       i < j /\ births[j] \in oldRows /\ row[births[i]] = "temporary" => births[i] \in oldRows
  /\ \A k \in oldFiles : files[k] # {}
  /\ phase' = [phase EXCEPT ![c] = "rows"]
  /\ cutoff' = [cutoff EXCEPT ![c] = [rows |-> oldRows, files |-> oldFiles]]
  /\ locked' = [locked EXCEPT ![c] = Selected(oldRows)]
  /\ todo' = [todo EXCEPT ![c] = Selected(oldRows)]
  /\ UNCHANGED <<owner, rows, files, pub, target, expiring, spent, visited, failures>>

\* Mutant: the collector does not ask for the run.
ProtectedNever(k) == FALSE

\* _is_live_run, without a lock.
Protected(k) == owner[k] # "ended"

\* The files are missing or old.
Reclaimable(c, k) == files[k] = {} \/ k \in cutoff[c].files

Skip(c, k) ==
  /\ todo' = [todo EXCEPT ![c] = @ \ {k}]
  /\ UNCHANGED <<owner, rows, files, pub, cutoff, phase, locked, target, expiring,
                 spent, visited, failures>>

SkipRow(c, k) ==
  /\ phase[c] = "rows" /\ target[c] = None /\ k \in todo[c]
  /\ Protected(k) \/ ~Reclaimable(c, k)
  /\ Skip(c, k)

\* Deletion begins; a key without files is through with it at once.
Take(c, k) ==
  /\ todo' = [todo EXCEPT ![c] = @ \ {k}]
  /\ target' = [target EXCEPT ![c] = k]
  /\ spent' = [spent EXCEPT ![c] = @ + 1]
  /\ UNCHANGED <<owner, rows, files, pub, cutoff, phase, expiring, visited, failures>>

TakeRow(c, k) ==
  /\ phase[c] = "rows" /\ target[c] = None /\ k \in todo[c]
  /\ ~Protected(k) /\ Reclaimable(c, k)
  /\ Take(c, k)
  /\ UNCHANGED locked

\* delete(temporary), delete(ready)
Unlink(c) ==
  /\ target[c] # None /\ files[target[c]] # {}
  /\ LET k == target[c]
         next == CHOOSE i \in DOMAIN Unlinks :
                   Unlinks[i] \in files[k] /\ \A j \in 1..(i - 1) : Unlinks[j] \notin files[k]
     IN  files' = [files EXCEPT ![k] = @ \ {Unlinks[next]}]
  /\ UNCHANGED <<owner, rows, pub, cutoff, progress, failures>>

RowDeleted(c) ==
  /\ phase[c] = "rows" /\ target[c] # None /\ files[target[c]] = {}
  /\ expiring' = [expiring EXCEPT ![c] = @ \cup {target[c]}]
  /\ target' = [target EXCEPT ![c] = None]
  /\ UNCHANGED <<owner, rows, files, pub, cutoff, phase, locked, todo, spent, visited, failures>>

\* A commit expires rows and releases the locks.
Commit(c, expired, ended) ==
  /\ row' = [k \in Keys |-> IF k \in expired THEN "expired" ELSE row[k]]
  /\ Younger(expired, {}, ended)
  /\ locked' = [locked EXCEPT ![c] = {}]
  /\ expiring' = [expiring EXCEPT ![c] = {}]
  /\ target' = [target EXCEPT ![c] = None]
  /\ UNCHANGED <<owner, births, files, pub, failures>>

\* Nothing of a pass but the cursor of its scan outlives it.
Forget(c) ==
  /\ phase' = [phase EXCEPT ![c] = "idle"]
  /\ todo' = [todo EXCEPT ![c] = {}]
  /\ spent' = [spent EXCEPT ![c] = 0]

\* The transaction commits; the scan follows unless the batch is spent.
EndRows(c) ==
  /\ phase[c] = "rows" /\ target[c] = None /\ todo[c] = {}
  /\ \/ spent[c] = MaxBatch /\ Commit(c, expiring[c], {c}) /\ Forget(c)
     \/ /\ spent[c] < MaxBatch
        /\ Commit(c, expiring[c], {})
        /\ phase' = [phase EXCEPT ![c] = "scan"]
        /\ UNCHANGED <<todo, spent>>
  /\ UNCHANGED visited

\* Mutant: the cursor never starts again.
RestartNever(passed, found) == passed \cup found

\* A scan that returns fewer keys than it may has come to the end.
Restart(passed, found) == IF Cardinality(found) < MaxBatch THEN {} ELSE passed \cup found

\* stale_run_refs continues behind its cursor.
Scan(c) ==
  /\ phase[c] = "scan"
  /\ LET ahead == {k \in Keys \ visited[c] : files[k] # {} /\ k \in cutoff[c].files}
     IN  \E found \in SUBSET ahead :
           /\ Cardinality(found) <= MaxBatch
           /\ Cardinality(found) = MaxBatch \/ found = ahead
           /\ todo' = [todo EXCEPT ![c] = found]
           /\ visited' = [visited EXCEPT ![c] = Restart(@, found)]
  /\ phase' = [phase EXCEPT ![c] = "candidates"]
  /\ UNCHANGED <<owner, rows, files, pub, cutoff, locked, target, expiring, spent, failures>>

\* A candidate is deleted unless its run, its row or its files speak against it.
Collectable(c, k) ==
  /\ ~Protected(k)
  /\ row[k] = "none" \/ (row[k] # "referenced" /\ k \in cutoff[c].rows)
  /\ k \in cutoff[c].files /\ files[k] # {}

Considering(c, k) ==
  /\ phase[c] = "candidates" /\ target[c] = None /\ spent[c] < MaxBatch
  /\ k \in todo[c]
  /\ row[k] = "none" \/ RowFree(k)

SkipCandidate(c, k) == Considering(c, k) /\ ~Collectable(c, k) /\ Skip(c, k)

\* The row of the candidate, if it has one, stays locked until its files are gone.
TakeCandidate(c, k) ==
  /\ Considering(c, k)
  /\ Collectable(c, k)
  /\ Take(c, k)
  /\ locked' = [locked EXCEPT ![c] = IF row[k] = "none" THEN {} ELSE {k}]

CandidateDeleted(c) ==
  /\ phase[c] = "candidates" /\ target[c] # None /\ files[target[c]] = {}
  /\ Commit(c, {k \in locked[c] : row[k] = "temporary"}, {})
  /\ UNCHANGED <<phase, todo, spent, visited>>

EndPass(c) ==
  /\ phase[c] = "candidates" /\ target[c] = None
  /\ todo[c] = {} \/ spent[c] = MaxBatch
  /\ Forget(c) /\ Younger({}, {}, {c})
  /\ UNCHANGED <<owner, row, births, files, pub, locked, target, expiring, visited, failures>>

\* An error of store or database rolls back; a new process has a new cursor.
CollectorFails(c) ==
  /\ phase[c] # "idle"
  /\ failures < MaxFailures
  /\ failures' = failures + 1
  /\ Forget(c) /\ Younger({}, {}, {c})
  /\ locked' = [locked EXCEPT ![c] = {}]
  /\ target' = [target EXCEPT ![c] = None]
  /\ expiring' = [expiring EXCEPT ![c] = {}]
  /\ visited' = visited \/ visited' = [visited EXCEPT ![c] = {}]
  /\ UNCHANGED <<owner, row, births, files, pub>>

-----------------------------------------------------------------------------
(* The end of stages and runs. *)

EndStage(k) ==
  /\ Active(k)
  /\ owner' = [owner EXCEPT ![k] = "run"]
  /\ UNCHANGED <<rows, files, pub, cutoff, progress, failures>>

\* A run does not end before its stages.
EndRun(k) ==
  /\ owner[k] = "run"
  /\ owner' = [owner EXCEPT ![k] = "ended"]
  /\ UNCHANGED <<rows, files, pub, cutoff, progress, failures>>

-----------------------------------------------------------------------------
Publish(k) ==
  \/ PutPayload(k) \/ PutMeta(k) \/ Inspect(k)
  \/ PromotePayload(k, "resuming", "resuming_meta")
  \/ PromoteMeta(k, "resuming_meta", "registering")
  \/ Register(k) \/ RegisterRefused(k)
  \/ PromotePayload(k, "promoting", "promoting_meta")
  \/ PromoteMeta(k, "promoting_meta", "referencing")
  \/ Reference(k) \/ ReferenceRefused(k)

Collect(c) ==
  \/ EndRows(c) \/ Scan(c) \/ EndPass(c)
  \/ Unlink(c) \/ RowDeleted(c) \/ CandidateDeleted(c)
  \/ \E k \in Keys : SkipRow(c, k) \/ TakeRow(c, k) \/ SkipCandidate(c, k) \/ TakeCandidate(c, k)

Next ==
  \/ \E k \in Keys : Publish(k) \/ PublisherFails(k) \/ EndStage(k) \/ EndRun(k)
  \/ \E c \in Collectors :
       \/ \E oldRows, oldFiles \in SUBSET Keys : StartPass(c, oldRows, oldFiles)
       \/ Collect(c) \/ CollectorFails(c)

\* A pass for which everything is old.
StartLatePass(c) ==
  StartPass(c, {k \in Keys : row[k] # "none"}, {k \in Keys : files[k] # {}})

\* Runs end and the cron starts a pass every hour.  A row and a file are written
\* a few times at most, so from some pass on everything is old.
Fairness ==
  /\ \A k \in Keys : WF_vars(EndStage(k) \/ EndRun(k))
  /\ \A c \in Collectors : WF_vars(StartLatePass(c) \/ Collect(c))
  /\ <>[][\A c \in Collectors :
             phase[c] = "idle" /\ phase'[c] = "rows" => StartLatePass(c)]_vars

Spec == Init /\ [][Next]_vars /\ Fairness

-----------------------------------------------------------------------------
(* Properties. *)

\* A referenced artifact has both its ready files, whatever passes were deciding
\* about its key while it was published (publish, collect).
ReferencedIsWhole == \A k \in Keys : row[k] = "referenced" => Ready \subseteq files[k]

\* While a run is running, its artifacts lose nothing: a payload or a metadata
\* file, once written, stays in one of the two namespaces (_is_live_run).
LiveKeepsFiles ==
  [][\A k \in Keys : \A kind \in {{"tp", "rp"}, {"tm", "rm"}} :
       owner'[k] # "ended" /\ files[k] \cap kind # {} => files'[k] \cap kind # {}]_vars

\* What publish has returned stays published: the row is referenced, and neither
\* a referenced nor an expired row ever changes again (transition_to).
PublishedIsFinal ==
  [][\A k \in Keys :
       /\ row[k] \in {"referenced", "expired"} => row'[k] = row[k]
       /\ pub'[k] = "published" => row'[k] = "referenced"]_vars

\* Whatever a run that ended without publishing has left, in the database or in
\* the store, whole or in part, is expired and deleted by a later pass (collect).
OrphansCollected ==
  \A k \in Keys :
    owner[k] = "ended" /\ row[k] # "referenced" ~> files[k] = {} /\ row[k] \in {"none", "expired"}
=============================================================================
