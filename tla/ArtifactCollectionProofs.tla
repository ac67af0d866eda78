---------------------- MODULE ArtifactCollectionProofs ----------------------
(***************************************************************************)
(* For every set of keys, number of collectors and batch: a pass spends no *)
(* more than its batch, running runs lose no file, and what is published   *)
(* is whole and final.                                                     *)
(***************************************************************************)
EXTENDS ArtifactCollection, FiniteSetTheorems, TLAPS

\* TypeOK but for the bound of a pass.
Ranges ==
  /\ owner \in [Keys -> {"stage", "run", "ended"}]
  /\ row \in [Keys -> {"none", "temporary", "referenced", "expired"}]
  /\ births \in Seq(Keys)
  /\ files \in [Keys -> SUBSET File]
  /\ pub \in [Keys -> Positions]
  /\ phase \in [Collectors -> {"idle", "rows", "scan", "candidates"}]
  /\ locked \in [Collectors -> SUBSET Keys]
  /\ todo \in [Collectors -> SUBSET Keys]
  /\ target \in [Collectors -> Keys \cup {None}]
  /\ expiring \in [Collectors -> SUBSET Keys]
  /\ spent \in [Collectors -> Nat]
  /\ visited \in [Collectors -> SUBSET Keys]

Failures == failures \in 0..MaxFailures

Cutoffs == cutoff \in [Collectors -> [rows : SUBSET Keys, files : SUBSET Keys]]

\* The rows are those that were inserted.
Births == {births[i] : i \in DOMAIN births} = {k \in Keys : row[k] # "none"}

\* What a pass has spent and may still spend on its rows fits its batch.
Budget ==
  \A c \in Collectors :
    /\ spent[c] <= MaxBatch
    /\ phase[c] = "idle" => spent[c] = 0
    /\ phase[c] = "rows" => /\ IsFiniteSet(todo[c])
                            /\ spent[c] + Cardinality(todo[c]) <= MaxBatch

LEMMA TypeSplit == Ranges /\ Cutoffs /\ Failures /\ Births /\ Budget => TypeOK
<1> SUFFICES ASSUME Ranges, Cutoffs, Failures, Births, Budget
             PROVE  spent \in [Collectors -> 0..MaxBatch]
  BY DEF TypeOK, Ranges, Cutoffs, Failures, Births
<1> QED BY CollectionAssumption DEF Ranges, Budget

-----------------------------------------------------------------------------
(* The steps, grouped by what they change. *)

Registers(k) ==
  /\ RowFree(k) /\ RegisterTx(k)
  /\ pub[k] = "registering" /\ \E label \in {"promoting", "stored"} : Goto(k, label)

References(k) ==
  /\ RowFree(k) /\ ReferenceTx(k)
  /\ pub[k] = "referencing" /\ \E label \in {"published", "stored"} : Goto(k, label)

Promotes(k) ==
  \/ PromotePayload(k, "resuming", "resuming_meta")
  \/ PromotePayload(k, "promoting", "promoting_meta")
  \/ PromoteMeta(k, "resuming_meta", "registering")
  \/ PromoteMeta(k, "promoting_meta", "referencing")

\* The publisher only goes on or gives up.
Turns(k) ==
  \/ Inspect(k) \/ RegisterRefused(k) \/ ReferenceRefused(k)
  \/ /\ pub[k] \in {"resuming", "resuming_meta", "promoting", "promoting_meta"}
     /\ Goto(k, "stored")
     /\ UNCHANGED <<owner, rows, files, cutoff, progress>>

Publishes(k) ==
  \/ PutPayload(k) \/ PutMeta(k) \/ Promotes(k) \/ Turns(k)
  \/ Registers(k) \/ References(k)

Takes(c) == \E k \in Keys : TakeRow(c, k) \/ TakeCandidate(c, k)
Skips(c) == \E k \in Keys : SkipRow(c, k) \/ SkipCandidate(c, k)
Starts(c) == \E oldRows, oldFiles \in SUBSET Keys : StartPass(c, oldRows, oldFiles)

Collects(c) ==
  \/ Starts(c) \/ Skips(c) \/ Takes(c) \/ Unlink(c) \/ RowDeleted(c)
  \/ EndRows(c) \/ Scan(c) \/ CandidateDeleted(c) \/ EndPass(c) \/ CollectorFails(c)

LEMMA NextSplit ==
  ASSUME Next
  PROVE  \/ \E k \in Keys : Publishes(k) /\ failures' \in {failures, failures + 1}
                                         /\ (failures' # failures => failures < MaxFailures)
         \/ \E k \in Keys : EndStage(k) \/ EndRun(k)
         \/ \E c \in Collectors : Collects(c)
<1>1. CASE \E k \in Keys : Publish(k)
  <2> PICK k \in Keys : Publish(k) BY <1>1
  <2>1. failures' = failures
    BY DEF Publish, PutPayload, PutMeta, Inspect, PromotePayload, PromoteMeta, Register,
           RegisterRefused, Reference, ReferenceRefused
  <2>2. Publishes(k)
    BY DEF Publish, Publishes, Promotes, Turns, Registers, References, Register, Reference
  <2> QED BY <2>1, <2>2
<1>2. CASE \E k \in Keys : PublisherFails(k)
  <2> PICK k \in Keys : PublisherFails(k) BY <1>2
  <2> QED BY DEF PublisherFails, Publishes, Turns, Registers, References
<1>3. CASE \E c \in Collectors : Collect(c)
  BY <1>3 DEF Collect, Collects, Takes, Skips
<1> QED BY <1>1, <1>2, <1>3 DEF Next, Collects, Starts

-----------------------------------------------------------------------------
(* Selection.  The number of older eligible rows numbers the selected ones    *)
(* from 0 to MaxBatch - 1.                                                    *)

Below(S, i) == {j \in S : j < i}
Lowest(S, n) == {i \in S : Cardinality(Below(S, i)) < n}

LEMMA BelowIsFinite ==
  ASSUME NEW S, IsFiniteSet(S), NEW i
  PROVE  IsFiniteSet(Below(S, i)) /\ Cardinality(Below(S, i)) \in Nat
<1>1. Below(S, i) \in SUBSET S
  BY DEF Below
<1> QED BY <1>1, FS_Subset, FS_CardinalityType

LEMMA BelowGrows ==
  ASSUME NEW S \in SUBSET Nat, IsFiniteSet(S), NEW i \in S, NEW j \in S, i < j
  PROVE  Cardinality(Below(S, i)) < Cardinality(Below(S, j))
<1>1. Below(S, i) \cup {i} \in SUBSET Below(S, j) /\ i \notin Below(S, i)
  <2>1. i \in Nat /\ j \in Nat /\ S \subseteq Nat
    OBVIOUS
  <2>2. \A k \in Nat : k < i => k < j
    BY <2>1
  <2>3. ~(i < i)
    BY <2>1
  <2> QED BY <2>1, <2>2, <2>3 DEF Below
<1>2. Cardinality(Below(S, i) \cup {i}) = Cardinality(Below(S, i)) + 1
  BY <1>1, BelowIsFinite, FS_AddElement
<1>3. Cardinality(Below(S, i) \cup {i}) <= Cardinality(Below(S, j))
  BY <1>1, BelowIsFinite, FS_Subset
<1> QED BY <1>2, <1>3, BelowIsFinite

LEMMA LowestAreFew ==
  ASSUME NEW S \in SUBSET Nat, IsFiniteSet(S), NEW n \in Nat
  PROVE  IsFiniteSet(Lowest(S, n)) /\ Cardinality(Lowest(S, n)) <= n
<1> DEFINE rank == [i \in Lowest(S, n) |-> Cardinality(Below(S, i))]
<1>1. rank \in [Lowest(S, n) -> 0..(n - 1)]
  BY BelowIsFinite DEF Lowest
<1>2. \A i, j \in Lowest(S, n) : rank[i] = rank[j] => i = j
  <2> SUFFICES ASSUME NEW i \in Lowest(S, n), NEW j \in Lowest(S, n), i # j
               PROVE  rank[i] # rank[j]
    OBVIOUS
  <2>1. i \in S /\ j \in S /\ (i < j \/ j < i)
    BY DEF Lowest
  <2>2. Cardinality(Below(S, i)) # Cardinality(Below(S, j))
    BY <2>1, BelowGrows, BelowIsFinite
  <2> QED BY <2>2
<1>3. rank \in Injection(Lowest(S, n), 0..(n - 1))
  <2> HIDE DEF rank
  <2> QED BY <1>1, <1>2 DEF Injection, IsInjective
<1>4. IsFiniteSet(0..(n - 1)) /\ Cardinality(0..(n - 1)) = n
  BY FS_Interval
<1> HIDE DEF rank
<1> QED BY <1>3, <1>4, FS_Injection

LEMMA SelectedIsBounded ==
  ASSUME Ranges, NEW oldRows
  PROVE  /\ IsFiniteSet(Selected(oldRows))
         /\ Cardinality(Selected(oldRows)) \in 0..MaxBatch
         /\ \A k \in Selected(oldRows) : k \in Keys /\ Eligible(k, oldRows)
<1> DEFINE eligible == {i \in DOMAIN births : Eligible(births[i], oldRows)}
           chosen == Lowest(eligible, MaxBatch)
           key == [i \in chosen |-> births[i]]
<1>1. Selected(oldRows) = {births[i] : i \in chosen}
  BY DEF Selected, Oldest, Lowest, Below
<1>2. DOMAIN births = 1..Len(births) /\ Len(births) \in Nat
  BY DEF Ranges
<1>3. IsFiniteSet(1..Len(births)) /\ eligible \in SUBSET (1..Len(births))
  BY <1>2, FS_Interval
<1>4. IsFiniteSet(eligible) /\ eligible \in SUBSET Nat
  <2>1. 1..Len(births) \subseteq Nat
    BY <1>2
  <2> HIDE DEF eligible
  <2>2. IsFiniteSet(eligible)
    BY <1>3, FS_Subset
  <2> QED BY <1>3, <2>1, <2>2
<1>5. IsFiniteSet(chosen) /\ Cardinality(chosen) <= MaxBatch
  <2> HIDE DEF eligible
  <2> QED BY <1>4, LowestAreFew, CollectionAssumption
<1>6. key \in Surjection(chosen, Selected(oldRows))
  <2> HIDE DEF chosen
  <2> QED BY <1>1 DEF Surjection
<1>7. IsFiniteSet(Selected(oldRows)) /\ Cardinality(Selected(oldRows)) <= Cardinality(chosen)
  <2> HIDE DEF chosen, key
  <2> QED BY <1>5, <1>6, FS_Surjection
<1>8. Cardinality(Selected(oldRows)) \in Nat /\ Cardinality(chosen) \in Nat
  BY <1>5, <1>7, FS_CardinalityType
<1>9. \A k \in Selected(oldRows) : k \in Keys /\ Eligible(k, oldRows)
  <2> SUFFICES ASSUME NEW i \in chosen
               PROVE  births[i] \in Keys /\ Eligible(births[i], oldRows)
    BY <1>1
  <2>1. i \in eligible
    BY DEF Lowest
  <2> QED BY <2>1, <1>2 DEF Ranges
<1> QED BY <1>5, <1>7, <1>8, <1>9, CollectionAssumption

-----------------------------------------------------------------------------
(* Type correctness. *)

LEMMA GotoPosition ==
  ASSUME Ranges, NEW k \in Keys, NEW label \in Positions, Goto(k, label)
  PROVE  pub' \in [Keys -> Positions]
  BY DEF Ranges, Goto

LEMMA RangesStep == ASSUME Ranges, Next PROVE Ranges'
<1>1. ASSUME NEW k \in Keys, Publishes(k) PROVE Ranges'
  <2> USE DEF Ranges, rows, progress
  <2>1. pub' \in [Keys -> Positions]
    <3>1. CASE PutPayload(k) \/ PutMeta(k) \/ Promotes(k)
      BY <3>1, GotoPosition DEF PutPayload, PutMeta, Promotes, PromotePayload, PromoteMeta,
         Positions
    <3>2. CASE Turns(k) \/ Registers(k) \/ References(k)
      BY <3>2, GotoPosition DEF Turns, Inspect, RegisterRefused, ReferenceRefused, Registers,
         References, Positions
    <3> QED BY <1>1, <3>1, <3>2 DEF Publishes
  <2>2. CASE PutPayload(k) \/ PutMeta(k)
    <3>1. files' \in [Keys -> SUBSET File]
      <4>1. {"tp"} \in SUBSET File /\ files[k] \cup {"tm"} \in SUBSET File
        BY DEF File
      <4> QED BY <2>2, <4>1 DEF PutPayload, PutMeta
    <3> QED BY <2>1, <2>2, <3>1 DEF PutPayload, PutMeta
  <2>3. CASE Promotes(k)
    <3>1. files' \in [Keys -> SUBSET File]
      <4>1. /\ Renamed(files[k], "tp", "rp") \in SUBSET File
            /\ Renamed(files[k], "tm", "rm") \in SUBSET File
        BY DEF File, Renamed
      <4> QED BY <2>3, <4>1 DEF Promotes, PromotePayload, PromoteMeta
    <3> QED BY <2>1, <2>3, <3>1 DEF Promotes, PromotePayload, PromoteMeta
  <2>4. CASE Turns(k)
    BY <2>1, <2>4 DEF Turns, Inspect, RegisterRefused, ReferenceRefused
  <2>5. CASE Registers(k)
    <3>1. births' \in Seq(Keys)
      <4>1. Append(births, k) \in Seq(Keys)
        OBVIOUS
      <4>2. births' = births \/ births' = Append(births, k)
        BY <2>5 DEF Registers, RegisterTx
      <4> QED BY <4>1, <4>2
    <3>2. row' \in [Keys -> {"none", "temporary", "referenced", "expired"}]
      BY <2>5 DEF Registers, RegisterTx
    <3>3. owner' = owner /\ files' = files /\ UNCHANGED progress
      BY <2>5 DEF Registers, RegisterTx
    <3> QED BY <2>1, <3>1, <3>2, <3>3
  <2>6. CASE References(k)
    BY <2>1, <2>6 DEF References, ReferenceTx
  <2> QED BY <1>1, <2>2, <2>3, <2>4, <2>5, <2>6 DEF Publishes
<1>2. ASSUME NEW k \in Keys, EndStage(k) \/ EndRun(k) PROVE Ranges'
  BY <1>2 DEF EndStage, EndRun, Active, Ranges, rows, progress
<1>3. ASSUME NEW c \in Collectors, Collects(c) PROVE Ranges'
  <2> USE DEF Ranges, rows
  <2>1. CASE Starts(c)
    <3> PICK oldRows \in SUBSET Keys, oldFiles \in SUBSET Keys : StartPass(c, oldRows, oldFiles)
      BY <2>1 DEF Starts
    <3>1. Selected(oldRows) \in SUBSET Keys
      BY SelectedIsBounded
    <3> QED BY <3>1 DEF StartPass
  <2>2. CASE Skips(c)
    <3> PICK k \in Keys : Skip(c, k)
      BY <2>2 DEF Skips, SkipRow, SkipCandidate
    <3>1. todo' \in [Collectors -> SUBSET Keys]
      BY DEF Skip
    <3> QED BY <3>1 DEF Skip
  <2>3. CASE Takes(c)
    <3> PICK k \in Keys : TakeRow(c, k) \/ TakeCandidate(c, k)
      BY <2>3 DEF Takes
    <3>1. Take(c, k)
      BY DEF TakeRow, TakeCandidate
    <3>2. locked' \in [Collectors -> SUBSET Keys]
      <4>1. locked' = locked \/ \E held \in SUBSET Keys : locked' = [locked EXCEPT ![c] = held]
        BY DEF TakeRow, TakeCandidate
      <4> QED BY <4>1
    <3>3. /\ todo' \in [Collectors -> SUBSET Keys]
          /\ target' \in [Collectors -> Keys \cup {None}]
          /\ spent' \in [Collectors -> Nat]
      BY <3>1 DEF Take
    <3> QED BY <3>1, <3>2, <3>3 DEF Take
  <2>4. CASE Unlink(c)
    <3>1. PICK name : files' = [files EXCEPT ![target[c]] = @ \ {name}]
      BY <2>4 DEF Unlink
    <3>2. files' \in [Keys -> SUBSET File]
      BY <3>1
    <3> QED BY <2>4, <3>2 DEF Unlink, progress
  <2>5. CASE RowDeleted(c)
    <3>1. expiring' \in [Collectors -> SUBSET Keys]
      <4>1. target[c] \in Keys
        BY <2>5 DEF RowDeleted
      <4> QED BY <2>5, <4>1 DEF RowDeleted
    <3>2. target' \in [Collectors -> Keys \cup {None}]
      BY <2>5 DEF RowDeleted
    <3> QED BY <2>5, <3>1, <3>2 DEF RowDeleted
  <2>6. CASE EndRows(c) \/ CandidateDeleted(c)
    <3>1. PICK expired, ended : Commit(c, expired, ended)
      BY <2>6 DEF EndRows, CandidateDeleted
    <3>2. row' \in [Keys -> {"none", "temporary", "referenced", "expired"}]
      BY <3>1 DEF Commit
    <3>3. /\ locked' \in [Collectors -> SUBSET Keys]
          /\ expiring' \in [Collectors -> SUBSET Keys]
          /\ target' \in [Collectors -> Keys \cup {None}]
      BY <3>1 DEF Commit
    <3>4. /\ phase' \in [Collectors -> {"idle", "rows", "scan", "candidates"}]
          /\ todo' \in [Collectors -> SUBSET Keys]
          /\ spent' \in [Collectors -> Nat]
      <4>1. CASE Forget(c)
        BY <4>1 DEF Forget
      <4>2. CASE /\ phase' = phase \/ phase' = [phase EXCEPT ![c] = "scan"]
                 /\ UNCHANGED <<todo, spent>>
        BY <4>2
      <4> QED BY <2>6, <4>1, <4>2 DEF EndRows, CandidateDeleted
    <3>5. visited' = visited
      BY <2>6 DEF EndRows, CandidateDeleted
    <3> QED BY <3>1, <3>2, <3>3, <3>4, <3>5 DEF Commit
  <2>7. CASE Scan(c)
    <3>1. PICK found \in SUBSET Keys : /\ todo' = [todo EXCEPT ![c] = found]
                                      /\ visited' = [visited EXCEPT ![c] = Restart(@, found)]
      BY <2>7 DEF Scan
    <3>2. Restart(visited[c], found) \in SUBSET Keys
      BY DEF Restart
    <3> QED BY <2>7, <3>1, <3>2 DEF Scan
  <2>8. CASE EndPass(c) \/ CollectorFails(c)
    <3>1. /\ phase' = [phase EXCEPT ![c] = "idle"]
          /\ todo' = [todo EXCEPT ![c] = {}]
          /\ spent' = [spent EXCEPT ![c] = 0]
          /\ UNCHANGED <<owner, row, births, files, pub>>
      BY <2>8 DEF EndPass, CollectorFails, Forget
    <3>2. /\ locked' \in [Collectors -> SUBSET Keys]
          /\ target' \in [Collectors -> Keys \cup {None}]
          /\ expiring' \in [Collectors -> SUBSET Keys]
          /\ visited' \in [Collectors -> SUBSET Keys]
      BY <2>8 DEF EndPass, CollectorFails
    <3> QED BY <3>1, <3>2
  <2> QED BY <1>3, <2>1, <2>2, <2>3, <2>4, <2>5, <2>6, <2>7, <2>8 DEF Collects
<1> QED BY <1>1, <1>2, <1>3, NextSplit

-----------------------------------------------------------------------------
(* What a collector holds.  A row that it locks was temporary when it was     *)
(* locked, and no other transaction writes it before the lock is released.    *)

\* No row is locked twice.
Exclusive ==
  \A c, d \in Collectors : \A k \in Keys : k \in locked[c] /\ k \in locked[d] => c = d

Held ==
  \A c \in Collectors :
    /\ phase[c] = "rows" =>
         /\ todo[c] \subseteq locked[c] /\ expiring[c] \subseteq locked[c]
         /\ target[c] # None => target[c] \in locked[c]
         /\ \A k \in locked[c] : row[k] = "temporary"
    /\ phase[c] \in {"idle", "scan"} => target[c] = None
    /\ target[c] = None /\ phase[c] # "rows" => locked[c] = {}
    /\ phase[c] # "rows" => expiring[c] = {}

\* Only rows that no pass has found referenced are deleted, and only of runs that
\* have ended, which is final.
Targeted ==
  \A c \in Collectors : target[c] # None =>
    /\ owner[target[c]] = "ended"
    /\ row[target[c]] # "referenced"

LockInv == Exclusive /\ Held

\* Commit expires rows that are still temporary.
LEMMA ExpiredWereTemporary ==
  ASSUME Ranges, LockInv, NEW c \in Collectors, EndRows(c) \/ CandidateDeleted(c)
  PROVE  \E expired, ended :
           /\ Commit(c, expired, ended)
           /\ \A k \in expired : k \in Keys /\ k \in locked[c] /\ row[k] = "temporary"
<1>1. CASE EndRows(c)
  <2>1. \A k \in expiring[c] : k \in Keys /\ k \in locked[c] /\ row[k] = "temporary"
    BY <1>1 DEF EndRows, LockInv, Held, Ranges
  <2>2. Commit(c, expiring[c], {c}) \/ Commit(c, expiring[c], {})
    BY <1>1 DEF EndRows
  <2> QED BY <2>1, <2>2
<1>2. CASE CandidateDeleted(c)
  <2>1. \A k \in {l \in locked[c] : row[l] = "temporary"} : k \in Keys
    BY DEF Ranges
  <2>2. Commit(c, {k \in locked[c] : row[k] = "temporary"}, {})
    BY <1>2 DEF CandidateDeleted
  <2> QED BY <2>1, <2>2
<1> QED BY <1>1, <1>2

LEMMA BirthsStep == ASSUME Ranges, Births, LockInv, Next PROVE Births'
<1> USE DEF rows, progress
<1>1. ASSUME NEW k \in Keys, Publishes(k) PROVE Births'
  <2>1. CASE Registers(k) /\ row[k] = "none"
    <3>1. births' = Append(births, k) /\ row' = [row EXCEPT ![k] = "temporary"]
      BY <2>1 DEF Registers, RegisterTx
    <3>2. {births'[i] : i \in DOMAIN births'} = {births[i] : i \in DOMAIN births} \cup {k}
      <4>1. /\ Len(births) \in Nat /\ DOMAIN births = 1..Len(births)
            /\ DOMAIN births' = 1..(Len(births) + 1)
            /\ \A i \in 1..Len(births) : births'[i] = births[i]
            /\ births'[Len(births) + 1] = k
        BY <3>1 DEF Ranges
      <4>2. DOMAIN births' = DOMAIN births \cup {Len(births) + 1}
        BY <4>1
      <4>3. {births'[i] : i \in DOMAIN births'} \subseteq {births[i] : i \in DOMAIN births} \cup {k}
        BY <4>1, <4>2
      <4>4. \A i \in DOMAIN births : births[i] \in {births'[j] : j \in DOMAIN births'}
        <5> SUFFICES ASSUME NEW i \in DOMAIN births
                     PROVE  \E j \in DOMAIN births' : births[i] = births'[j]
          OBVIOUS
        <5> QED BY <4>1, <4>2
      <4>5. k \in {births'[j] : j \in DOMAIN births'}
        BY <4>1
      <4> QED BY <4>3, <4>4, <4>5
    <3>3. {l \in Keys : row'[l] # "none"} = {l \in Keys : row[l] # "none"} \cup {k}
      BY <3>1 DEF Ranges
    <3> QED BY <3>2, <3>3 DEF Births
  <2>2. CASE References(k)
    <3>1. births' = births /\ {l \in Keys : row'[l] # "none"} = {l \in Keys : row[l] # "none"}
      BY <2>2 DEF References, ReferenceTx, Referencable, Ranges
    <3> QED BY <3>1 DEF Births
  <2>3. CASE ~(Registers(k) /\ row[k] = "none") /\ ~References(k)
    <3>1. UNCHANGED <<row, births>>
      BY <1>1, <2>3 DEF Publishes, PutPayload, PutMeta, Promotes, PromotePayload, PromoteMeta,
            Turns, Inspect, RegisterRefused, ReferenceRefused, Registers, RegisterTx
    <3> QED BY <3>1 DEF Births
  <2> QED BY <2>1, <2>2, <2>3
<1>2. ASSUME NEW k \in Keys, EndStage(k) \/ EndRun(k) PROVE Births'
  BY <1>2 DEF EndStage, EndRun, Births
<1>3. ASSUME NEW c \in Collectors, Collects(c) PROVE Births'
  <2>1. CASE EndRows(c) \/ CandidateDeleted(c)
    <3>1. PICK expired, ended : /\ Commit(c, expired, ended)
                               /\ \A k \in expired : k \in Keys /\ row[k] = "temporary"
      BY <2>1, ExpiredWereTemporary
    <3>2. births' = births /\ \A k \in Keys : row'[k] # "none" <=> row[k] # "none"
      BY <3>1 DEF Commit
    <3>3. {k \in Keys : row'[k] # "none"} = {k \in Keys : row[k] # "none"}
      BY <3>2
    <3> QED BY <3>2, <3>3 DEF Births
  <2>2. CASE ~(EndRows(c) \/ CandidateDeleted(c))
    <3>1. UNCHANGED <<row, births>>
      BY <1>3, <2>2 DEF Collects, Starts, StartPass, Skips, SkipRow, SkipCandidate, Skip, Takes,
            TakeRow, TakeCandidate, Take, Unlink, RowDeleted, Scan, EndPass, CollectorFails
    <3> QED BY <3>1 DEF Births
  <2> QED BY <2>1, <2>2
<1> QED BY <1>1, <1>2, <1>3, NextSplit

LEMMA CutoffsStep == ASSUME Cutoffs, Next PROVE Cutoffs'
<1>1. ASSUME NEW touchedRows, NEW touchedFiles, NEW ended,
             Younger(touchedRows, touchedFiles, ended)
      PROVE  Cutoffs'
  <2> SUFFICES ASSUME NEW c \in Collectors
               PROVE  (IF c \in ended THEN NoCutoff
                       ELSE [rows |-> cutoff[c].rows \ touchedRows,
                             files |-> cutoff[c].files \ touchedFiles])
                        \in [rows : SUBSET Keys, files : SUBSET Keys]
    BY <1>1 DEF Younger, Cutoffs
  <2>1. cutoff[c].rows \in SUBSET Keys /\ cutoff[c].files \in SUBSET Keys
    BY DEF Cutoffs
  <2> QED BY <2>1 DEF NoCutoff
<1>2. ASSUME NEW k \in Keys, Publishes(k) \/ EndStage(k) \/ EndRun(k) PROVE Cutoffs'
  <2>1. cutoff' = cutoff \/ \E touchedRows, touchedFiles : Younger(touchedRows, touchedFiles, {})
    BY <1>2 DEF Publishes, PutPayload, PutMeta, Promotes, PromotePayload, PromoteMeta, Turns,
       Inspect, RegisterRefused, ReferenceRefused, Registers, RegisterTx, References,
       ReferenceTx, EndStage, EndRun
  <2> QED BY <2>1, <1>1 DEF Cutoffs
<1>3. ASSUME NEW c \in Collectors, Collects(c) PROVE Cutoffs'
  <2>1. CASE Starts(c)
    BY <2>1 DEF Starts, StartPass, Cutoffs
  <2>2. CASE Skips(c) \/ Takes(c) \/ Unlink(c) \/ RowDeleted(c) \/ Scan(c)
    BY <2>2 DEF Skips, SkipRow, SkipCandidate, Skip, Takes, TakeRow, TakeCandidate, Take,
       Unlink, RowDeleted, Scan, Cutoffs
  <2>3. CASE EndRows(c) \/ CandidateDeleted(c) \/ EndPass(c) \/ CollectorFails(c)
    <3>1. \E touched, ended : Younger(touched, {}, ended)
      BY <2>3 DEF EndRows, CandidateDeleted, Commit, EndPass, CollectorFails
    <3> QED BY <3>1, <1>1
  <2> QED BY <1>3, <2>1, <2>2, <2>3 DEF Collects
<1> QED BY <1>2, <1>3, NextSplit

LEMMA FailuresStep == ASSUME Failures, Next PROVE Failures'
<1>1. failures' = failures \/ (failures < MaxFailures /\ failures' = failures + 1)
  <2>1. ASSUME NEW c \in Collectors, Collects(c)
        PROVE  failures' = failures \/ (failures < MaxFailures /\ failures' = failures + 1)
    BY <2>1 DEF Collects, Starts, StartPass, Skips, SkipRow, SkipCandidate, Skip, Takes, TakeRow,
       TakeCandidate, Take, Unlink, RowDeleted, EndRows, Commit, Scan, CandidateDeleted, EndPass,
       CollectorFails
  <2>2. ASSUME NEW k \in Keys, EndStage(k) \/ EndRun(k) PROVE failures' = failures
    BY <2>2 DEF EndStage, EndRun
  <2> QED BY <2>1, <2>2, NextSplit
<1> QED BY <1>1, CollectionAssumption DEF Failures

-----------------------------------------------------------------------------
(* The batch of a pass. *)

LEMMA BudgetStep == ASSUME Ranges, Budget, Next PROVE Budget'
<1> USE CollectionAssumption
<1>1. ASSUME NEW k \in Keys, Publishes(k) \/ EndStage(k) \/ EndRun(k) PROVE Budget'
  <2>1. UNCHANGED <<phase, todo, spent>>
    BY <1>1 DEF Publishes, PutPayload, PutMeta, Promotes, PromotePayload, PromoteMeta, Turns,
       Inspect, RegisterRefused, ReferenceRefused, Registers, RegisterTx, References,
       ReferenceTx, EndStage, EndRun, progress
  <2> QED BY <2>1 DEF Budget
<1>2. ASSUME NEW c \in Collectors, Collects(c) PROVE Budget'
  <2> DEFINE Within(p, s, t) ==
        /\ s <= MaxBatch
        /\ p = "idle" => s = 0
        /\ p = "rows" => IsFiniteSet(t) /\ s + Cardinality(t) <= MaxBatch
  <2>0. Within(phase[c], spent[c], todo[c]) /\ spent[c] \in Nat
    BY DEF Budget, Ranges
  <2>1. ASSUME NEW p, NEW s, NEW t, Within(p, s, t),
               phase' = [phase EXCEPT ![c] = p],
               spent' = [spent EXCEPT ![c] = s],
               todo' = [todo EXCEPT ![c] = t]
        PROVE  Budget'
    <3> SUFFICES ASSUME NEW d \in Collectors PROVE Within(phase'[d], spent'[d], todo'[d])
      BY DEF Budget
    <3>1. CASE d = c
      BY <3>1, <2>1 DEF Ranges
    <3>2. CASE d # c
      BY <3>2, <2>1 DEF Ranges, Budget
    <3> QED BY <3>1, <3>2
  <2>2. /\ phase = [phase EXCEPT ![c] = phase[c]]
        /\ spent = [spent EXCEPT ![c] = spent[c]]
        /\ todo = [todo EXCEPT ![c] = todo[c]]
    BY DEF Ranges
  <2>3. CASE Starts(c)
    <3> PICK oldRows \in SUBSET Keys, oldFiles \in SUBSET Keys : StartPass(c, oldRows, oldFiles)
      BY <2>3 DEF Starts
    <3>1. spent[c] = 0 /\ phase[c] = "idle"
      BY DEF StartPass, Budget
    <3>2. Within("rows", spent[c], Selected(oldRows))
      BY <3>1, SelectedIsBounded
    <3> QED BY <3>2, <2>1, <2>2 DEF StartPass
  <2>4. CASE Skips(c) \/ Takes(c)
    <3> PICK k \in Keys :
          SkipRow(c, k) \/ TakeRow(c, k) \/ SkipCandidate(c, k) \/ TakeCandidate(c, k)
      BY <2>4 DEF Skips, Takes
    <3> DEFINE rest == todo[c] \ {k}
    <3>1. todo' = [todo EXCEPT ![c] = rest] /\ phase' = phase
      BY DEF SkipRow, SkipCandidate, Skip, TakeRow, TakeCandidate, Take
    <3>2. \/ spent' = spent
          \/ /\ spent' = [spent EXCEPT ![c] = spent[c] + 1]
             /\ phase[c] = "rows" \/ spent[c] < MaxBatch
      BY DEF SkipRow, SkipCandidate, Skip, TakeRow, TakeCandidate, Take, Considering
    <3>3. phase[c] \in {"rows", "candidates"} /\ k \in todo[c]
      BY DEF SkipRow, SkipCandidate, TakeRow, TakeCandidate, Considering
    <3>4. phase[c] = "rows" => /\ IsFiniteSet(rest) /\ Cardinality(rest) \in Nat
                               /\ Cardinality(rest) + 1 = Cardinality(todo[c])
      <4> SUFFICES ASSUME IsFiniteSet(todo[c])
                   PROVE  /\ IsFiniteSet(rest) /\ Cardinality(rest) \in Nat
                          /\ Cardinality(rest) + 1 = Cardinality(todo[c])
        BY <2>0
      <4> QED BY <3>3, FS_RemoveElement, FS_CardinalityType
    <3> HIDE DEF rest
    <3>5. phase[c] = "rows" => spent[c] + 1 + Cardinality(rest) <= MaxBatch
      BY <2>0, <3>4
    <3>6. Within(phase[c], spent[c], rest)
      BY <2>0, <3>3, <3>4, <3>5
    <3>7. phase[c] = "rows" \/ spent[c] < MaxBatch => Within(phase[c], spent[c] + 1, rest)
      BY <2>0, <3>3, <3>4, <3>5
    <3> HIDE DEF Within
    <3> QED BY <3>1, <3>2, <3>6, <3>7, <2>1, <2>2
  <2>5. CASE Unlink(c) \/ RowDeleted(c) \/ CandidateDeleted(c)
    BY <2>5 DEF Unlink, RowDeleted, CandidateDeleted, progress, Budget
  <2>6. CASE Forget(c)
    <3>1. Within("idle", 0, {})
      OBVIOUS
    <3> QED BY <3>1, <2>6, <2>1 DEF Forget
  <2>7. CASE phase' = [phase EXCEPT ![c] = "scan"] /\ UNCHANGED <<todo, spent>>
    <3>1. Within("scan", spent[c], todo[c])
      BY <2>0
    <3> HIDE DEF Within
    <3> QED BY <3>1, <2>7, <2>1, <2>2
  <2>8. CASE Scan(c)
    <3> PICK found : todo' = [todo EXCEPT ![c] = found]
      BY <2>8 DEF Scan
    <3>1. Within("candidates", spent[c], found)
      BY <2>0
    <3>2. spent' = spent /\ phase' = [phase EXCEPT ![c] = "candidates"]
      BY <2>8 DEF Scan
    <3> HIDE DEF Within
    <3> QED BY <3>1, <3>2, <2>1, <2>2
  <2>9. Starts(c) \/ Skips(c) \/ Takes(c) \/ Unlink(c) \/ RowDeleted(c) \/ CandidateDeleted(c)
        \/ Scan(c) \/ Forget(c)
        \/ (phase' = [phase EXCEPT ![c] = "scan"] /\ UNCHANGED <<todo, spent>>)
    BY <1>2 DEF Collects, EndRows, EndPass, CollectorFails
  <2> QED BY <2>3, <2>4, <2>5, <2>6, <2>7, <2>8, <2>9
<1> QED BY <1>1, <1>2, NextSplit

-----------------------------------------------------------------------------
(* Locks. *)

\* A publisher writes no row that a collector has locked.
LEMMA PublishersWait ==
  ASSUME Ranges, NEW k \in Keys, Publishes(k) \/ EndStage(k) \/ EndRun(k)
  PROVE  /\ UNCHANGED progress
         /\ \A c \in Collectors : \A l \in locked[c] : row'[l] = row[l]
<1>1. UNCHANGED progress
  BY DEF Publishes, PutPayload, PutMeta, Promotes, PromotePayload, PromoteMeta, Turns, Inspect,
     RegisterRefused, ReferenceRefused, Registers, RegisterTx, References, ReferenceTx,
     EndStage, EndRun
<1>2. row' = row \/ (RowFree(k) /\ \E state : row' = [row EXCEPT ![k] = state])
  BY DEF Publishes, PutPayload, PutMeta, Promotes, PromotePayload, PromoteMeta, Turns, Inspect,
     RegisterRefused, ReferenceRefused, Registers, RegisterTx, References, ReferenceTx,
     EndStage, EndRun, rows
<1> QED BY <1>1, <1>2 DEF RowFree, Ranges

\* A step of a collector leaves the others alone, and the rows they have locked.
LEMMA CollectorsApart ==
  ASSUME Ranges, LockInv, NEW c \in Collectors, Collects(c), NEW d \in Collectors, c # d
  PROVE  /\ phase'[d] = phase[d] /\ locked'[d] = locked[d] /\ todo'[d] = todo[d]
         /\ target'[d] = target[d] /\ expiring'[d] = expiring[d]
         /\ \A l \in locked[d] : row'[l] = row[l]
<1>1. CASE EndRows(c) \/ CandidateDeleted(c)
  <2>1. PICK expired, ended : /\ Commit(c, expired, ended)
                             /\ \A k \in expired : k \in Keys /\ k \in locked[c]
    BY <1>1, ExpiredWereTemporary
  <2>2. \A l \in locked[d] : l \in Keys /\ l \notin expired
    BY <2>1 DEF LockInv, Exclusive, Ranges
  <2>3. \A l \in locked[d] : row'[l] = row[l]
    BY <2>1, <2>2 DEF Commit
  <2>4. /\ locked'[d] = locked[d] /\ target'[d] = target[d] /\ expiring'[d] = expiring[d]
    BY <2>1 DEF Commit, Ranges
  <2>5. phase'[d] = phase[d] /\ todo'[d] = todo[d]
    BY <1>1 DEF EndRows, CandidateDeleted, Forget, Ranges
  <2> QED BY <2>3, <2>4, <2>5
<1>2. CASE Starts(c) \/ Skips(c) \/ Takes(c) \/ Unlink(c) \/ RowDeleted(c)
  <2>1. row' = row
    BY <1>2 DEF Starts, StartPass, Skips, SkipRow, SkipCandidate, Skip, Takes, TakeRow,
       TakeCandidate, Take, Unlink, RowDeleted, rows
  <2>2. phase'[d] = phase[d] /\ locked'[d] = locked[d]
    BY <1>2 DEF Starts, StartPass, Skips, SkipRow, SkipCandidate, Skip, Takes, TakeRow,
       TakeCandidate, Take, Unlink, RowDeleted, progress, Ranges
  <2>3. todo'[d] = todo[d] /\ target'[d] = target[d] /\ expiring'[d] = expiring[d]
    BY <1>2 DEF Starts, StartPass, Skips, SkipRow, SkipCandidate, Skip, Takes, TakeRow,
       TakeCandidate, Take, Unlink, RowDeleted, progress, Ranges
  <2> QED BY <2>1, <2>2, <2>3
<1>3. CASE Scan(c) \/ EndPass(c) \/ CollectorFails(c)
  <2>1. row' = row
    BY <1>3 DEF Scan, EndPass, CollectorFails, rows
  <2>2. phase'[d] = phase[d] /\ locked'[d] = locked[d]
    BY <1>3 DEF Scan, EndPass, CollectorFails, Forget, Ranges
  <2>3. todo'[d] = todo[d] /\ target'[d] = target[d] /\ expiring'[d] = expiring[d]
    BY <1>3 DEF Scan, EndPass, CollectorFails, Forget, Ranges
  <2> QED BY <2>1, <2>2, <2>3
<1> QED BY <1>1, <1>2, <1>3 DEF Collects

\* What one collector holds, for its position and its variables.
HeldAt(p, held, rest, next, done) ==
  /\ p = "rows" =>
       /\ rest \subseteq held /\ done \subseteq held
       /\ next # None => next \in held
       /\ \A k \in held : row[k] = "temporary"
  /\ p \in {"idle", "scan"} => next = None
  /\ next = None /\ p # "rows" => held = {}
  /\ p # "rows" => done = {}

LEMMA HeldStep ==
  ASSUME Ranges, LockInv, NEW c \in Collectors, Collects(c)
  PROVE  /\ HeldAt(phase[c], locked[c], todo[c], target[c], expiring[c])'
         /\ \A k \in locked'[c] : k \in locked[c] \/ (k \in Keys /\ RowFree(k))
<1>0. HeldAt(phase[c], locked[c], todo[c], target[c], expiring[c])
  BY DEF LockInv, Held, HeldAt
<1>1. CASE Starts(c)
  <2> PICK oldRows \in SUBSET Keys, oldFiles \in SUBSET Keys : StartPass(c, oldRows, oldFiles)
    BY <1>1 DEF Starts
  <2>1. \A k \in Selected(oldRows) : k \in Keys /\ row[k] = "temporary" /\ RowFree(k)
    BY SelectedIsBounded DEF Eligible
  <2>2. /\ phase'[c] = "rows" /\ locked'[c] = Selected(oldRows) /\ todo'[c] = Selected(oldRows)
        /\ target'[c] = target[c] /\ expiring'[c] = expiring[c] /\ row' = row /\ phase[c] = "idle"
    BY DEF StartPass, Ranges, rows
  <2> QED BY <1>0, <2>1, <2>2 DEF HeldAt
<1>2. CASE Skips(c)
  <2>1. /\ phase' = phase /\ locked' = locked /\ row' = row /\ target' = target
        /\ expiring' = expiring /\ todo'[c] \subseteq todo[c]
    BY <1>2 DEF Skips, SkipRow, SkipCandidate, Skip, rows, Ranges
  <2> QED BY <1>0, <2>1 DEF HeldAt
<1>3. CASE Takes(c)
  <2> PICK k \in Keys : TakeRow(c, k) \/ TakeCandidate(c, k)
    BY <1>3 DEF Takes
  <2>1. /\ phase' = phase /\ row' = row /\ target'[c] = k /\ expiring' = expiring
        /\ todo'[c] \subseteq todo[c] /\ k # None
    BY CollectionAssumption DEF TakeRow, TakeCandidate, Take, rows, Ranges
  <2>2. CASE TakeRow(c, k)
    BY <1>0, <2>1, <2>2 DEF HeldAt, TakeRow
  <2>3. CASE TakeCandidate(c, k)
    <3>1. phase[c] = "candidates" /\ locked'[c] \subseteq {k} /\ (locked'[c] = {} \/ RowFree(k))
      BY <2>3 DEF TakeCandidate, Considering, Ranges
    <3> QED BY <1>0, <2>1, <3>1 DEF HeldAt
  <2> QED BY <2>2, <2>3
<1>4. CASE Unlink(c)
  BY <1>0, <1>4 DEF Unlink, progress, rows, HeldAt
<1>5. CASE RowDeleted(c)
  <2>1. /\ phase' = phase /\ row' = row /\ todo' = todo /\ locked' = locked
        /\ target'[c] = None /\ expiring'[c] = expiring[c] \cup {target[c]}
        /\ phase[c] = "rows" /\ target[c] # None
    BY <1>5 DEF RowDeleted, rows, Ranges
  <2> QED BY <1>0, <2>1 DEF HeldAt
<1>6. CASE EndRows(c) \/ CandidateDeleted(c)
  <2>1. locked'[c] = {} /\ target'[c] = None /\ expiring'[c] = {}
    BY <1>6 DEF EndRows, CandidateDeleted, Commit, Ranges
  <2>2. phase'[c] # "rows"
    BY <1>6 DEF EndRows, CandidateDeleted, Forget, Ranges
  <2> QED BY <2>1, <2>2 DEF HeldAt
<1>7. CASE Scan(c)
  <2>1. phase'[c] = "candidates" /\ UNCHANGED <<row, locked, target, expiring>> /\ phase[c] = "scan"
    BY <1>7 DEF Scan, rows, Ranges
  <2> QED BY <1>0, <2>1 DEF HeldAt
<1>8. CASE EndPass(c) \/ CollectorFails(c)
  <2>1. CASE EndPass(c)
    <3>1. /\ phase'[c] = "idle" /\ UNCHANGED <<row, locked, target, expiring>>
          /\ phase[c] = "candidates" /\ target[c] = None
      BY <2>1 DEF EndPass, Forget, Ranges
    <3> QED BY <1>0, <3>1 DEF HeldAt
  <2>2. CASE CollectorFails(c)
    <3>1. /\ phase'[c] = "idle" /\ locked'[c] = {} /\ target'[c] = None /\ expiring'[c] = {}
      BY <2>2 DEF CollectorFails, Forget, Ranges
    <3> QED BY <3>1 DEF HeldAt
  <2> QED BY <1>8, <2>1, <2>2
<1> QED BY <1>1, <1>2, <1>3, <1>4, <1>5, <1>6, <1>7, <1>8 DEF Collects

LEMMA LockStep == ASSUME Ranges, LockInv, Next PROVE LockInv'
<1>1. ASSUME NEW k \in Keys, Publishes(k) \/ EndStage(k) \/ EndRun(k) PROVE LockInv'
  <2>1. /\ UNCHANGED progress
        /\ \A c \in Collectors : \A l \in locked[c] : row'[l] = row[l]
    BY <1>1, PublishersWait
  <2> QED BY <2>1 DEF LockInv, Exclusive, Held, progress
<1>2. ASSUME NEW c \in Collectors, Collects(c) PROVE LockInv'
  <2>1. Exclusive'
    <3> SUFFICES ASSUME NEW d \in Collectors, NEW e \in Collectors, NEW k \in Keys,
                        k \in locked'[d], k \in locked'[e]
                 PROVE  d = e
      BY DEF Exclusive
    <3>1. \A b \in Collectors : b # c => locked'[b] = locked[b]
      BY <1>2, CollectorsApart
    <3>2. k \in locked'[c] => k \in locked[c] \/ RowFree(k)
      BY <1>2, HeldStep
    <3> QED BY <3>1, <3>2 DEF LockInv, Exclusive, RowFree
  <2>2. Held'
    <3> SUFFICES ASSUME NEW d \in Collectors
                 PROVE  HeldAt(phase[d], locked[d], todo[d], target[d], expiring[d])'
      BY DEF Held, HeldAt
    <3>1. CASE d = c
      BY <1>2, <3>1, HeldStep
    <3>2. CASE d # c
      <4>1. HeldAt(phase[d], locked[d], todo[d], target[d], expiring[d])
        BY DEF LockInv, Held, HeldAt
      <4> QED BY <1>2, <3>2, <4>1, CollectorsApart DEF HeldAt
    <3> QED BY <3>1, <3>2
  <2> QED BY <2>1, <2>2 DEF LockInv
<1> QED BY <1>1, <1>2, NextSplit

-----------------------------------------------------------------------------
(* The end of a run is final, and nothing of a run that has ended is written. *)

LEMMA EndIsFinal ==
  ASSUME Ranges, Next, NEW k \in Keys, owner[k] = "ended"
  PROVE  owner'[k] = "ended" /\ (row[k] # "referenced" => row'[k] # "referenced")
<1>1. ASSUME NEW l \in Keys, Publishes(l) PROVE owner' = owner /\ (row'[k] = row[k])
  <2>1. owner' = owner
    BY <1>1 DEF Publishes, PutPayload, PutMeta, Promotes, PromotePayload, PromoteMeta, Turns,
       Inspect, RegisterRefused, ReferenceRefused, Registers, RegisterTx, References, ReferenceTx
  <2>2. row' = row \/ (Active(l) /\ \E state : row' = [row EXCEPT ![l] = state])
    BY <1>1 DEF Publishes, PutPayload, PutMeta, Promotes, PromotePayload, PromoteMeta, Turns,
       Inspect, RegisterRefused, ReferenceRefused, Registers, RegisterTx, References,
       ReferenceTx, Registrable, Referencable, rows
  <2> QED BY <2>1, <2>2 DEF Active, Ranges
<1>2. ASSUME NEW l \in Keys, EndStage(l) \/ EndRun(l) PROVE owner'[k] = "ended" /\ row' = row
  BY <1>2 DEF EndStage, EndRun, Active, rows, Ranges
<1>3. ASSUME NEW c \in Collectors, Collects(c)
      PROVE  /\ owner' = owner
             /\ \/ row' = row
                \/ \E expired :
                     row' = [l \in Keys |-> IF l \in expired THEN "expired" ELSE row[l]]
  <2>1. CASE EndRows(c) \/ CandidateDeleted(c)
    BY <2>1 DEF EndRows, CandidateDeleted, Commit
  <2>2. CASE ~(EndRows(c) \/ CandidateDeleted(c))
    BY <1>3, <2>2 DEF Collects, Starts, StartPass, Skips, SkipRow, SkipCandidate, Skip, Takes,
       TakeRow, TakeCandidate, Take, Unlink, RowDeleted, Scan, EndPass, CollectorFails, rows
  <2> QED BY <2>1, <2>2
<1> QED BY <1>1, <1>2, <1>3, NextSplit

LEMMA TargetedStep == ASSUME Ranges, LockInv, Targeted, Next PROVE Targeted'
<1> SUFFICES ASSUME NEW d \in Collectors, target'[d] # None
             PROVE  owner'[target'[d]] = "ended" /\ row'[target'[d]] # "referenced"
  BY DEF Targeted
<1>1. CASE target'[d] = target[d]
  <2>1. target[d] \in Keys /\ owner[target[d]] = "ended" /\ row[target[d]] # "referenced"
    BY <1>1 DEF Targeted, Ranges
  <2> QED BY <1>1, <2>1, EndIsFinal
<1>2. CASE target'[d] # target[d]
  <2>1. ASSUME NEW k \in Keys, Publishes(k) \/ EndStage(k) \/ EndRun(k) PROVE FALSE
    BY <1>2, <2>1, PublishersWait DEF progress
  <2>2. PICK c \in Collectors : Collects(c)
    BY <2>1, NextSplit
  <2>3. c = d
    BY <1>2, <2>2, CollectorsApart
  <2>4. Takes(c)
    <3> SUFFICES ASSUME ~Takes(c) PROVE target' = target \/ target' = [target EXCEPT ![c] = None]
      BY <1>2, <2>3 DEF Ranges
    <3> QED BY <2>2 DEF Collects, Starts, StartPass, Skips, SkipRow, SkipCandidate, Skip, Unlink,
               RowDeleted, EndRows, CandidateDeleted, Commit, Scan, EndPass, CollectorFails, progress
  <2>5. PICK k \in Keys : TakeRow(c, k) \/ TakeCandidate(c, k)
    BY <2>4 DEF Takes
  <2>6. target'[c] = k /\ ~Protected(k)
    BY <2>5 DEF TakeRow, TakeCandidate, Take, Collectable, Ranges
  <2>7. row[k] # "referenced"
    BY <2>5 DEF TakeRow, TakeCandidate, Collectable, LockInv, Held
  <2> QED BY <2>3, <2>6, <2>7, EndIsFinal DEF Protected
<1> QED BY <1>1, <1>2

-----------------------------------------------------------------------------
(* Publication.  A run that has not ended finds what it wrote; only while the *)
(* two ready files are there may its row become referenced.                   *)

Publication ==
  \A k \in Keys :
    /\ pub[k] = "new" => files[k] = {}
    /\ pub[k] \in {"new", "putting"} => row[k] = "none"
    /\ pub[k] = "referencing" /\ owner[k] # "ended" => Ready \subseteq files[k]
    /\ pub[k] = "published" => row[k] = "referenced"
    /\ row[k] = "referenced" => Ready \subseteq files[k]

PublicationAt(at, state, set, run) ==
  /\ at = "new" => set = {}
  /\ at \in {"new", "putting"} => state = "none"
  /\ at = "referencing" /\ run # "ended" => Ready \subseteq set
  /\ at = "published" => state = "referenced"
  /\ state = "referenced" => Ready \subseteq set

\* A publisher writes only under its own key.
LEMMA PublisherApart ==
  ASSUME Ranges, NEW k \in Keys, Publishes(k), NEW l \in Keys, k # l
  PROVE  pub'[l] = pub[l] /\ row'[l] = row[l] /\ files'[l] = files[l]
<1>1. \E label : Goto(k, label)
  BY DEF Publishes, PutPayload, PutMeta, Promotes, PromotePayload, PromoteMeta, Turns,
     Inspect, RegisterRefused, ReferenceRefused, Registers, References
<1>2. row' = row \/ \E state : row' = [row EXCEPT ![k] = state]
  BY DEF Publishes, PutPayload, PutMeta, Promotes, PromotePayload, PromoteMeta, Turns,
     Inspect, RegisterRefused, ReferenceRefused, Registers, RegisterTx, References,
     ReferenceTx, rows
<1>3. files' = files \/ \E set : files' = [files EXCEPT ![k] = set]
  BY DEF Publishes, PutPayload, PutMeta, Promotes, PromotePayload, PromoteMeta, Turns,
     Inspect, RegisterRefused, ReferenceRefused, Registers, RegisterTx, References, ReferenceTx
<1> QED BY <1>1, <1>2, <1>3 DEF Goto, Ranges

\* Renaming into the ready namespace leaves what is ready.
LEMMA RenamedKeeps ==
  ASSUME NEW set \in SUBSET File
  PROVE  /\ Ready \subseteq set => Ready \subseteq Renamed(set, "tp", "rp")
         /\ Ready \subseteq set => Ready \subseteq Renamed(set, "tm", "rm")
         /\ \A kind \in {{"tp", "rp"}, {"tm", "rm"}} : set \cap kind # {} =>
              /\ Renamed(set, "tp", "rp") \cap kind # {}
              /\ Renamed(set, "tm", "rm") \cap kind # {}
  BY DEF Ready, Renamed, File

LEMMA PublicationStep ==
  ASSUME Ranges, LockInv, Targeted, Publication, Next PROVE Publication'
<1>1. ASSUME NEW k \in Keys, Publishes(k) PROVE Publication'
  <2>0. owner' = owner
    BY <1>1 DEF Publishes, PutPayload, PutMeta, Promotes, PromotePayload, PromoteMeta, Turns,
       Inspect, RegisterRefused, ReferenceRefused, Registers, RegisterTx, References, ReferenceTx
  <2> SUFFICES PublicationAt(pub'[k], row'[k], files'[k], owner[k])
    <3> SUFFICES ASSUME NEW l \in Keys
                 PROVE  PublicationAt(pub'[l], row'[l], files'[l], owner[l])
      BY <2>0 DEF Publication, PublicationAt
    <3>1. CASE l # k
      BY <1>1, <3>1, PublisherApart DEF Publication, PublicationAt
    <3> QED BY <3>1
  <2>1. PublicationAt(pub[k], row[k], files[k], owner[k])
    BY DEF Publication, PublicationAt
  <2>2. CASE PutPayload(k)
    <3>1. pub[k] = "new" /\ pub'[k] = "putting" /\ row'[k] = row[k]
      BY <2>2 DEF PutPayload, Goto, Ranges
    <3> QED BY <2>1, <3>1 DEF PublicationAt
  <2>3. CASE PutMeta(k)
    <3>1. /\ pub[k] = "putting" /\ pub'[k] = "stored"
          /\ row'[k] = row[k] /\ files[k] \subseteq files'[k]
      BY <2>3 DEF PutMeta, Goto, Ranges
    <3> QED BY <2>1, <3>1 DEF PublicationAt
  <2>4. CASE Promotes(k)
    <3>1. /\ row'[k] = row[k]
          /\ pub[k] \in {"resuming", "resuming_meta", "promoting", "promoting_meta"}
      BY <2>4 DEF Promotes, PromotePayload, PromoteMeta, rows
    <3>2. files'[k] \in {files[k], Renamed(files[k], "tp", "rp"), Renamed(files[k], "tm", "rm")}
      BY <2>4 DEF Promotes, PromotePayload, PromoteMeta, Ranges
    <3>3. \/ pub'[k] \in {"stored", "resuming_meta", "promoting_meta", "registering"}
          \/ pub'[k] = "referencing" /\ Ready \subseteq files'[k]
      BY <2>4 DEF Promotes, PromotePayload, PromoteMeta, Goto, Ranges
    <3>4. Ready \subseteq files[k] => Ready \subseteq files'[k]
      <4>1. files[k] \in SUBSET File
        BY DEF Ranges
      <4> QED BY <3>2, <4>1, RenamedKeeps
    <3> QED BY <2>1, <3>1, <3>3, <3>4 DEF PublicationAt
  <2>5. CASE Turns(k)
    <3>1. row' = row /\ files' = files
      BY <2>5 DEF Turns, Inspect, RegisterRefused, ReferenceRefused, rows
    <3>2. \/ pub'[k] \in {"stored", "registering", "resuming"}
          \/ pub'[k] = "published" /\ row[k] = "referenced"
      BY <2>5 DEF Turns, Inspect, RegisterRefused, ReferenceRefused, AlreadyPublished, Goto, Ranges
    <3> QED BY <2>1, <3>1, <3>2 DEF PublicationAt
  <2>6. CASE Registers(k)
    <3>1. /\ pub'[k] \in {"promoting", "stored"} /\ files' = files
          /\ row'[k] = row[k] \/ row'[k] = "temporary"
      BY <2>6 DEF Registers, RegisterTx, Goto, Ranges
    <3> QED BY <2>1, <3>1 DEF PublicationAt
  <2>7. CASE References(k)
    <3>1. /\ pub[k] = "referencing" /\ pub'[k] \in {"published", "stored"} /\ files' = files
          /\ row'[k] = "referenced" /\ owner[k] = "stage"
      BY <2>7 DEF References, ReferenceTx, Referencable, Active, Goto, Ranges
    <3> QED BY <2>1, <3>1 DEF PublicationAt
  <2> QED BY <1>1, <2>2, <2>3, <2>4, <2>5, <2>6, <2>7 DEF Publishes
<1>2. ASSUME NEW k \in Keys, EndStage(k) \/ EndRun(k) PROVE Publication'
  <2>1. UNCHANGED <<pub, row, files>>
    BY <1>2 DEF EndStage, EndRun, rows
  <2>2. \A l \in Keys : owner'[l] # "ended" => owner[l] # "ended"
    BY <1>2 DEF EndStage, EndRun, Active, Ranges
  <2> QED BY <2>1, <2>2 DEF Publication
<1>3. ASSUME NEW c \in Collectors, Collects(c) PROVE Publication'
  <2>1. CASE Unlink(c)
    <3>1. /\ target[c] \in Keys /\ owner[target[c]] = "ended" /\ row[target[c]] # "referenced"
          /\ \A k \in Keys : files'[k] \subseteq files[k]
          /\ \A k \in Keys : k # target[c] => files'[k] = files[k]
          /\ UNCHANGED <<owner, row, pub>>
      BY <2>1 DEF Unlink, Targeted, Ranges, rows
    <3> QED BY <3>1 DEF Publication
  <2>2. CASE EndRows(c) \/ CandidateDeleted(c)
    <3>1. PICK expired, ended : /\ Commit(c, expired, ended)
                               /\ \A k \in expired : row[k] = "temporary"
      BY <2>2, ExpiredWereTemporary
    <3>2. /\ UNCHANGED <<owner, files, pub>>
          /\ \A k \in Keys : \/ row'[k] = row[k]
                             \/ row[k] = "temporary" /\ row'[k] = "expired"
      BY <3>1 DEF Commit
    <3> QED BY <3>2 DEF Publication
  <2>3. CASE ~Unlink(c) /\ ~(EndRows(c) \/ CandidateDeleted(c))
    <3>1. UNCHANGED <<owner, row, files, pub>>
      BY <1>3, <2>3 DEF Collects, Starts, StartPass, Skips, SkipRow, SkipCandidate, Skip, Takes,
         TakeRow, TakeCandidate, Take, RowDeleted, Scan, EndPass, CollectorFails, rows
    <3> QED BY <3>1 DEF Publication
  <2> QED BY <2>1, <2>2, <2>3
<1> QED BY <1>1, <1>2, <1>3, NextSplit

-----------------------------------------------------------------------------
(* The theorems. *)

CollectionInv ==
  /\ Ranges /\ Cutoffs /\ Failures /\ Births /\ Budget
  /\ LockInv /\ Targeted /\ Publication

LEMMA CollectionInvInit == Init => CollectionInv
<1> SUFFICES ASSUME Init PROVE CollectionInv
  OBVIOUS
<1> USE CollectionAssumption DEF Init
<1>1. Ranges
  BY DEF Ranges, Positions
<1>2. Cutoffs /\ Failures
  BY DEF Cutoffs, Failures, NoCutoff
<1>3. Births
  <2>1. {births[i] : i \in DOMAIN births} = {} /\ {k \in Keys : row[k] # "none"} = {}
    OBVIOUS
  <2> QED BY <2>1 DEF Births
<1>4. Budget
  BY DEF Budget
<1>5. LockInv /\ Targeted
  BY DEF LockInv, Exclusive, Held, Targeted
<1>6. Publication
  BY DEF Publication
<1> QED BY <1>1, <1>2, <1>3, <1>4, <1>5, <1>6 DEF CollectionInv

LEMMA CollectionInvStep == CollectionInv /\ [Next]_vars => CollectionInv'
<1>1. CASE Next
  BY <1>1, RangesStep, CutoffsStep, FailuresStep, BirthsStep, BudgetStep, LockStep, TargetedStep,
     PublicationStep DEF CollectionInv
<1>2. CASE UNCHANGED vars
  <2> USE <1>2 DEF vars, rows, progress
  <2>1. Ranges => Ranges'
    BY DEF Ranges
  <2>2. (Cutoffs => Cutoffs') /\ (Failures => Failures') /\ (Births => Births')
    BY DEF Cutoffs, Failures, Births
  <2>3. (Budget => Budget') /\ (LockInv => LockInv')
    BY DEF Budget, LockInv, Exclusive, Held
  <2>4. (Targeted => Targeted') /\ (Publication => Publication')
    BY DEF Targeted, Publication
  <2> QED BY <2>1, <2>2, <2>3, <2>4 DEF CollectionInv
<1> QED BY <1>1, <1>2

LEMMA CollectionInvAlways == Spec => []CollectionInv
  BY CollectionInvInit, CollectionInvStep, PTL DEF Spec

\* Every variable keeps its range: in particular a pass never expires or deletes
\* more than max_batch, however many rows are old (collect).
THEOREM PassesAreBounded == Spec => []TypeOK
<1>1. CollectionInv => TypeOK
  BY TypeSplit DEF CollectionInv
<1> QED
  BY <1>1, CollectionInvAlways, PTL

\* A referenced artifact keeps both its ready files against every number of
\* collectors whose passes overlap its publication (publish, collect).
THEOREM ReferencedStaysWhole == Spec => []ReferencedIsWhole
<1>1. CollectionInv => ReferencedIsWhole
  BY DEF CollectionInv, Publication, ReferencedIsWhole
<1> QED
  BY <1>1, CollectionInvAlways, PTL

KeptFiles ==
  \A k \in Keys : \A kind \in {{"tp", "rp"}, {"tm", "rm"}} :
    owner'[k] # "ended" /\ files[k] \cap kind # {} => files'[k] \cap kind # {}

LEMMA KeptStep == CollectionInv /\ Next => KeptFiles
<1> SUFFICES ASSUME CollectionInv, Next,
                    NEW k \in Keys, NEW kind \in {{"tp", "rp"}, {"tm", "rm"}},
                    owner'[k] # "ended", files[k] \cap kind # {}
             PROVE  files'[k] \cap kind # {}
  BY DEF KeptFiles
<1>0. Ranges /\ Publication /\ LockInv /\ Targeted
  BY DEF CollectionInv
<1>1. ASSUME NEW l \in Keys, Publishes(l) PROVE files'[k] \cap kind # {}
  <2>1. CASE l # k
    BY <1>0, <1>1, <2>1, PublisherApart
  <2>2. CASE l = k
    <3>1. ~PutPayload(k)
      BY <1>0 DEF PutPayload, Publication
    <3>2. \/ files[k] \subseteq files'[k]
          \/ files'[k] \in {Renamed(files[k], "tp", "rp"), Renamed(files[k], "tm", "rm")}
      <4>1. CASE PutMeta(k)
        BY <1>0, <4>1 DEF PutMeta, Ranges
      <4>2. CASE Promotes(k)
        BY <1>0, <4>2 DEF Promotes, PromotePayload, PromoteMeta, Ranges
      <4>3. CASE Turns(k) \/ Registers(k) \/ References(k)
        BY <4>3 DEF Turns, Inspect, RegisterRefused, ReferenceRefused, Registers, RegisterTx,
           References, ReferenceTx
      <4> QED BY <1>1, <2>2, <3>1, <4>1, <4>2, <4>3 DEF Publishes
    <3>3. files[k] \in SUBSET File
      BY <1>0 DEF Ranges
    <3> QED BY <3>2, <3>3, RenamedKeeps
  <2> QED BY <2>1, <2>2
<1>2. ASSUME NEW l \in Keys, EndStage(l) \/ EndRun(l) PROVE files'[k] \cap kind # {}
  BY <1>2 DEF EndStage, EndRun
<1>3. ASSUME NEW c \in Collectors, Collects(c) PROVE files'[k] \cap kind # {}
  <2>1. CASE Unlink(c)
    <3>1. owner[k] # "ended"
      BY <2>1 DEF Unlink
    <3>2. target[c] # k /\ target[c] \in Keys
      BY <1>0, <2>1, <3>1 DEF Unlink, Targeted, Ranges
    <3>3. files'[k] = files[k]
      BY <1>0, <2>1, <3>2 DEF Unlink, Ranges
    <3> QED BY <3>3
  <2>2. CASE ~Unlink(c)
    BY <1>3, <2>2 DEF Collects, Starts, StartPass, Skips, SkipRow, SkipCandidate, Skip, Takes,
       TakeRow, TakeCandidate, Take, RowDeleted, EndRows, CandidateDeleted, Commit, Scan,
       EndPass, CollectorFails
  <2> QED BY <2>1, <2>2
<1> QED BY <1>1, <1>2, <1>3, NextSplit

\* No pass takes a payload or a metadata file from a run that is still running
\* (_is_live_run), although it looks at the run without a lock.
THEOREM RunningRunsLoseNothing == Spec => LiveKeepsFiles
<1>1. CollectionInv /\ [Next]_vars =>
        [\A k \in Keys : \A kind \in {{"tp", "rp"}, {"tm", "rm"}} :
           owner'[k] # "ended" /\ files[k] \cap kind # {} => files'[k] \cap kind # {}]_vars
  BY KeptStep DEF KeptFiles
<1> QED
  BY <1>1, CollectionInvAlways, PTL DEF Spec, LiveKeepsFiles

FinalRows ==
  \A k \in Keys :
    /\ row[k] \in {"referenced", "expired"} => row'[k] = row[k]
    /\ pub'[k] = "published" => row'[k] = "referenced"

LEMMA FinalRowsStep == CollectionInv /\ Next => FinalRows
<1> SUFFICES ASSUME CollectionInv, Next,
                    NEW k \in Keys
             PROVE  /\ row[k] \in {"referenced", "expired"} => row'[k] = row[k]
                    /\ pub'[k] = "published" => row'[k] = "referenced"
  BY DEF FinalRows
<1>0. Ranges /\ Publication /\ LockInv /\ Targeted /\ Publication'
  BY CollectionInvStep DEF CollectionInv
<1>1. pub'[k] = "published" => row'[k] = "referenced"
  BY <1>0 DEF Publication
<1>2. ASSUME NEW l \in Keys, Publishes(l), row[k] \in {"referenced", "expired"}
      PROVE  row'[k] = row[k]
  <2>1. CASE l # k
    BY <1>0, <1>2, <2>1, PublisherApart
  <2>2. CASE l = k
    BY <1>2, <2>2 DEF Publishes, PutPayload, PutMeta, Promotes, PromotePayload, PromoteMeta,
       Turns, Inspect, RegisterRefused, ReferenceRefused, Registers, RegisterTx, Registrable,
       References, ReferenceTx, Referencable, rows
  <2> QED BY <2>1, <2>2
<1>3. ASSUME NEW l \in Keys, EndStage(l) \/ EndRun(l) PROVE row' = row
  BY <1>3 DEF EndStage, EndRun, rows
<1>4. ASSUME NEW c \in Collectors, Collects(c), row[k] \in {"referenced", "expired"}
      PROVE  row'[k] = row[k]
  <2>1. CASE EndRows(c) \/ CandidateDeleted(c)
    <3>1. PICK expired, ended : /\ Commit(c, expired, ended)
                               /\ \A l \in expired : row[l] = "temporary"
      BY <1>0, <2>1, ExpiredWereTemporary
    <3> QED BY <3>1, <1>4 DEF Commit
  <2>2. CASE ~(EndRows(c) \/ CandidateDeleted(c))
    BY <1>4, <2>2 DEF Collects, Starts, StartPass, Skips, SkipRow, SkipCandidate, Skip, Takes,
       TakeRow, TakeCandidate, Take, Unlink, RowDeleted, Scan, EndPass, CollectorFails, rows
  <2> QED BY <2>1, <2>2
<1> QED BY <1>1, <1>2, <1>3, <1>4, NextSplit

\* A published artifact stays published and an expired row stays expired, whatever
\* is retried: a commit that expires rows only finds temporary ones.
THEOREM PublicationIsFinal == Spec => PublishedIsFinal
<1>1. CollectionInv /\ [Next]_vars =>
        [\A k \in Keys :
           /\ row[k] \in {"referenced", "expired"} => row'[k] = row[k]
           /\ pub'[k] = "published" => row'[k] = "referenced"]_vars
  BY FinalRowsStep DEF FinalRows
<1> QED
  BY <1>1, CollectionInvAlways, PTL DEF Spec, PublishedIsFinal
=============================================================================
