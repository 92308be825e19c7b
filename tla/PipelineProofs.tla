--------------------------- MODULE PipelineProofs ---------------------------
(***************************************************************************)
(* Proofs about Pipeline for every schema, history and bound.              *)
(***************************************************************************)
EXTENDS Pipeline, TLAPS, WellFoundedInduction, FiniteSetTheorems

----------------------------------------------------------------------------
(* Lemmas about the operators.                                             *)

\* The larger of two watermarks is one of them and bounds both.
LEMMA MaxOfTwo ==
    ASSUME NEW m \in Nat, NEW n \in Nat
    PROVE  /\ Max({m, n}) \in {m, n}
           /\ Max({m, n}) >= m
           /\ Max({m, n}) >= n
<1>1. \E x \in {m, n} : \A y \in {m, n} : x >= y
  OBVIOUS
<1> QED
  BY <1>1 DEF Max

\* A non-empty set of positions has a largest element.
LEMMA MaxOfPositions ==
    ASSUME NEW n \in Nat, NEW S \in SUBSET (1..n), S # {}
    PROVE  Max(S) \in S /\ \A y \in S : y <= Max(S)
<1> DEFINE T == {k \in Nat : n - k \in S}
<1>1. T \subseteq Nat /\ T # {}
  <2>1. PICK i \in S : TRUE
    OBVIOUS
  <2>2. i \in 1..n
    BY <2>1
  <2>3. n - i \in Nat /\ n - (n - i) = i
    BY <2>2
  <2>4. n - i \in T
    BY <2>1, <2>3
  <2> QED
    BY <2>4
<1> HIDE DEF T
<1>2. PICK x \in T : \A y \in T : <<y, x>> \notin OpToRel(<, Nat)
  BY <1>1, WFMin, NatLessThanWellFounded, Zenon
<1>3. \A y \in T : x <= y
  <2>1. \A y \in T : ~(y < x)
    BY <1>1, <1>2, Zenon DEF OpToRel
  <2> QED
    BY <1>1, <2>1
<1> USE DEF T
<1>4. \A y \in S : n - x >= y
  <2> SUFFICES ASSUME NEW y \in S
               PROVE  n - x >= y
    OBVIOUS
  <2>1. y \in 1..n
    OBVIOUS
  <2>2. n - y \in Nat /\ n - (n - y) = y
    BY <2>1
  <2>3. n - y \in T
    BY <2>2
  <2>4. x <= n - y
    BY <1>3, <2>3
  <2> QED
    BY <2>1, <2>4
<1>5. n - x \in S
  OBVIOUS
<1> HIDE DEF T
<1> QED
  BY <1>4, <1>5 DEF Max

\* The statements of a pass keep a database state a database state.
LEMMA StatementTypes ==
    ASSUME NEW db \in Database, NEW sh \in Database, NEW t
    PROVE  /\ UpsertStatement(db, sh, t) \in Database
           /\ DeleteStatement(db, sh, t) \in Database
BY DEF Database, UpsertStatement, DeleteStatement

\* A batch leaves the rows it does not mention alone, and gives each row it
\* mentions the value of the row's last event in the batch.
LEMMA BatchEffect ==
    ASSUME NEW db, NEW B \in SUBSET DOMAIN log, log \in Seq(Event), NEW r \in Row
    PROVE  \/ /\ ApplyRowBatch(db, B)[r] = db[r]
              /\ \A i \in B : log[i].row # r
           \/ \E j \in B : /\ log[j].row = r
                           /\ ApplyRowBatch(db, B)[r] = log[j].val
                           /\ \A i \in B : log[i].row = r => i <= j
<1> DEFINE mine == {i \in B : log[i].row = r}
<1>1. ApplyRowBatch(db, B)[r] = IF mine = {} THEN db[r] ELSE log[Max(mine)].val
  BY DEF ApplyRowBatch
<1>2. CASE mine = {}
  BY <1>1, <1>2
<1>3. CASE mine # {}
  <2>1. mine \in SUBSET (1..Len(log)) /\ Len(log) \in Nat
    OBVIOUS
  <2>2. Max(mine) \in mine /\ \A y \in mine : y <= Max(mine)
    <3> HIDE DEF mine
    <3> QED
      BY <1>3, <2>1, MaxOfPositions
  <2> QED
    BY <1>1, <1>3, <2>2
<1> QED
  BY <1>2, <1>3

\* A batch keeps the shadow tables well typed.
LEMMA BatchType ==
    ASSUME NEW db \in Database, NEW B \in SUBSET DOMAIN log, log \in Seq(Event)
    PROVE  ApplyRowBatch(db, B) \in Database
<1> DEFINE new == ApplyRowBatch(db, B)
<1>1. new = [r \in Row |-> new[r]]
  BY DEF ApplyRowBatch
<1>2. ASSUME NEW r \in Row
      PROVE  new[r] \in Val \cup {Absent} /\ (new[r] = Absent \/ new[r] \in ValOf[r])
  <2>1. \A j \in B : log[j] \in Event
    OBVIOUS
  <2>2. \A j \in B : log[j].row = r =>
           /\ log[j].val \in Val \cup {Absent}
           /\ log[j].val = Absent \/ log[j].val \in ValOf[r]
    BY <2>1 DEF Event
  <2>3. db[r] \in Val \cup {Absent} /\ (db[r] = Absent \/ db[r] \in ValOf[r])
    BY DEF Database
  <2> QED
    BY <2>2, <2>3, BatchEffect
<1> HIDE DEF new
<1> QED
  BY <1>1, <1>2 DEF Database, new

----------------------------------------------------------------------------
(* Type correctness.                                                       *)

\* The empty destination and a fresh changefeed are well typed.
LEMMA InitTypeOK == Init => TypeOK
<1> SUFFICES ASSUME Init PROVE TypeOK
  OBVIOUS
<1>1. log \in Seq(Event) /\ real \in Database
  BY InitialAssumption DEF Init
<1>2. shadow \in Database
  BY SchemaAssumption DEF Init, EmptyDatabase, Database
<1>3. StatementCount + 1 \in Nat /\ 1 \in 1..(StatementCount + 1)
  BY OrderAssumption DEF StatementCount, NTables
<1>4. faults \in 0..MaxFaults
  BY InitialAssumption DEF Init
<1>5. sync \in [Table -> [watermark : Nat, error : BOOLEAN]]
  BY DEF Init
<1>6. up \in BOOLEAN
  BY DEF Init
<1>7. /\ acked \subseteq DOMAIN log
      /\ highwater \in 0..Len(log)
      /\ late \subseteq SUBSET DOMAIN log
      /\ received \in 0..Len(log)
      /\ reconciled \in 0..Len(log)
  BY <1>1 DEF Init
<1>8. /\ work \in Database
      /\ pc \in {"idle", "apply", "commit", "failed"}
      /\ stmt \in 1..(StatementCount + 1)
      /\ touched \subseteq Row
  BY <1>1, <1>3 DEF Init
<1> QED
  BY <1>1, <1>2, <1>4, <1>5, <1>6, <1>7, <1>8 DEF TypeOK

\* Every action keeps the types.
LEMMA NextTypeOK == TypeOK /\ [Next]_vars => TypeOK'
<1> SUFFICES ASSUME TypeOK, [Next]_vars PROVE TypeOK'
  OBVIOUS
<1> USE DEF TypeOK, feedVars, trackingVars, workerVars
<1>0. StatementCount \in Nat
  BY OrderAssumption DEF StatementCount, NTables
<1>1. ASSUME NEW r \in Row, NEW v \in ValOf[r] \cup {Absent}, SourceCommit(r, v)
      PROVE  TypeOK'
  <2>1. [row |-> r, val |-> v] \in Event
    BY DEF Event, Val
  <2>2. /\ log' \in Seq(Event)
        /\ Len(log') = Len(log) + 1
        /\ DOMAIN log \subseteq DOMAIN log'
    BY <1>1, <2>1 DEF SourceCommit
  <2> QED
    BY <1>1, <2>2 DEF SourceCommit
<1>2. ASSUME NEW B \in Batches, IngestRowBatch(B)
      PROVE  TypeOK'
  <2>1. B \in SUBSET DOMAIN log /\ RowsOf(B) \subseteq Row
    BY DEF Batches, RowsOf, Event
  <2>2. shadow' \in Database
    BY <1>2, <2>1, BatchType DEF IngestRowBatch
  <2> QED
    BY <1>2, <2>1, <2>2 DEF IngestRowBatch, Touch
<1>3. ASSUME NEW B \in Batches, IngestReplyLost(B)
      PROVE  TypeOK'
  <2>1. B \in SUBSET DOMAIN log /\ RowsOf(B) \subseteq Row
    BY DEF Batches, RowsOf, Event
  <2>2. shadow' \in Database
    BY <1>3, <2>1, BatchType DEF IngestReplyLost
  <2> QED
    BY <1>3, <2>1, <2>2, InitialAssumption DEF IngestReplyLost, Touch, Fault
<1>4. ASSUME NEW B \in Batches, SinkTimesOut(B)
      PROVE  TypeOK'
  <2>1. B \in SUBSET DOMAIN log
    BY DEF Batches
  <2> QED
    BY <1>4, <2>1, InitialAssumption DEF SinkTimesOut, Fault
<1>5. ASSUME NEW B \in late, LateRequestCommits(B)
      PROVE  TypeOK'
  <2>1. B \in SUBSET DOMAIN log /\ RowsOf(B) \subseteq Row
    BY DEF RowsOf, Event
  <2>2. shadow' \in Database
    BY <1>5, <2>1, BatchType DEF LateRequestCommits
  <2> QED
    BY <1>5, <2>1, <2>2 DEF LateRequestCommits, Touch
<1>6. ASSUME NEW w \in DOMAIN log, IngestResolved(w)
      PROVE  TypeOK'
  <2>1. received' \in {received, w}
    BY <1>6, MaxOfTwo DEF IngestResolved, PersistResolvedWatermark
  <2> QED
    BY <1>6, <2>1 DEF IngestResolved, PersistResolvedWatermark
<1>7. ASSUME NEW w \in DOMAIN log, Checkpoint(w)
      PROVE  TypeOK'
  BY <1>7 DEF Checkpoint
<1>8. CASE FeedRestart
  BY <1>8, InitialAssumption DEF FeedRestart, Fault
<1>9. CASE BeginPass
  BY <1>9, <1>0 DEF BeginPass
<1>10. CASE ApplyStatement
  <2>1. StatementResult(stmt) \in Database
    BY StatementTypes DEF StatementResult
  <2> QED
    BY <1>0, <1>10, <2>1 DEF ApplyStatement
<1>11. CASE StatementRefused
  BY <1>11 DEF StatementRefused, AbortPass
<1>12. CASE StatementErrs
  BY <1>12, InitialAssumption DEF StatementErrs, AbortPass, Fault
<1>13. CASE RecordFailure
  <2>1. sync' \in [Table -> [watermark : Nat, error : BOOLEAN]]
    BY <1>13 DEF RecordFailure
  <2>2. /\ stmt' \in 1..(StatementCount + 1)
        /\ pc' = "idle"
        /\ touched' = {}
        /\ UNCHANGED <<feedVars, faults, shadow, real, received, reconciled, up, work>>
    BY <1>0, <1>13 DEF RecordFailure
  <2> QED
    BY <2>1, <2>2
<1>14. CASE PersistReconcileSuccess
  BY <1>14 DEF PersistReconcileSuccess
<1>15. CASE CommitPass
  <2>1. reconciled' \in {reconciled, received}
    BY <1>15, MaxOfTwo DEF CommitPass
  <2>2. sync' \in [Table -> [watermark : Nat, error : BOOLEAN]]
    BY <1>15 DEF CommitPass, SyncAfterSuccess
  <2> QED
    BY <1>0, <1>15, <2>1, <2>2 DEF CommitPass
<1>16. CASE ProcessExit
  <2>1. up' \in BOOLEAN
    BY <1>16 DEF ProcessExit
  <2>2. /\ stmt' \in 1..(StatementCount + 1)
        /\ faults' \in 0..MaxFaults
        /\ pc' = "idle"
        /\ work' = real
        /\ touched' = {}
        /\ late' = {}
        /\ UNCHANGED <<log, acked, highwater, shadow, real, trackingVars>>
    BY <1>0, <1>16, InitialAssumption DEF ProcessExit, Fault
  <2> QED
    BY <2>1, <2>2
<1>17. CASE Start
  BY <1>17 DEF Start
<1>18. CASE UNCHANGED vars
  BY <1>18 DEF vars
<1> QED
  BY <1>1, <1>2, <1>3, <1>4, <1>5, <1>6, <1>7, <1>8, <1>9, <1>10, <1>11,
     <1>12, <1>13, <1>14, <1>15, <1>16, <1>17, <1>18
     DEF Next, Deliver, Resolve

\* Every variable keeps its type, and every position its range, in every
\* state of the pipeline.
THEOREM TypeCorrect == Spec => []TypeOK
BY InitTypeOK, NextTypeOK, PTL DEF Spec

----------------------------------------------------------------------------
(* The tracking tables.                                                    *)

\* Only three actions write the tracking tables.
LEMMA TrackingWriters ==
    ASSUME [Next]_vars
    PROVE  \/ UNCHANGED trackingVars
           \/ \E w \in DOMAIN log : IngestResolved(w)
           \/ RecordFailure
           \/ CommitPass
BY DEF Next, vars, feedVars, trackingVars, workerVars, SourceCommit, Deliver,
       IngestRowBatch, IngestReplyLost, SinkTimesOut, LateRequestCommits,
       Resolve, Checkpoint, FeedRestart, BeginPass, ApplyStatement,
       StatementRefused, StatementErrs, AbortPass, PersistReconcileSuccess,
       ProcessExit, Start

\* Receiving, committing and failing keep the tracking tables in agreement.
LEMMA NextTrackingAgrees ==
    TypeOK /\ TrackingAgrees /\ [Next]_vars => TrackingAgrees'
<1> SUFFICES ASSUME TypeOK, TrackingAgrees, [Next]_vars PROVE TrackingAgrees'
  OBVIOUS
<1>0. received \in Nat /\ reconciled \in Nat
  BY DEF TypeOK
<1>1. CASE UNCHANGED trackingVars
  BY <1>1 DEF trackingVars, TrackingAgrees
<1>2. ASSUME NEW w \in DOMAIN log, IngestResolved(w)
      PROVE  TrackingAgrees'
  <2>1. w \in Nat
    BY DEF TypeOK
  <2>2. received' \in Nat /\ received' >= received
    BY <1>0, <1>2, <2>1, MaxOfTwo DEF IngestResolved, PersistResolvedWatermark
  <2>3. UNCHANGED <<reconciled, sync>>
    BY <1>2 DEF IngestResolved, PersistResolvedWatermark
  <2> QED
    BY <1>0, <2>2, <2>3 DEF TrackingAgrees
<1>3. CASE RecordFailure
  <2>1. UNCHANGED <<received, reconciled>>
    BY <1>3 DEF RecordFailure
  <2>2. \A t \in Table : sync'[t].watermark = sync[t].watermark
    BY <1>3 DEF RecordFailure, TypeOK
  <2> QED
    BY <2>1, <2>2 DEF TrackingAgrees
<1>4. CASE CommitPass
  <2>1. reconciled' = received /\ received' = received
    BY <1>0, <1>4, MaxOfTwo DEF CommitPass, TrackingAgrees
  <2>2. CASE received = 0
    <3>1. sync' = sync
      BY <1>4, <2>2 DEF CommitPass, SyncAfterSuccess
    <3>2. reconciled = 0
      BY <1>0, <2>2 DEF TrackingAgrees
    <3> QED
      BY <2>1, <2>2, <3>1, <3>2 DEF TrackingAgrees
  <2>3. CASE received # 0
    <3>1. sync' = [t \in Table |-> [watermark |-> received, error |-> FALSE]]
      BY <1>4, <2>3 DEF CommitPass, SyncAfterSuccess
    <3>2. \A t \in Table : sync'[t].watermark = received
      BY <3>1
    <3> QED
      BY <1>0, <2>1, <3>2 DEF TrackingAgrees
  <2> QED
    BY <2>2, <2>3
<1> QED
  BY <1>1, <1>2, <1>3, <1>4, TrackingWriters

\* stream_state and table_sync_state agree in every state: no table claims a
\* watermark the stream has not reconciled, and none that was not received.
THEOREM TrackingCorrect == Spec => []TrackingAgrees
<1>1. Init => TrackingAgrees
  BY DEF Init, TrackingAgrees
<1> QED
  BY <1>1, NextTrackingAgrees, TypeCorrect, PTL DEF Spec

\* Neither watermark ever moves back.
THEOREM WatermarksNeverRegress == Spec => WatermarksMonotone
<1>1. TypeOK /\ [Next]_vars => [received' >= received /\ reconciled' >= reconciled]_vars
  <2> SUFFICES ASSUME TypeOK, [Next]_vars
               PROVE  received' >= received /\ reconciled' >= reconciled
    OBVIOUS
  <2>0. received \in Nat /\ reconciled \in Nat
    BY DEF TypeOK
  <2>1. CASE UNCHANGED trackingVars
    BY <2>0, <2>1 DEF trackingVars
  <2>2. ASSUME NEW w \in DOMAIN log, IngestResolved(w)
        PROVE  received' >= received /\ reconciled' >= reconciled
    <3>1. w \in Nat
      BY DEF TypeOK
    <3> QED
      BY <2>0, <2>2, <3>1, MaxOfTwo DEF IngestResolved, PersistResolvedWatermark
  <2>3. CASE RecordFailure
    BY <2>0, <2>3 DEF RecordFailure
  <2>4. CASE CommitPass
    BY <2>0, <2>4, MaxOfTwo DEF CommitPass
  <2> QED
    BY <2>1, <2>2, <2>3, <2>4, TrackingWriters
<1> QED
  BY <1>1, TypeCorrect, PTL DEF Spec, WatermarksMonotone

----------------------------------------------------------------------------
(* What a pass copies.                                                     *)

\* Ingestion changes only shadow rows it then counts as touched, and leaves
\* the worker alone.
LEMMA IngestTouches ==
    ASSUME TypeOK, NEW B \in SUBSET DOMAIN log,
           shadow' = ApplyRowBatch(shadow, B), Touch(B),
           UNCHANGED workerVars, PassProgress
    PROVE  PassProgress'
<1>0. UNCHANGED <<pc, stmt, work>>
  BY DEF workerVars
<1>1. CASE pc \notin {"apply", "commit"}
  BY <1>0, <1>1 DEF PassProgress
<1>2. CASE pc \in {"apply", "commit"}
  <2>1. touched' = touched \cup RowsOf(B)
    BY <1>2 DEF Touch
  <2>2. \A r \in Row \ touched' : r \notin touched /\ shadow'[r] = shadow[r]
    BY <2>1, BatchEffect DEF RowsOf, TypeOK
  <2>3. \A s : StatementTable(s)' = StatementTable(s)
    BY DEF StatementTable
  <2> QED
    BY <1>0, <1>2, <2>2, <2>3 DEF PassProgress, StatementCount, NTables
<1> QED
  BY <1>1, <1>2

\* Every action keeps what the pass has established for untouched rows.
LEMMA NextPassProgress == TypeOK /\ PassProgress /\ [Next]_vars => PassProgress'
<1> SUFFICES ASSUME TypeOK, PassProgress, [Next]_vars PROVE PassProgress'
  OBVIOUS
<1>0. StatementCount \in Nat /\ NTables \in Nat /\ stmt \in Nat
  BY OrderAssumption DEF StatementCount, NTables, TypeOK
<1>1. ASSUME NEW B \in Batches, IngestRowBatch(B)
      PROVE  PassProgress'
  BY <1>1, IngestTouches DEF IngestRowBatch, Batches
<1>2. ASSUME NEW B \in Batches, IngestReplyLost(B)
      PROVE  PassProgress'
  BY <1>2, IngestTouches DEF IngestReplyLost, Batches
<1>3. ASSUME NEW B \in late, LateRequestCommits(B)
      PROVE  PassProgress'
  BY <1>3, IngestTouches DEF LateRequestCommits, TypeOK
<1>4. CASE BeginPass
  <2>1. pc' = "apply" /\ stmt' = 1
    BY <1>4 DEF BeginPass
  <2>2. 1..(stmt' - 1) = {}
    BY <2>1
  <2> QED
    BY <2>1, <2>2 DEF PassProgress
<1>5. CASE ApplyStatement
  <2>1. /\ pc = "apply" /\ pc' = pc
        /\ stmt' = stmt + 1
        /\ stmt <= StatementCount
        /\ UNCHANGED <<shadow, touched>>
        /\ work' = StatementResult(stmt)
    BY <1>5 DEF ApplyStatement
  <2> SUFFICES ASSUME NEW s \in 1..stmt, NEW r \in Row \ touched,
                      TableOf[r] = StatementTable(s)
               PROVE  IF s <= NTables
                      THEN shadow[r] # Absent => work'[r] = shadow[r]
                      ELSE shadow[r] = Absent => work'[r] = Absent
    BY <1>0, <2>1 DEF PassProgress, StatementTable, StatementCount, NTables
  <2>2. work'[r] = IF stmt <= NTables
                   THEN IF TableOf[r] = StatementTable(stmt) /\ shadow[r] # Absent
                        THEN shadow[r] ELSE work[r]
                   ELSE IF TableOf[r] = StatementTable(stmt) /\ shadow[r] = Absent
                        THEN Absent ELSE work[r]
    BY <2>1 DEF StatementResult, UpsertStatement, DeleteStatement
  <2>3. CASE s = stmt
    BY <2>2, <2>3
  <2>4. CASE s # stmt
    <3>1. s \in 1..(stmt - 1)
      BY <1>0, <2>4
    <3>2. IF s <= NTables
          THEN shadow[r] # Absent => work[r] = shadow[r]
          ELSE shadow[r] = Absent => work[r] = Absent
      BY <2>1, <3>1 DEF PassProgress
    <3> QED
      BY <2>2, <3>2
  <2> QED
    BY <2>3, <2>4
<1>6. CASE StatementRefused \/ StatementErrs
  BY <1>6 DEF StatementRefused, StatementErrs, AbortPass, PassProgress
<1>7. CASE RecordFailure
  BY <1>7 DEF RecordFailure, PassProgress
<1>8. CASE PersistReconcileSuccess
  BY <1>8 DEF PersistReconcileSuccess, PassProgress, StatementTable,
              StatementCount, NTables
<1>9. CASE CommitPass
  BY <1>9 DEF CommitPass, PassProgress
<1>10. CASE ProcessExit
  BY <1>10 DEF ProcessExit, PassProgress
<1>11. CASE UNCHANGED <<pc, stmt, work, shadow, touched>>
  BY <1>11 DEF PassProgress, StatementTable, StatementCount, NTables
<1>12. \/ \E B \in Batches : IngestRowBatch(B)
       \/ \E B \in Batches : IngestReplyLost(B)
       \/ \E B \in late : LateRequestCommits(B)
       \/ BeginPass \/ ApplyStatement \/ StatementRefused \/ StatementErrs
       \/ RecordFailure \/ PersistReconcileSuccess \/ CommitPass \/ ProcessExit
       \/ UNCHANGED <<pc, stmt, work, shadow, touched>>
  BY DEF Next, vars, workerVars, SourceCommit, Deliver, SinkTimesOut, Resolve,
         IngestResolved, PersistResolvedWatermark, Checkpoint, FeedRestart, Start
<1> QED
  BY <1>1, <1>2, <1>3, <1>4, <1>5, <1>6, <1>7, <1>8, <1>9, <1>10, <1>11, <1>12

\* At every moment of a pass, the statements of apply_reconcile_pass executed
\* so far have copied their table's rows, except the ones ingested meanwhile.
THEOREM PassProgressInvariant == Spec => []PassProgress
<1>1. Init => PassProgress
  BY DEF Init, PassProgress
<1> QED
  BY <1>1, NextPassProgress, TypeCorrect, PTL DEF Spec

\* The statement that upserts a table and the one that deletes from it.
LEMMA TableStatements ==
    ASSUME NEW t \in Table
    PROVE  /\ Pos(t) \in 1..NTables
           /\ UpsertOrder[Pos(t)] = t
           /\ StatementTable(Pos(t)) = t
           /\ StatementCount + 1 - Pos(t) \in (NTables + 1)..StatementCount
           /\ StatementTable(StatementCount + 1 - Pos(t)) = t
<1>1. NTables \in Nat /\ DOMAIN UpsertOrder = 1..NTables
  BY OrderAssumption DEF NTables
<1>2. \E i \in DOMAIN UpsertOrder : UpsertOrder[i] = t
  BY OrderAssumption
<1>3. Pos(t) \in 1..NTables /\ UpsertOrder[Pos(t)] = t
  BY <1>1, <1>2 DEF Pos
<1> DEFINE p == Pos(t)
<1> HIDE DEF p
<1>4. p \in 1..NTables /\ UpsertOrder[p] = t
  BY <1>3 DEF p
<1>5. /\ StatementTable(p) = t
      /\ StatementCount + 1 - p \in (NTables + 1)..StatementCount
      /\ StatementTable(StatementCount + 1 - p) = t
  BY <1>1, <1>4 DEF StatementTable, StatementCount
<1> QED
  BY <1>4, <1>5 DEF p

\* After the last statement that leaves every untouched row exact.
LEMMA ProgressIsExact == TypeOK /\ PassProgress => UntouchedRowsExact
<1> SUFFICES ASSUME TypeOK, PassProgress, pc = "commit", NEW r \in Row \ touched
             PROVE  work[r] = shadow[r]
  BY DEF UntouchedRowsExact
<1>0. StatementCount = 2 * NTables /\ NTables \in Nat
  BY OrderAssumption DEF StatementCount, NTables
<1> DEFINE p == Pos(TableOf[r])
<1>1. /\ p \in 1..NTables
      /\ StatementTable(p) = TableOf[r]
      /\ StatementCount + 1 - p \in (NTables + 1)..StatementCount
      /\ StatementTable(StatementCount + 1 - p) = TableOf[r]
  BY TableStatements, SchemaAssumption
<1> HIDE DEF p
<1>2. stmt - 1 = StatementCount
  BY <1>0 DEF PassProgress
<1>3. shadow[r] # Absent => work[r] = shadow[r]
  BY <1>0, <1>1, <1>2 DEF PassProgress
<1>4. shadow[r] = Absent => work[r] = Absent
  <2>1. ~(StatementCount + 1 - p <= NTables)
    BY <1>0, <1>1
  <2>2. StatementCount + 1 - p \in 1..(stmt - 1)
    BY <1>0, <1>1, <1>2
  <2> QED
    BY <1>1, <2>1, <2>2 DEF PassProgress
<1> QED
  BY <1>3, <1>4

\* A committing pass has copied exactly every row ingestion left alone.
THEOREM PassesAreExact == Spec => []UntouchedRowsExact
BY PassProgressInvariant, TypeCorrect, ProgressIsExact, PTL

----------------------------------------------------------------------------
(* Foreign keys never refuse a quiet pass.                                 *)

\* The open transaction and the committed real tables satisfy the constraints
\* PostgreSQL enforces.
RealConsistent == ConstraintsHold(real) /\ ConstraintsHold(work)

\* No step publishes or builds real tables that break a constraint.
LEMMA RealConsistentInvariant == Spec => []RealConsistent
<1>1. Init => RealConsistent
  BY InitialAssumption DEF Init, RealConsistent
<1>2. RealConsistent /\ [Next]_vars => RealConsistent'
  <2> SUFFICES ASSUME RealConsistent, [Next]_vars PROVE RealConsistent'
    OBVIOUS
  <2>1. CASE UNCHANGED <<real, work>>
    BY <2>1 DEF RealConsistent, ConstraintsHold, ForeignKeysHold, UniqueHolds
  <2>2. CASE real' = real /\ work' = real
    BY <2>2 DEF RealConsistent, ConstraintsHold, ForeignKeysHold, UniqueHolds
  <2>3. CASE real' = work /\ work' = work
    BY <2>3 DEF RealConsistent, ConstraintsHold, ForeignKeysHold, UniqueHolds
  <2>4. CASE ApplyStatement
    BY <2>4 DEF ApplyStatement, StatementRejected, RealConsistent,
                ConstraintsHold, ForeignKeysHold, UniqueHolds
  <2>5. \/ UNCHANGED <<real, work>>
        \/ real' = real /\ work' = real
        \/ real' = work /\ work' = work
        \/ ApplyStatement
    BY DEF Next, vars, workerVars, SourceCommit, Deliver, IngestRowBatch,
           IngestReplyLost, SinkTimesOut, LateRequestCommits, Resolve,
           IngestResolved, PersistResolvedWatermark, Checkpoint, FeedRestart,
           BeginPass, StatementRefused, StatementErrs, AbortPass,
           RecordFailure, PersistReconcileSuccess, CommitPass, ProcessExit, Start
  <2> QED
    BY <2>1, <2>2, <2>3, <2>4, <2>5
<1> QED
  BY <1>1, <1>2, PTL DEF Spec

\* Upserts go parent first and deletes child first, so no statement leaves a
\* dangling reference when the shadow tables hold none.
LEMMA QuietStatementAccepted ==
    TypeOK /\ PassProgress /\ RealConsistent => QuietPassAccepted
<1> SUFFICES ASSUME TypeOK, PassProgress, RealConsistent,
                    pc = "apply", stmt <= StatementCount, touched = {},
                    UniqueTable = {}, ForeignKeysHold(shadow)
             PROVE  ConstraintsHold(StatementResult(stmt))
  BY DEF QuietPassAccepted, StatementRejected
<1> DEFINE res == StatementResult(stmt)
<1>0. /\ StatementCount = 2 * NTables /\ NTables \in Nat
      /\ stmt \in 1..StatementCount
  BY OrderAssumption DEF StatementCount, NTables, TypeOK
<1>1. UniqueHolds(res)
  BY DEF UniqueHolds
<1>2. ForeignKeysHold(work)
  BY DEF RealConsistent, ConstraintsHold
<1>3. \A r \in Row :
        /\ Pos(TableOf[r]) \in 1..NTables
        /\ StatementTable(Pos(TableOf[r])) = TableOf[r]
        /\ StatementCount + 1 - Pos(TableOf[r]) \in (NTables + 1)..StatementCount
        /\ StatementTable(StatementCount + 1 - Pos(TableOf[r])) = TableOf[r]
  BY TableStatements, SchemaAssumption
<1>4. \A r \in Row : /\ shadow[r] = Absent \/ shadow[r] \in ValOf[r]
                     /\ work[r] = Absent \/ work[r] \in ValOf[r]
  BY DEF TypeOK, Database
<1>5. \A s \in 1..(stmt - 1) : \A r \in Row :
        TableOf[r] = StatementTable(s) =>
            IF s <= NTables
            THEN shadow[r] # Absent => work[r] = shadow[r]
            ELSE shadow[r] = Absent => work[r] = Absent
  BY DEF PassProgress
<1>6. ASSUME NEW r \in Row, res[r] \in Row
      PROVE  res[res[r]] # Absent
  <2> DEFINE p == res[r]
  <2>0. p # Absent
    BY <1>6, SchemaAssumption
  <2>1. CASE stmt <= NTables
    <3>1. \A q \in Row :
             res[q] = IF TableOf[q] = StatementTable(stmt) /\ shadow[q] # Absent
                      THEN shadow[q] ELSE work[q]
      BY <2>1 DEF StatementResult, UpsertStatement
    <3>2. CASE TableOf[r] = StatementTable(stmt) /\ shadow[r] # Absent
      <4>1. p = shadow[r] /\ shadow[p] # Absent /\ p \in ValOf[r] \cap Row
        BY <1>4, <1>6, <3>1, <3>2 DEF ForeignKeysHold
      <4>2. Pos(TableOf[p]) < Pos(TableOf[r])
        BY <4>1, OrderAssumption
      <4>3. Pos(TableOf[r]) = stmt
        <5>1. /\ DOMAIN UpsertOrder = 1..NTables
              /\ stmt \in 1..NTables
              /\ UpsertOrder[stmt] = TableOf[r]
          BY <1>0, <2>1, <3>2, OrderAssumption DEF StatementTable, NTables
        <5>2. UpsertOrder[Pos(TableOf[r])] = TableOf[r]
          BY TableStatements, SchemaAssumption
        <5> QED
          BY <1>3, <5>1, <5>2, OrderAssumption
      <4>4. Pos(TableOf[p]) \in 1..(stmt - 1) /\ Pos(TableOf[p]) <= NTables
        BY <1>0, <1>3, <4>1, <4>2, <4>3
      <4>5. work[p] = shadow[p]
        BY <1>3, <1>5, <4>1, <4>4
      <4> QED
        BY <3>1, <4>1, <4>5
    <3>3. CASE ~(TableOf[r] = StatementTable(stmt) /\ shadow[r] # Absent)
      <4>1. p = work[r] /\ work[p] # Absent
        BY <1>2, <1>6, <3>1, <3>3 DEF ForeignKeysHold
      <4> QED
        BY <1>6, <3>1, <4>1
    <3> QED
      BY <3>2, <3>3
  <2>2. CASE ~(stmt <= NTables)
    <3>1. \A q \in Row :
             res[q] = IF TableOf[q] = StatementTable(stmt) /\ shadow[q] = Absent
                      THEN Absent ELSE work[q]
      BY <2>2 DEF StatementResult, DeleteStatement
    <3>2. p = work[r] /\ work[p] # Absent /\ p \in ValOf[r] \cap Row
      BY <1>2, <1>4, <1>6, <2>0, <3>1 DEF ForeignKeysHold
    <3>3. ASSUME TableOf[p] = StatementTable(stmt), shadow[p] = Absent
          PROVE  FALSE
      <4>1. Pos(TableOf[p]) < Pos(TableOf[r])
        BY <3>2, OrderAssumption
      <4>2. Pos(TableOf[p]) = StatementCount + 1 - stmt
        <5>1. /\ DOMAIN UpsertOrder = 1..NTables
              /\ StatementCount + 1 - stmt \in 1..NTables
              /\ UpsertOrder[StatementCount + 1 - stmt] = TableOf[p]
          BY <1>0, <2>2, <3>3, OrderAssumption DEF StatementTable, NTables
        <5>2. UpsertOrder[Pos(TableOf[p])] = TableOf[p]
          BY <3>2, TableStatements, SchemaAssumption
        <5> QED
          BY <1>3, <3>2, <5>1, <5>2, OrderAssumption
      <4> DEFINE k == Pos(TableOf[r])
      <4>3. k \in 1..NTables /\ StatementTable(k) = TableOf[r]
            /\ StatementTable(StatementCount + 1 - k) = TableOf[r]
        BY <1>3
      <4> HIDE DEF k
      <4>4. /\ k \in 1..(stmt - 1) /\ k <= NTables
            /\ StatementCount + 1 - k \in 1..(stmt - 1)
            /\ ~(StatementCount + 1 - k <= NTables)
        BY <1>0, <1>3, <2>2, <3>2, <4>1, <4>2, <4>3 DEF k
      <4>5. shadow[r] # Absent => work[r] = shadow[r]
        BY <1>5, <4>3, <4>4
      <4>6. shadow[r] = Absent => work[r] = Absent
        BY <1>5, <4>3, <4>4
      <4> QED
        BY <1>6, <2>0, <3>2, <3>3, <4>5, <4>6 DEF ForeignKeysHold
    <3> QED
      BY <3>1, <3>2, <3>3
  <2> QED
    BY <2>1, <2>2
<1> QED
  BY <1>1, <1>6 DEF ConstraintsHold, ForeignKeysHold

\* The dependency order is right: over consistent shadow tables, a pass that
\* nothing is ingested during is never refused by a foreign key, for every
\* acyclic schema.
THEOREM QuietPassesAreAccepted == Spec => []QuietPassAccepted
BY PassProgressInvariant, TypeCorrect, RealConsistentInvariant,
   QuietStatementAccepted, PTL

----------------------------------------------------------------------------
(* Acknowledged means durable.                                             *)

\* A batch written while AckedClosed holds loses no acknowledged event, and
\* makes its own events durable.
LEMMA BatchKeepsAcked ==
    ASSUME TypeOK, AckedClosed, AckedDurable, NEW B \in Batches,
           NEW i \in acked \cup B
    PROVE  AtOrAfter(ApplyRowBatch(shadow, B), log[i].row, i)
<1> DEFINE r == log[i].row
           new == ApplyRowBatch(shadow, B)
<1>0. /\ B \in SUBSET DOMAIN log
      /\ B \cap acked = {}
      /\ \A j \in B : \A h \in 1..j : log[h].row = log[j].row => h \in acked \cup B
  BY DEF Batches, Deliverable
<1>1. i \in DOMAIN log /\ log[i] \in Event /\ r \in Row
  BY <1>0 DEF TypeOK, Event
<1>2. \/ new[r] = shadow[r] /\ \A j \in B : log[j].row # r
      \/ \E j \in B : /\ log[j].row = r
                      /\ new[r] = log[j].val
                      /\ \A h \in B : log[h].row = r => h <= j
  BY <1>0, <1>1, BatchEffect DEF TypeOK
<1>3. CASE new[r] = shadow[r] /\ \A j \in B : log[j].row # r
  <2>1. i \in acked
    BY <1>3
  <2>2. AtOrAfter(shadow, r, i)
    BY <2>1 DEF AckedDurable
  <2> HIDE DEF new, r
  <2> QED
    BY <1>3, <2>2 DEF AtOrAfter, new, r
<1>4. ASSUME NEW j \in B, log[j].row = r, new[r] = log[j].val,
             \A h \in B : log[h].row = r => h <= j
      PROVE  AtOrAfter(new, r, i)
  <2>1. i <= j
    <3>1. CASE i \in B
      BY <1>4, <3>1
    <3>2. CASE i \in acked
      <4>1. j \notin acked /\ i \in Nat /\ j \in Nat /\ j >= 1
        BY <1>0, <1>1 DEF TypeOK
      <4>2. ~(j \in 1..i)
        BY <1>4, <3>2, <4>1 DEF AckedClosed
      <4> QED
        BY <1>0, <1>1, <4>1, <4>2
    <3> QED
      BY <3>1, <3>2
  <2>2. j \in DOMAIN log /\ j >= i
    BY <1>0, <1>1, <2>1 DEF TypeOK
  <2> HIDE DEF new, r
  <2> QED
    BY <1>4, <2>2 DEF AtOrAfter
<1> QED
  BY <1>2, <1>3, <1>4

\* The strengthening: no request outlives the sink's patience, the
\* acknowledged positions are closed, and they are durable.
DeliveryInv == late = {} /\ AckedClosed /\ AckedDurable

\* Every action keeps the strengthening when no request is left behind.
LEMMA NextDeliveryInv ==
    ASSUME MaxLate = 0
    PROVE  TypeOK /\ DeliveryInv /\ [Next]_vars => DeliveryInv'
<1> SUFFICES ASSUME TypeOK, DeliveryInv, [Next]_vars PROVE DeliveryInv'
  OBVIOUS
<1> USE DEF DeliveryInv
<1>1. ASSUME NEW r \in Row, NEW v \in ValOf[r] \cup {Absent}, SourceCommit(r, v)
      PROVE  DeliveryInv'
  <2>1. /\ \A i \in DOMAIN log : i \in DOMAIN log' /\ log'[i] = log[i]
        /\ UNCHANGED <<acked, highwater, late, shadow>>
    BY <1>1 DEF SourceCommit, TypeOK
  <2>2. acked \subseteq DOMAIN log /\ DOMAIN log = 1..Len(log) /\ Len(log) \in Nat
    BY DEF TypeOK
  <2>3. AckedClosed'
    <3>1. \A i \in acked : \A j \in 1..i : j \in DOMAIN log
      BY <2>2
    <3> QED
      BY <2>1, <2>2, <3>1 DEF AckedClosed
  <2>4. AckedDurable'
    BY <2>1, <2>2 DEF AckedDurable, AtOrAfter
  <2> QED
    BY <2>1, <2>3, <2>4
<1>2. ASSUME NEW B \in Batches, IngestRowBatch(B)
      PROVE  DeliveryInv'
  <2>1. /\ shadow' = ApplyRowBatch(shadow, B)
        /\ acked' = acked \cup B
        /\ UNCHANGED <<log, highwater, late>>
    BY <1>2 DEF IngestRowBatch
  <2>2. AckedDurable'
    <3>1. \A i \in acked \cup B : AtOrAfter(ApplyRowBatch(shadow, B), log[i].row, i)
      BY BatchKeepsAcked
    <3> QED
      BY <2>1, <3>1 DEF AckedDurable, AtOrAfter
  <2>3. AckedClosed'
    <3>1. \A j \in B : \A h \in 1..j : log[h].row = log[j].row => h \in acked \cup B
      BY DEF Batches, Deliverable
    <3> QED
      BY <2>1, <3>1 DEF AckedClosed
  <2> QED
    BY <2>1, <2>2, <2>3
<1>3. ASSUME NEW B \in Batches, IngestReplyLost(B)
      PROVE  DeliveryInv'
  <2>1. /\ shadow' = ApplyRowBatch(shadow, B)
        /\ UNCHANGED <<log, acked, highwater, late>>
    BY <1>3 DEF IngestReplyLost, feedVars
  <2>2. AckedDurable'
    <3>1. \A i \in acked : AtOrAfter(ApplyRowBatch(shadow, B), log[i].row, i)
      BY BatchKeepsAcked
    <3> QED
      BY <2>1, <3>1 DEF AckedDurable, AtOrAfter
  <2> QED
    BY <2>1, <2>2 DEF AckedClosed
<1>4. ASSUME NEW B \in Batches, SinkTimesOut(B)
      PROVE  DeliveryInv'
  <2>1. Cardinality(late) = 0
    BY FS_EmptySet
  <2> QED
    BY <1>4, <2>1 DEF SinkTimesOut
<1>5. ASSUME NEW w \in DOMAIN log, Checkpoint(w)
      PROVE  DeliveryInv'
  BY <1>5 DEF Checkpoint, AckedClosed, AckedDurable, AtOrAfter
<1>6. CASE FeedRestart
  <2>1. /\ acked' = 1..highwater
        /\ UNCHANGED <<log, highwater, late, shadow>>
    BY <1>6 DEF FeedRestart
  <2>2. acked' \subseteq acked /\ highwater \in Nat
    BY <2>1 DEF AckedClosed, TypeOK
  <2>3. AckedClosed'
    BY <2>1, <2>2 DEF AckedClosed
  <2> QED
    BY <2>1, <2>2, <2>3 DEF AckedDurable, AtOrAfter
<1>7. CASE UNCHANGED <<log, acked, highwater, late, shadow>>
  BY <1>7 DEF AckedClosed, AckedDurable, AtOrAfter
<1>8. CASE ProcessExit
  BY <1>8 DEF ProcessExit, AckedClosed, AckedDurable, AtOrAfter
<1>9. \/ \E r \in Row : \E v \in ValOf[r] \cup {Absent} : SourceCommit(r, v)
      \/ \E B \in Batches : IngestRowBatch(B)
      \/ \E B \in Batches : IngestReplyLost(B)
      \/ \E B \in Batches : SinkTimesOut(B)
      \/ \E w \in DOMAIN log : Checkpoint(w)
      \/ FeedRestart \/ ProcessExit
      \/ UNCHANGED <<log, acked, highwater, late, shadow>>
  BY DEF Next, vars, feedVars, Deliver, Resolve, IngestResolved,
         PersistResolvedWatermark, BeginPass, ApplyStatement, StatementRefused,
         StatementErrs, AbortPass, RecordFailure, PersistReconcileSuccess,
         CommitPass, Start
<1> QED
  BY <1>1, <1>2, <1>3, <1>4, <1>5, <1>6, <1>7, <1>8, <1>9

\* As long as no request outlives the sink's timeout, a 200 means the event
\* (or a later one of its row) is in the shadow tables for good: through lost
\* replies, resends, changefeed restarts and crashes of the runner.
THEOREM AcknowledgedIsDurable ==
    ASSUME MaxLate = 0
    PROVE  Spec => []AckedDurable
<1>1. Init => DeliveryInv
  BY DEF Init, DeliveryInv, AckedClosed, AckedDurable
<1>2. TypeOK /\ DeliveryInv /\ [Next]_vars => DeliveryInv'
  BY NextDeliveryInv
<1>3. DeliveryInv => AckedDurable
  BY DEF DeliveryInv
<1> QED
  BY <1>1, <1>2, <1>3, TypeCorrect, PTL DEF Spec

\* Under the same assumption, what a pass claims holds for every row that was
\* not ingested while the pass ran.
THEOREM ClaimsHoldForUntouchedRows ==
    ASSUME MaxLate = 0
    PROVE  Spec => []ClaimHoldsForUntouched
<1>1. TypeOK /\ AckedDurable /\ UntouchedRowsExact => ClaimHoldsForUntouched
  <2> SUFFICES ASSUME TypeOK, AckedDurable, UntouchedRowsExact, pc = "commit",
                      1..received \subseteq acked, NEW i \in 1..received,
                      log[i].row \notin touched
               PROVE  AtOrAfter(work, log[i].row, i)
    BY DEF ClaimHoldsForUntouched
  <2>1. i \in acked /\ log[i].row \in Row
    BY DEF TypeOK, Event
  <2>2. AtOrAfter(shadow, log[i].row, i)
    BY <2>1 DEF AckedDurable
  <2>3. work[log[i].row] = shadow[log[i].row]
    BY <2>1 DEF UntouchedRowsExact
  <2> QED
    BY <2>2, <2>3 DEF AtOrAfter
<1> QED
  BY <1>1, AcknowledgedIsDurable, PassesAreExact, TypeCorrect, PTL

============================================================================
