------------------------------ MODULE Pipeline ------------------------------
(***************************************************************************)
(* The runner's data path for one mapping: a CockroachDB changefeed pushes *)
(* row batches and resolved watermarks to the webhook, each request is one *)
(* PostgreSQL transaction on the helper shadow tables or on stream_state,  *)
(* and the reconcile worker repeatedly copies the shadow tables into the   *)
(* real tables in one READ COMMITTED transaction: every statement of the   *)
(* pass sees the shadow rows committed when that statement starts.         *)
(*                                                                         *)
(* The changefeed is external.  It is modelled from what the runner relies *)
(* on: per-row order, at-least-once delivery, a resolved watermark sent    *)
(* only when every event up to it was acknowledged, and a restart that     *)
(* resends everything after the last checkpoint.                           *)
(***************************************************************************)
EXTENDS DestinationSql

CONSTANTS
    InitialReal,  \* contents the real tables may have before the first start
    InitialLog,   \* source histories the changefeed may start from
    MaxLog,       \* bound: length of the source history
    MaxBatch,     \* bound: row events in one webhook request
    MaxFaults,    \* bound: crashes, lost replies, feed restarts, SQL errors
    MaxLate       \* bound: requests the sink gave up on that still run

\* The changefeed's events: which row changed, and to what.
Event == {e \in [row : Row, val : Val \cup {Absent}] :
            e.val = Absent \/ e.val \in ValOf[e.row]}

ASSUME InitialAssumption ==
    /\ \A db \in InitialReal : db \in Database /\ ConstraintsHold(db)
    /\ \A l \in InitialLog : l \in Seq(Event)
    /\ MaxLog \in Nat /\ MaxBatch \in Nat /\ MaxFaults \in Nat /\ MaxLate \in Nat

VARIABLES
    \* CockroachDB: the source and its changefeed
    log,        \* committed row changes, in commit (MVCC timestamp) order
    acked,      \* positions of log this changefeed run got a 200 for
    highwater,  \* the changefeed job's checkpoint
    late,       \* requests the sink timed out on, still running in the runner
    faults,     \* faults so far (bound only)
    \* PostgreSQL: committed state
    shadow,     \* helper shadow tables
    real,       \* real tables
    received,   \* stream_state.latest_received_resolved_watermark, 0 is NULL
    reconciled, \* stream_state.latest_reconciled_resolved_watermark, 0 is NULL
    sync,       \* table_sync_state: last_successful_sync_watermark, last_error
    \* the runner process
    up,         \* whether the process runs
    pc,         \* where the reconcile worker is
    stmt,       \* the statement of the pass to execute next
    work,       \* the real tables as the pass's open transaction sees them
    touched     \* history: shadow rows written since the pass began

feedVars == <<log, acked, highwater, late>>
trackingVars == <<received, reconciled, sync>>
workerVars == <<pc, stmt, work>>
vars == <<log, acked, highwater, late, faults, shadow, real, received,
          reconciled, sync, up, pc, stmt, work, touched>>

----------------------------------------------------------------------------
(* The source.                                                             *)

\* The last of the first n events about row r, 0 if there is none.
LastEvent(n, r) == Max({0} \cup {i \in 1..n : log[i].row = r})

\* The contents of the source tables after the first n commits.
SourceAt(n) ==
    [r \in Row |-> LET i == LastEvent(n, r)
                   IN  IF i = 0 THEN Absent ELSE log[i].val]

SourceNow == SourceAt(Len(log))

\* An application commits one row change.  The source keeps the same
\* constraints as the destination's real tables.
SourceCommit(r, v) ==
    /\ Len(log) < MaxLog
    /\ SourceNow[r] # v
    /\ ConstraintsHold([SourceNow EXCEPT ![r] = v])
    /\ log' = Append(log, [row |-> r, val |-> v])
    /\ UNCHANGED <<acked, highwater, late, faults, shadow, real, trackingVars,
                   up, workerVars, touched>>

----------------------------------------------------------------------------
(* The changefeed's deliveries.                                            *)

\* A batch the sink may send next: unacknowledged events of one table that
\* skip no earlier unacknowledged event of the same row.
Deliverable(B) ==
    /\ B # {}
    /\ Cardinality(B) <= MaxBatch
    /\ B \subseteq DOMAIN log \ acked
    /\ \A i, j \in B : TableOf[log[i].row] = TableOf[log[j].row]
    /\ \A i \in B : \A j \in 1..i :
          log[j].row = log[i].row => j \in acked \cup B

Batches == {B \in SUBSET DOMAIN log : Deliverable(B)}

RowsOf(B) == {log[i].row : i \in B}

\* The rows of a batch applied last to first.
ApplyReversed(db, B) ==
    [r \in Row |-> LET mine == {i \in B : log[i].row = r}
                   IN  IF mine = {} THEN db[r] ELSE log[Min(mine)].val]

\* persist_row_batch: every row of the batch in order, an upsert or a delete
\* by primary key; of several mutations of one row the last one remains.
ApplyRowBatch(db, B) ==
    [r \in Row |-> LET mine == {i \in B : log[i].row = r}
                   IN  IF mine = {} THEN db[r] ELSE log[Max(mine)].val]

\* Remember the shadow rows written while a pass is open.
Touch(B) == touched' = IF pc \in {"apply", "commit"}
                       THEN touched \cup RowsOf(B) ELSE touched

\* A fault uses up one unit of the bound.
Fault == faults < MaxFaults /\ faults' = faults + 1

\* The handler answers 200 before its transaction committed, and it fails.
AckWithoutCommit(B) ==
    /\ up
    /\ acked' = acked \cup B
    /\ UNCHANGED <<log, highwater, late, faults, shadow, real, trackingVars,
                   up, workerVars, touched>>

\* handle_row_batch: the transaction commits, then the sink gets its 200.
\* A request that fails (500) is rolled back, changes nothing and is resent.
IngestRowBatch(B) ==
    /\ up
    /\ shadow' = ApplyRowBatch(shadow, B)
    /\ acked' = acked \cup B
    /\ Touch(B)
    /\ UNCHANGED <<log, highwater, late, faults, real, trackingVars,
                   up, workerVars>>

\* The transaction commits and the reply is lost: the sink will resend.
IngestReplyLost(B) ==
    /\ up
    /\ Fault
    /\ shadow' = ApplyRowBatch(shadow, B)
    /\ Touch(B)
    /\ UNCHANGED <<feedVars, real, trackingVars, up, workerVars>>

\* The sink times out while the handler still waits for its connection: the
\* request stays in the runner and the sink will resend the same events.
SinkTimesOut(B) ==
    /\ up
    /\ B \notin late
    /\ Cardinality(late) < MaxLate
    /\ Fault
    /\ late' = late \cup {B}
    /\ UNCHANGED <<log, acked, highwater, shadow, real, trackingVars,
                   up, workerVars, touched>>

\* A request the sink no longer waits for commits after all.
LateRequestCommits(B) ==
    /\ up
    /\ shadow' = ApplyRowBatch(shadow, B)
    /\ late' = late \ {B}
    /\ Touch(B)
    /\ UNCHANGED <<log, acked, highwater, faults, real, trackingVars,
                   up, workerVars>>

\* received := w, whatever was stored.
StoreResolved(w) ==
    /\ received' = w
    /\ UNCHANGED <<feedVars, faults, shadow, real, reconciled, sync, up,
                   workerVars, touched>>

\* persist_resolved_watermark keeps the larger watermark.  Its UPDATE of the
\* stream_state row waits while a pass holds that row's lock (pc "commit").
PersistResolvedWatermark(w) ==
    /\ received' = Max({received, w})
    /\ UNCHANGED <<feedVars, faults, shadow, real, reconciled, sync, up,
                   workerVars, touched>>

\* The changefeed sends resolved w once every event up to w is acknowledged.
IngestResolved(w) ==
    /\ up
    /\ pc # "commit"
    /\ 1..w \subseteq acked
    /\ PersistResolvedWatermark(w)

\* The changefeed job saves its progress.
Checkpoint(w) ==
    /\ highwater < w
    /\ 1..w \subseteq acked
    /\ highwater' = w
    /\ UNCHANGED <<log, acked, late, faults, shadow, real, trackingVars,
                   up, workerVars, touched>>

\* The changefeed job restarts and resends what follows its checkpoint.
FeedRestart ==
    /\ acked # 1..highwater
    /\ Fault
    /\ acked' = 1..highwater
    /\ UNCHANGED <<log, highwater, late, shadow, real, trackingVars,
                   up, workerVars, touched>>

----------------------------------------------------------------------------
(* The reconcile worker of the mapping.                                    *)

NTables == Len(UpsertOrder)
StatementCount == 2 * NTables

\* Deletes in the same order as the upserts.
UnreversedTable(s) == UpsertOrder[IF s <= NTables THEN s ELSE s - NTables]

\* apply_reconcile_pass: the upserts in upsert order, then the deletes in the
\* reverse order.
StatementTable(s) ==
    UpsertOrder[IF s <= NTables THEN s ELSE StatementCount + 1 - s]

\* The real tables after statement s reads the committed shadow tables.
StatementResult(s) ==
    IF s <= NTables THEN UpsertStatement(work, shadow, StatementTable(s))
                    ELSE DeleteStatement(work, shadow, StatementTable(s))

\* PostgreSQL refuses the statement: it would break a constraint.
StatementRejected(s) == ~ConstraintsHold(StatementResult(s))

\* ... or whether it is refused depends on the order of the shadow scan.
StatementMayCollide(s) ==
    s <= NTables /\ UpsertMayCollide(work, shadow, StatementTable(s))

\* ticker.tick, connect, begin.
BeginPass ==
    /\ up
    /\ pc = "idle"
    /\ pc' = "apply"
    /\ stmt' = 1
    /\ work' = real
    /\ touched' = {}
    /\ UNCHANGED <<feedVars, faults, shadow, real, trackingVars, up>>

\* The next statement of the pass succeeds.
ApplyStatement ==
    /\ up
    /\ pc = "apply"
    /\ stmt <= StatementCount
    /\ ~StatementRejected(stmt)
    /\ work' = StatementResult(stmt)
    /\ stmt' = stmt + 1
    /\ UNCHANGED <<feedVars, faults, shadow, real, trackingVars, up, pc, touched>>

\* The statement fails: the transaction is rolled back.
AbortPass ==
    /\ up
    /\ pc = "apply"
    /\ stmt <= StatementCount
    /\ pc' = "failed"
    /\ work' = real
    /\ UNCHANGED <<feedVars, shadow, real, trackingVars, up, stmt, touched>>

\* ... because of a constraint,
StatementRefused ==
    /\ AbortPass
    /\ StatementRejected(stmt) \/ StatementMayCollide(stmt)
    /\ UNCHANGED faults

\* ... or because of any other SQL error.
StatementErrs == AbortPass /\ Fault

\* persist_reconcile_failure, a transaction of its own after the rollback:
\* last_error of the table whose statement failed.
RecordFailure ==
    /\ up
    /\ pc = "failed"
    /\ sync' = [sync EXCEPT ![StatementTable(stmt)].error = TRUE]
    /\ pc' = "idle"
    /\ stmt' = 1
    /\ touched' = {}
    /\ UNCHANGED <<feedVars, faults, shadow, real, received, reconciled, up, work>>

\* The UPDATE of stream_state inside the pass's transaction: from here to the
\* commit the pass holds the row lock, so received cannot change.
PersistReconcileSuccess ==
    /\ up
    /\ pc = "apply"
    /\ stmt = StatementCount + 1
    /\ pc' = "commit"
    /\ UNCHANGED <<feedVars, faults, shadow, real, trackingVars, up, stmt, work,
                   touched>>

\* Only the tables without an error get their watermark.
SuccessSkippingFailed(rec) ==
    IF rec = 0 THEN sync
    ELSE [t \in Table |-> IF sync[t].error THEN [sync[t] EXCEPT !.error = FALSE]
                          ELSE [watermark |-> rec, error |-> FALSE]]

\* table_sync_state after a successful pass: with no watermark received yet,
\* persist_reconcile_success returns before it updates the tables.
SyncAfterSuccess(rec) ==
    IF rec = 0 THEN sync
    ELSE [t \in Table |-> [watermark |-> rec, error |-> FALSE]]

\* The commit publishes the real tables and the tracking rows together.
CommitPass ==
    /\ up
    /\ pc = "commit"
    /\ real' = work
    /\ reconciled' = Max({reconciled, received})
    /\ sync' = SyncAfterSuccess(received)
    /\ pc' = "idle"
    /\ stmt' = 1
    /\ touched' = {}
    /\ UNCHANGED <<feedVars, faults, shadow, received, up, work>>

----------------------------------------------------------------------------
(* The process.                                                            *)

\* The process ends: killed, or an Err of the worker or of the server reached
\* execute.  Open transactions roll back and running requests vanish.
ProcessExit ==
    /\ up
    /\ Fault
    /\ up' = FALSE
    /\ pc' = "idle"
    /\ stmt' = 1
    /\ work' = real
    /\ touched' = {}
    /\ late' = {}
    /\ UNCHANGED <<log, acked, highwater, shadow, real, trackingVars>>

\* execute: bootstrap is idempotent (IF NOT EXISTS, ON CONFLICT), it keeps the
\* shadow tables, the watermarks and the errors of an earlier run.
Start ==
    /\ ~up
    /\ up' = TRUE
    /\ UNCHANGED <<feedVars, faults, shadow, real, trackingVars, workerVars,
                   touched>>

----------------------------------------------------------------------------
Init ==
    /\ log \in InitialLog
    /\ acked = {}
    /\ highwater = 0
    /\ late = {}
    /\ faults = 0
    /\ shadow = EmptyDatabase
    /\ real \in InitialReal
    /\ received = 0
    /\ reconciled = 0
    /\ sync = [t \in Table |-> [watermark |-> 0, error |-> FALSE]]
    /\ up = FALSE
    /\ pc = "idle"
    /\ stmt = 1
    /\ work = real
    /\ touched = {}

Deliver == \E B \in Batches : IngestRowBatch(B)

Resolve == \E w \in DOMAIN log : IngestResolved(w)

Next ==
    \/ \E r \in Row : \E v \in ValOf[r] \cup {Absent} : SourceCommit(r, v)
    \/ Deliver
    \/ \E B \in Batches : IngestReplyLost(B)
    \/ \E B \in Batches : SinkTimesOut(B)
    \/ \E B \in late : LateRequestCommits(B)
    \/ Resolve
    \/ \E w \in DOMAIN log : Checkpoint(w)
    \/ FeedRestart
    \/ BeginPass
    \/ ApplyStatement
    \/ StatementRefused
    \/ StatementErrs
    \/ RecordFailure
    \/ PersistReconcileSuccess
    \/ CommitPass
    \/ ProcessExit
    \/ Start

Spec == Init /\ [][Next]_vars

\* The worker's own steps.
Worker ==
    \/ BeginPass
    \/ ApplyStatement
    \/ StatementRefused
    \/ RecordFailure
    \/ PersistReconcileSuccess
    \/ CommitPass

\* The sink keeps retrying, the worker's timer keeps ticking and a dead
\* process is started again.  A resolved request waiting for the stream_state
\* row gets the lock in its turn, although passes keep taking it: strong
\* fairness for the newest watermark only.
Fairness ==
    /\ WF_vars(Deliver)
    /\ SF_vars(IngestResolved(Len(log)))
    /\ WF_vars(Worker)
    /\ WF_vars(Start)

FairSpec == Spec /\ Fairness

----------------------------------------------------------------------------
(* Properties.                                                             *)

\* Types, and the ranges that tie positions to the source history.
TypeOK ==
    /\ log \in Seq(Event)
    /\ acked \subseteq DOMAIN log
    /\ highwater \in 0..Len(log)
    /\ late \subseteq SUBSET DOMAIN log
    /\ faults \in 0..MaxFaults
    /\ shadow \in Database
    /\ real \in Database
    /\ work \in Database
    /\ received \in 0..Len(log)
    /\ reconciled \in 0..Len(log)
    /\ sync \in [Table -> [watermark : Nat, error : BOOLEAN]]
    /\ up \in BOOLEAN
    /\ pc \in {"idle", "apply", "commit", "failed"}
    /\ stmt \in 1..(StatementCount + 1)
    /\ touched \subseteq Row

\* Row r holds, in db, what some event at or after position i set it to.
AtOrAfter(db, r, i) ==
    \E j \in DOMAIN log : j >= i /\ log[j].row = r /\ log[j].val = db[r]

\* An acknowledged event is durable: whatever requests were lost, resent or
\* interrupted by a crash, the shadow row holds that event's value or that of
\* a later event of the row.
AckedDurable ==
    \A i \in acked : AtOrAfter(shadow, log[i].row, i)

\* When a pass is about to commit, every row whose shadow was not written
\* during the pass is exactly what the shadow tables say, although each
\* statement read the shadow tables at a different moment.
UntouchedRowsExact ==
    pc = "commit" => \A r \in Row \ touched : work[r] = shadow[r]

\* The watermark a pass is about to claim holds for the rows ingestion left
\* alone: if the running changefeed has delivered everything up to received,
\* their real value is at least as new as received.
ClaimHoldsForUntouched ==
    (pc = "commit" /\ 1..received \subseteq acked)
        => \A i \in 1..received :
              log[i].row \notin touched => AtOrAfter(work, log[i].row, i)

\* The dependency order makes a pass acceptable to the foreign keys: while the
\* shadow tables are consistent and nothing is ingested, no statement of a
\* pass is refused.
QuietPassAccepted ==
    (/\ pc = "apply"
     /\ stmt <= StatementCount
     /\ touched = {}
     /\ UniqueTable = {}
     /\ ForeignKeysHold(shadow))
        => ~StatementRejected(stmt)

\* The two tracking tables agree: every table's last successful watermark is
\* the stream's reconciled watermark, which never exceeds the received one.
TrackingAgrees ==
    /\ reconciled <= received
    /\ \A t \in Table : sync[t].watermark = reconciled

\* Neither watermark ever moves back, although a restarted changefeed sends
\* older resolved messages again.
WatermarksMonotone ==
    [][received' >= received /\ reconciled' >= reconciled]_vars

----------------------------------------------------------------------------
(* The inductive strengthenings the proofs use.                            *)

\* What the statements executed so far have established for the rows whose
\* shadow did not change meanwhile.
PassProgress ==
    /\ pc = "commit" => stmt = StatementCount + 1
    /\ pc \in {"apply", "commit"} =>
          \A s \in 1..(stmt - 1) : \A r \in Row \ touched :
              TableOf[r] = StatementTable(s) =>
                  IF s <= NTables
                  THEN shadow[r] # Absent => work[r] = shadow[r]
                  ELSE shadow[r] = Absent => work[r] = Absent

\* What the changefeed has acknowledged is closed downwards per row and
\* contains what its checkpoint covers.
AckedClosed ==
    /\ 1..highwater \subseteq acked
    /\ \A i \in acked : \A j \in 1..i : log[j].row = log[i].row => j \in acked

----------------------------------------------------------------------------
(* Liveness.                                                               *)

\* Once the source is quiet, the real tables become and stay a copy of the
\* source, the reconciled watermark reaches the end of the history, and the
\* errors recorded on the way are cleared.
Converges ==
    <>[](/\ real = SourceNow
         /\ reconciled = Len(log)
         /\ log # << >> => \A t \in Table : ~sync[t].error)

----------------------------------------------------------------------------
(* What the documentation says and the code does not keep.                 *)

\* docs/operator-guide/architecture.md:68: "After a successful reconcile pass
\* the real tables and shadow tables are identical for all rows that existed
\* at the reconciled watermark."  Stated weaker: no real row is older than the
\* reconciled watermark.
ReconciledWatermarkCovered ==
    \A i \in 1..reconciled : AtOrAfter(real, log[i].row, i)

\* designs/crdb-to-postgres-cdc/07_test_strategy.md:66: "duplicate webhook
\* batch does not create incorrect net state": once everything is delivered,
\* the shadow tables stay a copy of the source.
DuplicateBatchHarmless == <>[](shadow = SourceNow)

\* designs/crdb-to-postgres-cdc/07_test_strategy.md:77: "once helper shadow
\* tables are correct, real tables converge to the same state".
CorrectShadowReachesReal == <>[](shadow = SourceNow) => <>[](real = shadow)

============================================================================
