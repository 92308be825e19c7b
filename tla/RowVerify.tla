----------------------------- MODULE RowVerify -----------------------------
(***************************************************************************)
(* The verification of one shard of a table: two paged scans of the same   *)
(* key range, source of truth and target, merged by primary key, and, in   *)
(* live mode, a goroutine that looks differing keys up again before they   *)
(* are reported.  Both databases keep being written while this happens.    *)
(*                                                                         *)
(* An action is one step of one goroutine: a page read by a prefetching    *)
(* goroutine, one event of the merge, one lookup of the reverifier, or a   *)
(* rendezvous of the merge and the reverifier on an unbuffered channel.    *)
(* Keys are integers; a row is the sequence of its non-key datums.  Time   *)
(* is left out: a flush interval may pass at any row, and any queued item  *)
(* may be the one that is due.                                             *)
(***************************************************************************)
EXTENDS Integers, Sequences, FiniteSets

CONSTANTS
    Keys,          \* primary keys that occur
    Start, End,    \* the shard holds the keys k with Start <= k < End
    Absent,        \* no row
    Rows,          \* the rows either side can hold: [Sides -> set of rows]
    Contents,      \* the databases the scan may find: a subset of Database
    Modes,         \* subset of BOOLEAN: TRUE is live mode
    RowBatchSize,  \* rows per page
    ProgressEvery, \* rows between two progress summaries (10000)
    MaxBatchSize,  \* keys a live listener collects before it must flush
    MaxRetries,    \* retry.Settings.MaxRetries
    MaxWrites,     \* bound: rows written while the shard is verified
    MaxFaults      \* bound: queries that fail or are cut short

Sides == {"truth", "target"}
Row(s) == Rows[s] \cup {Absent}
Database == [truth : [Keys -> Row("truth")], target : [Keys -> Row("target")]]

ASSUME RowVerifyAssumption ==
    /\ Keys \subseteq Int /\ IsFiniteSet(Keys) /\ Start \in Int /\ End \in Int
    /\ Absent \notin Keys
    /\ \A s \in Sides : Absent \notin Rows[s]
    /\ Contents \subseteq Database
    /\ Modes \subseteq BOOLEAN
    /\ RowBatchSize \in Nat \ {0} /\ ProgressEvery \in Nat \ {0} /\ MaxBatchSize \in Nat \ {0}
    /\ MaxRetries \in Nat \ {0}
    /\ MaxWrites \in Nat /\ MaxFaults \in Nat

InShard(k) == Start <= k /\ k < End

VARIABLES
    db,        \* the two databases
    scan,      \* the two scan iterators
    main,      \* verifyRows of the scan: where it is, its row, colIdxToSeen, the
               \* stats' NumVerified, and rowsChecked, what the job adds up
    pending,   \* liveRowEventListener.pks
    queue,     \* liveRetryQueue: items of keys and their Retry.Iteration
    rv,        \* the goroutine of the live reverifier
    verdicts,  \* what the default listener was told of each key, in order
    live,      \* whether live mode is on
    touched,   \* history: keys written while the shard was verified
    unsure,    \* history: keys of a lookup that failed or was cut short
    lookups,   \* history: completed lookups of each key
    writes, faults

vars == <<db, scan, main, pending, queue, rv, verdicts, live, touched, unsure,
          lookups, writes, faults>>

----------------------------------------------------------------------------
(* Comparing two rows: verifyRows on equal primary keys.                   *)

\* A bool beside an int is converted; a uuid, an IP address or a JSON value
\* beside a string becomes its text.
Comparable(d, other) ==
    CASE d.fam = "bool" /\ other.fam = "int" -> [d EXCEPT !.fam = "int"]
      [] d.fam \in {"uuid", "inet", "json"} /\ other.fam = "string" ->
            [d EXCEPT !.fam = "string"]
      [] OTHER -> d

\* CompareError: NULL compares with everything, families only with themselves.
Compares(d, e) == d.fam = e.fam \/ "null" \in {d.fam, e.fam}

\* Columns whose values cannot be compared, and columns whose values differ.
ErrColumns(r, q) ==
    {i \in DOMAIN r : ~Compares(Comparable(r[i], q[i]), Comparable(q[i], r[i]))}
DiffColumns(r, q) ==
    {i \in DOMAIN r : /\ i \notin ErrColumns(r, q)
                      /\ Comparable(r[i], q[i]) # Comparable(q[i], r[i])}

\* A row with differing columns is mismatching; one whose only issue are
\* incomparable columns passes conditionally, and is reported unless one of
\* those columns was met before.
CompareRows(r, q, seen) ==
    IF DiffColumns(r, q) # {} THEN "mismatch"
    ELSE IF ErrColumns(r, q) = {} THEN "match"
    ELSE IF ErrColumns(r, q) \cap seen = {} THEN "column"
    ELSE "column_quiet"

\* The verdict on a key of which one side read row r and the other row q.
Classify(r, q, seen) ==
    IF r = Absent THEN IF q = Absent THEN "none" ELSE "extraneous"
    ELSE IF q = Absent THEN "missing" ELSE CompareRows(r, q, seen)

\* A column counts as seen although its values compared.
SeenAlways(r, q, seen) == IF Absent \in {r, q} THEN seen ELSE seen \cup DOMAIN r

SeenAfter(r, q, seen) ==
    IF Absent \in {r, q} THEN seen ELSE seen \cup ErrColumns(r, q)

Findings == {"missing", "extraneous", "mismatch"}
Verdicts == Findings \cup {"match", "column", "column_quiet"}

----------------------------------------------------------------------------
(* scan_iterator.go                                                        *)

\* NewScanIterator: the first page is asked for at once.
NewScan == [fetch |-> "asked", page |-> << >>, cursor |-> Absent,
            cache |-> << >>, size |-> RowBatchSize, err |-> FALSE]

\* The cursor's own row is read again.
AtOrAfter(s) == {k \in Keys : /\ db[s][k] # Absent
                              /\ k < End
                              /\ IF scan[s].cursor = Absent THEN k >= Start
                                 ELSE k >= scan[s].cursor}

\* scanQuery.generate: after the cursor if there is one, else from the start
\* of the shard; always before its end.
After(s) == {k \in Keys : /\ db[s][k] # Absent
                          /\ k < End
                          /\ IF scan[s].cursor = Absent THEN k >= Start
                             ELSE k > scan[s].cursor}

Rank(k, S) == Cardinality({j \in S : j <= k})

\* No LIMIT.
WholeTable(S) == S

\* ORDER BY the key LIMIT rowBatchSize.
FirstPage(S) == {k \in S : Rank(k, S) <= RowBatchSize}
Ordered(S) == [i \in 1..Cardinality(S) |-> CHOOSE k \in S : Rank(k, S) = i]
Page(s) == LET keys == Ordered(FirstPage(After(s)))
           IN  [i \in DOMAIN keys |-> [key |-> keys[i], row |-> db[s][keys[i]]]]

Ready(s) == scan[s].cache # << >> /\ ~scan[s].err
Exhausted(s) == scan[s].cache = << >> /\ scan[s].size < RowBatchSize
Over(s) == scan[s].err \/ Exhausted(s)

Rest == <<main, pending, queue, rv, verdicts, live, unsure, lookups, writes>>

\* nextPage: the goroutine reads one page and moves the cursor.
FetchPage(s) ==
    /\ scan[s].fetch = "asked"
    /\ LET page == Page(s)
       IN  scan' = [scan EXCEPT ![s].fetch = "page", ![s].page = page,
                        ![s].cursor = IF page = << >> THEN @ ELSE page[Len(page)].key]
    /\ UNCHANGED <<db, touched, faults, Rest>>

\* nextPage: the query, a datum or the rate limiter fails.
FetchFails(s) ==
    /\ faults < MaxFaults
    /\ scan[s].fetch = "asked"
    /\ scan' = [scan EXCEPT ![s].fetch = "error"]
    /\ faults' = faults + 1
    /\ UNCHANGED <<db, touched, Rest>>

\* The iterator the merge is asking for its next row.
Wanted == CASE main.pc = "truth" -> {"truth"}
            [] main.pc \in {"target", "drain"} -> {"target"}
            [] OTHER -> {}

\* The end of the table is not recognised, and no page asked for.
ReceiveForgettingSize(s) ==
    /\ s \in Wanted
    /\ ~Over(s) /\ ~Ready(s)
    /\ \/ /\ scan[s].fetch = "page"
          /\ scan' = [scan EXCEPT ![s].cache = scan[s].page, ![s].page = << >>,
                        ![s].fetch = "none"]
       \/ /\ scan[s].fetch = "error"
          /\ scan' = [scan EXCEPT ![s].err = TRUE]
    /\ UNCHANGED <<db, touched, faults, Rest>>

\* HasNext: an empty cache waits for the page on its way.  A full page means
\* that there may be another one, which is asked for immediately.
Receive(s) ==
    /\ s \in Wanted
    /\ ~Over(s) /\ ~Ready(s)
    /\ \/ /\ scan[s].fetch = "page"
          /\ LET page == scan[s].page
             IN  scan' = [scan EXCEPT ![s].cache = page, ![s].page = << >>,
                            ![s].size = Len(page),
                            ![s].fetch = IF Len(page) = RowBatchSize THEN "asked"
                                         ELSE "none"]
       \/ /\ scan[s].fetch = "error"
          /\ scan' = [scan EXCEPT ![s].err = TRUE]
    /\ UNCHANGED <<db, touched, faults, Rest>>

\* Next: the head of the cache is consumed.
Took(s) == [scan EXCEPT ![s].cache = Tail(@)]
Peek(s) == Head(scan[s].cache)

----------------------------------------------------------------------------
(* rowverify.go: the merge of the two scans, and its listener.             *)

Quiet == <<db, queue, rv, live, touched, unsure, lookups, writes, faults>>

\* The listener hears of key k.  The default listener reports; the live one
\* collects what differs and passes the rest on.
Tell(k, r, q) ==
    LET v == Classify(r, q, main.seen)
    IN  IF live /\ v \in Findings
        THEN pending' = pending \cup {k} /\ UNCHANGED verdicts
        ELSE verdicts' = [verdicts EXCEPT ![k] = Append(@, v)] /\ UNCHANGED pending

Goto(pc) == main' = [main EXCEPT !.pc = pc]

\* The row is counted before it is asked whether a summary is due.
OnRowScanEager(m) ==
    [m EXCEPT !.verified = @ + 1,
              !.checked = IF (m.verified + 1) % ProgressEvery = 0 THEN @ + m.verified + 1 ELSE @]

\* OnRowScan: a progress summary carries all rows so far, and the job adds it.
OnRowScan(m) ==
    [m EXCEPT !.verified = @ + 1,
              !.checked = IF m.verified % ProgressEvery = 0 THEN @ + m.verified ELSE @]

\* The summary of a shard that finished.
Finish == main' = [main EXCEPT !.pc = "finished", !.checked = @ + main.verified]

\* A row of the truth is taken; its listener need not flush.
ScanRow ==
    /\ main.pc = "truth"
    /\ Ready("truth")
    /\ live => Cardinality(pending) < MaxBatchSize
    /\ main' = [OnRowScan(main) EXCEPT !.pc = "target", !.row = Peek("truth")]
    /\ scan' = Took("truth")
    /\ UNCHANGED <<pending, verdicts, Quiet>>

\* Push: an unbuffered channel, so the reverifier must be in its select.
Push ==
    /\ rv.pc = "select"
    /\ queue' = queue \cup {[keys |-> pending, iter |-> 1]}
    /\ pending' = {}

\* OnRowScan of the live listener flushes: the interval is over, or the batch
\* is full.
FlushAndScanRow ==
    /\ live
    /\ main.pc = "truth"
    /\ Ready("truth")
    /\ pending # {}
    /\ Push
    /\ main' = [OnRowScan(main) EXCEPT !.pc = "target", !.row = Peek("truth")]
    /\ scan' = Took("truth")
    /\ UNCHANGED <<db, rv, verdicts, live, touched, unsure, lookups, writes, faults>>

\* An error of the target counts as its end.
TargetOverBlindly ==
    /\ main.pc = "target"
    /\ Over("target")
    /\ Tell(main.row.key, main.row.row, Absent)
    /\ Goto("truth")
    /\ UNCHANGED <<scan, Quiet>>

\* No target row is left for the current truth row.  An error of the target
\* says nothing of the row.
TargetOver ==
    /\ main.pc = "target"
    /\ Over("target")
    /\ IF scan["target"].err THEN UNCHANGED <<pending, verdicts>>
       ELSE Tell(main.row.key, main.row.row, Absent)
    /\ Goto("truth")
    /\ UNCHANGED <<scan, Quiet>>

\* The target's next row comes before the current one: extraneous.
TargetBehind ==
    /\ main.pc = "target"
    /\ Ready("target")
    /\ Peek("target").key < main.row.key
    /\ Tell(Peek("target").key, Absent, Peek("target").row)
    /\ scan' = Took("target")
    /\ UNCHANGED <<main, Quiet>>

\* The same key on both sides: the rows are compared.
TargetEqual ==
    /\ main.pc = "target"
    /\ Ready("target")
    /\ Peek("target").key = main.row.key
    /\ Tell(main.row.key, main.row.row, Peek("target").row)
    /\ scan' = Took("target")
    /\ main' = [main EXCEPT !.pc = "truth",
                    !.seen = SeenAfter(main.row.row, Peek("target").row, @)]
    /\ UNCHANGED Quiet

\* The target is past the current row: missing.
TargetAhead ==
    /\ main.pc = "target"
    /\ Ready("target")
    /\ Peek("target").key > main.row.key
    /\ Tell(main.row.key, main.row.row, Absent)
    /\ Goto("truth")
    /\ UNCHANGED <<scan, Quiet>>

\* The rows the target has left are forgotten.
TruthOverWithoutDrain ==
    /\ main.pc = "truth"
    /\ Over("truth")
    /\ IF \E s \in Sides : scan[s].err THEN Goto("failed")
       ELSE IF live THEN Goto("flush") ELSE Finish
    /\ UNCHANGED <<scan, pending, verdicts, Quiet>>

\* The truth has no more rows: an error of either side ends the shard.  The
\* target's is looked at before its remaining rows are read.
TruthOver ==
    /\ main.pc = "truth"
    /\ Over("truth")
    /\ Goto(IF \E s \in Sides : scan[s].err THEN "failed" ELSE "drain")
    /\ UNCHANGED <<scan, pending, verdicts, Quiet>>

\* What the target has left is extraneous.
DrainRow ==
    /\ main.pc = "drain"
    /\ Ready("target")
    /\ Tell(Peek("target").key, Absent, Peek("target").row)
    /\ scan' = Took("target")
    /\ UNCHANGED <<main, Quiet>>

\* The target has no more rows, or failed: HasNext says no either way, and its
\* error is not looked at again.
DrainOver ==
    /\ main.pc = "drain"
    /\ Over("target")
    /\ IF live THEN Goto("flush") ELSE Finish
    /\ UNCHANGED <<scan, pending, verdicts, Quiet>>

\* Flush after the scan, if anything is left to flush.
FinalFlush ==
    /\ main.pc = "flush"
    /\ IF pending = {} THEN UNCHANGED <<queue, pending>> ELSE Push
    /\ Goto("complete")
    /\ UNCHANGED <<db, scan, rv, verdicts, live, touched, unsure, lookups, writes, faults>>

\* ScanComplete: a rendezvous like Push.
ScanComplete ==
    /\ main.pc = "complete"
    /\ rv.pc = "select"
    /\ rv' = [rv EXCEPT !.scanDone = TRUE]
    /\ Goto("wait")
    /\ UNCHANGED <<db, scan, pending, queue, verdicts, live, touched, unsure, lookups,
                   writes, faults>>

\* WaitForDone, then the summary.
WaitForDone ==
    /\ main.pc = "wait"
    /\ rv.pc = "done"
    /\ Finish
    /\ UNCHANGED <<scan, pending, verdicts, Quiet>>

----------------------------------------------------------------------------
(* live_reverifier.go: the goroutine.                                      *)

Scanning == <<db, scan, main, pending, live, touched, writes>>

\* The timer of the queue's head fires.
PopItem ==
    /\ rv.pc = "select"
    /\ \E it \in queue :
          /\ queue' = queue \ {it}
          /\ rv' = [rv EXCEPT !.pc = "truth", !.item = it]
    /\ UNCHANGED <<Scanning, verdicts, unsure, lookups, faults>>

\* The point lookup on the truth.  PrimaryKeys[:0] shares its array with both
\* iterators, whose queries are built before the listener appends to it.
LookupTruth ==
    /\ rv.pc = "truth"
    /\ rv' = [rv EXCEPT !.pc = "target", !.rows = db["truth"]]
    /\ UNCHANGED <<Scanning, queue, verdicts, unsure, lookups, faults>>

\* The rows of a lookup end early: rows.Err() is not looked at, and the rows
\* that did not arrive read as absent.
LookupTruthCut ==
    /\ faults < MaxFaults
    /\ rv.pc = "truth"
    /\ \E n \in rv.item.keys :
          rv' = [rv EXCEPT !.pc = "target",
                    !.rows = [k \in Keys |-> IF k < n THEN db["truth"][k] ELSE Absent]]
    /\ unsure' = unsure \cup rv.item.keys
    /\ faults' = faults + 1
    /\ UNCHANGED <<Scanning, queue, verdicts, lookups>>

\* A query of a lookup fails: the error is logged, or never seen when the truth
\* had no row, and the item is gone.
LookupFails ==
    /\ faults < MaxFaults
    /\ rv.pc \in {"truth", "target"}
    /\ rv' = [rv EXCEPT !.pc = "select"]
    /\ unsure' = unsure \cup rv.item.keys
    /\ faults' = faults + 1
    /\ UNCHANGED <<Scanning, queue, verdicts, lookups>>

\* One retry too few.
ShouldContinueShort(iter) == iter + 1 < MaxRetries

ShouldContinue(iter) == iter < MaxRetries

\* colIdxToSeen when verifyRows of the lookup reaches key k.
SeenBefore(k, q) ==
    UNION {IF Absent \in {rv.rows[j], q[j]} THEN {} ELSE ErrColumns(rv.rows[j], q[j]) :
              j \in {j \in rv.item.keys : j < k}}

\* The rest of the item's round, once the target answered with q: verifyRows
\* with the reverifyEventListener, then Retry.Next and the queue.
Decide(q) ==
    LET v(k) == Classify(rv.rows[k], q[k], SeenBefore(k, q))
        again == {k \in rv.item.keys : v(k) \in Findings /\ ShouldContinue(rv.item.iter)}
        told == {k \in rv.item.keys : v(k) # "none"} \ again
    IN  /\ verdicts' = [k \in Keys |-> IF k \in told THEN Append(verdicts[k], v(k))
                                       ELSE verdicts[k]]
        /\ queue' = IF again = {} THEN queue
                    ELSE queue \cup {[keys |-> again, iter |-> rv.item.iter + 1]}
        /\ lookups' = [k \in Keys |-> IF k \in rv.item.keys THEN lookups[k] + 1
                                      ELSE lookups[k]]
        /\ rv' = [rv EXCEPT !.pc = "select"]

LookupTarget ==
    /\ rv.pc = "target"
    /\ Decide(db["target"])
    /\ UNCHANGED <<Scanning, unsure, faults>>

LookupTargetCut ==
    /\ faults < MaxFaults
    /\ rv.pc = "target"
    /\ \E n \in rv.item.keys :
          Decide([k \in Keys |-> IF k < n THEN db["target"][k] ELSE Absent])
    /\ unsure' = unsure \cup rv.item.keys
    /\ faults' = faults + 1
    /\ UNCHANGED Scanning

\* The loop ends when the scan is complete and the queue is empty.
ReverifierEnds ==
    /\ rv.pc = "select"
    /\ rv.scanDone
    /\ queue = {}
    /\ rv' = [rv EXCEPT !.pc = "done"]
    /\ UNCHANGED <<Scanning, queue, verdicts, unsure, lookups, faults>>

----------------------------------------------------------------------------
Ended == main.pc \in {"finished", "failed"}

\* The application and the migration write while rows are compared; no query
\* of the shard reads rows outside it.
Write(s, k) ==
    /\ InShard(k)
    /\ ~Ended
    /\ writes < MaxWrites
    /\ \E r \in Row(s) \ {db[s][k]} : db' = [db EXCEPT ![s][k] = r]
    /\ touched' = touched \cup {k}
    /\ writes' = writes + 1
    /\ UNCHANGED <<scan, main, pending, queue, rv, verdicts, live, unsure, lookups, faults>>

Init ==
    /\ db \in Contents
    /\ scan = [s \in Sides |-> NewScan]
    /\ main = [pc |-> "truth", row |-> [key |-> Start, row |-> Absent], seen |-> {},
               verified |-> 0, checked |-> 0]
    /\ pending = {}
    /\ queue = {}
    /\ rv = [pc |-> "select", item |-> [keys |-> {}, iter |-> 0],
             rows |-> [k \in Keys |-> Absent], scanDone |-> FALSE]
    /\ verdicts = [k \in Keys |-> << >>]
    /\ live \in Modes
    /\ touched = {}
    /\ unsure = {}
    /\ lookups = [k \in Keys |-> 0]
    /\ writes = 0
    /\ faults = 0

Merge == ScanRow \/ FlushAndScanRow \/ TargetOver \/ TargetBehind \/ TargetEqual
            \/ TargetAhead \/ TruthOver \/ DrainRow \/ DrainOver \/ FinalFlush
            \/ ScanComplete \/ WaitForDone

Reverify == PopItem \/ LookupTruth \/ LookupTarget \/ ReverifierEnds

Next ==
    \/ Merge
    \/ Reverify
    \/ \E s \in Sides : FetchPage(s) \/ FetchFails(s) \/ Receive(s)
    \/ LookupTruthCut \/ LookupTargetCut \/ LookupFails
    \/ \E s \in Sides, k \in Keys : Write(s, k)

Spec == Init /\ [][Next]_vars

\* Queries return and goroutines are scheduled; nobody has to write or to fail.
Fairness ==
    /\ WF_vars(Merge)
    /\ WF_vars(Reverify)
    /\ \A s \in Sides : WF_vars(FetchPage(s)) /\ WF_vars(Receive(s))

FairSpec == Spec /\ Fairness

----------------------------------------------------------------------------
(* Properties.                                                             *)

ItemKeys == {it.keys : it \in queue}
Looking == IF rv.pc \in {"truth", "target"} THEN rv.item.keys ELSE {}

Entry(s) == [key : Keys, row : Rows[s]]
Iterator(s) == [fetch : {"none", "asked", "page", "error"}, page : Seq(Entry(s)),
                cursor : Keys \cup {Absent}, cache : Seq(Entry(s)),
                size : 0..RowBatchSize, err : BOOLEAN]
Columns == UNION {DOMAIN r : r \in Rows["truth"]}
MergeState == [pc : {"truth", "target", "drain", "flush", "complete", "wait", "finished",
                     "failed"},
               row : [key : Keys \cup {Start}, row : Row("truth")],
               seen : SUBSET Columns, verified : Nat, checked : Nat]
Item == [keys : (SUBSET Keys) \ {{}}, iter : 1..MaxRetries]
ReverifierState == [pc : {"select", "truth", "target", "done"},
                    item : Item \cup {[keys |-> {}, iter |-> 0]},
                    rows : [Keys -> Row("truth")], scanDone : BOOLEAN]

\* The shape of the iterators, the listener and the reverifier.
TypeOK ==
    /\ db \in Database
    /\ scan \in [Sides -> Iterator("truth") \cup Iterator("target")]
    /\ \A s \in Sides : scan[s] \in Iterator(s)
    /\ main \in MergeState
    /\ rv \in ReverifierState
    /\ pending \subseteq Keys
    /\ queue \subseteq Item
    /\ verdicts \in [Keys -> Seq(Verdicts)]
    /\ live \in BOOLEAN
    /\ touched \subseteq Keys /\ unsure \subseteq Keys
    /\ lookups \in [Keys -> Nat]
    /\ writes \in 0..MaxWrites /\ faults \in 0..MaxFaults

\* The merge and the reverifier never handle a key twice, whatever is written
\* meanwhile: a key is decided at most once, and a key somebody still has to
\* look up again is in one place and not decided.
HandledOnce ==
    /\ \A k \in Keys : Len(verdicts[k]) <= 1
    /\ \A S, T \in ItemKeys \cup {pending, Looking} : S # T => S \cap T = {}
    /\ \A k \in UNION (ItemKeys \cup {pending, Looking}) : verdicts[k] = << >>
    /\ \A k \in Keys : verdicts[k] # << >> => InShard(k)

\* What a key that nobody wrote should be reported as.
Truth(k) == Classify(db["truth"][k], db["target"][k], {})
SameClass(v, w) == v = w \/ {v, w} \subseteq {"column", "column_quiet"}
Decided(k) == IF Truth(k) = "none" THEN verdicts[k] = << >>
              ELSE Len(verdicts[k]) = 1 /\ SameClass(verdicts[k][1], Truth(k))

\* A row that nobody wrote is never called something it is not, at any moment
\* and whatever else is written or fails: pages read at different times and a
\* target that failed produce no false finding and no false match.
NoFalseVerdict ==
    \A k \in Keys \ (touched \cup unsure) :
        verdicts[k] # << >> => SameClass(verdicts[k][1], Truth(k))

\* A shard that ends without an error has decided every row of its range that
\* nobody wrote, rightly and once; in live mode if no lookup of the row failed.
\* A page of the target that fails while the rest of the target is drained is
\* excepted: VerifyRowsOnShard looks at the error before the drain only, so the
\* shard ends without the extraneous rows of that page.
FinishedIsExact ==
    (main.pc = "finished" /\ ~scan["target"].err) =>
        \A k \in Keys \ (touched \cup unsure) : InShard(k) => Decided(k)

\* Outside live mode a column that cannot be compared never leaves the shard
\* clean: a row that passes without a report follows a report of the shard.
QuietIsNotClean ==
    (~live /\ \E k \in Keys : \E i \in DOMAIN verdicts[k] : verdicts[k][i] = "column_quiet") =>
        \E k \in Keys : \E i \in DOMAIN verdicts[k] :
            verdicts[k][i] \in {"column", "mismatch"}

\* cmd/verify's --live: a row is only marked as inconsistent after it was
\* looked up MaxRetries times.
FindingsAreRetried ==
    live => \A k \in Keys : \A i \in DOMAIN verdicts[k] :
                verdicts[k][i] \in Findings => lookups[k] >= MaxRetries

\* The rows a finished shard adds to rows_checked are the rows of the truth, as
\* long as no progress summary was due; every progress summary is counted again
\* by the next one, so that a larger shard never adds too few.
RowsCheckedExact ==
    main.pc = "finished" =>
        /\ main.verified <= ProgressEvery => main.checked = main.verified
        /\ main.checked >= main.verified
        /\ touched = {} => main.verified =
              Cardinality({k \in Keys : InShard(k) /\ db["truth"][k] # Absent})

\* The verification of the shard returns, whatever the reverifier was doing
\* when the scan ended, and then nothing is left to look up.
ShardReturns == <>(Ended /\ (main.pc = "finished" => queue = {} /\ pending = {}))

============================================================================
