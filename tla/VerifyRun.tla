----------------------------- MODULE VerifyRun -----------------------------
(***************************************************************************)
(* One run of the verifier on one database: VerifyRunner.Run connects,     *)
(* Verify lists and filters the tables of both sides, compares their       *)
(* definitions, splits the tables whose rows can be compared into shards   *)
(* and has a group of workers verify the shards from an unbuffered queue.  *)
(* What is reported enters the job's result, which decides the status of   *)
(* the database when the run returns.                                      *)
(*                                                                         *)
(* The rows of a shard are the subject of RowVerify; here a shard reports  *)
(* differences, ends or fails.                                             *)
(***************************************************************************)
EXTENDS TableVerify, ShardTable

CONSTANTS
    Scenarios,  \* the databases and options a run may be given
    NumCPU,     \* runtime.NumCPU()
    MaxFaults   \* bound: calls to a database that fail or are cut short

ASSUME RunAssumption == NumCPU \in Nat \ {0} /\ MaxFaults \in Nat

\* How the first column of a primary key is split.
KindOf(type) ==
    CASE Family(type) = "int" -> "int"
      [] type = "uuid" -> "uuid"
      [] type = "float8" -> "float"
      [] OTHER -> "other"

\* Catalogs are finite, and the extremes are keys of the tables.
ASSUME ScenarioAssumption ==
    \A x \in Scenarios :
        /\ \A s \in {"truth", "target"} :
              /\ IsFiniteSet(DOMAIN x.tables[s]) /\ DOMAIN x.tables[s] \subseteq Name
              /\ \A n \in DOMAIN x.tables[s] : x.tables[s][n] \in TableDefinition
        /\ \A n \in DOMAIN x.tables["truth"] :
              LET d == x.tables["truth"][n]
              IN  d.pk # << >> =>
                    x.extremes \in Extremes(KindOf(ColumnNamed(d.cols, d.pk[1]).type))
        /\ {x.filterCompiles, x.rows, x.continuous} \subseteq BOOLEAN
        /\ x.splits \in Int /\ x.concurrency \in Nat

VARIABLES
    scn,      \* the scenario: catalogs, filter, options
    pc,       \* where Run and Verify are
    listed,   \* dbTables: the tables both sides have, and those one side lacks
    tbls,     \* the results of VerifyCommonTables
    split,    \* how many of tbls ShardTable was called for
    shards,   \* the shards of all tables
    fed,      \* how many shards were sent to the work queue
    worker,   \* what each goroutine is doing: idle, exited, or its shard
    result,   \* the jobResult, and the tables the job's status names
    err,      \* whether Verify returned an error
    status,   \* the status of the database
    cut,      \* history: reads of the catalog that ended early, unnoticed
    logged,   \* history: shards whose error was logged
    ran,      \* history: how often each shard ended without an error (0, 1, many)
    faults

vars == <<scn, pc, listed, tbls, split, shards, fed, worker, result, err, status,
          cut, logged, ran, faults>>

Many == 2
Idle == 0
Exited == -1
Catalog(s) == scn.tables[s]

----------------------------------------------------------------------------
(* result.go, job.go: what reports leave behind.                           *)

NewResult == [mismatches |-> {}, findings |-> {}, tables |-> {}]

\* recordReport: everything but a summary is a mismatch of its table and a
\* finding; every report that has a location adds to the tables of the job.  A
\* summary with differing rows marks its table too, which their reports did.
RecordReports(r, kind, names) ==
    [mismatches |-> IF kind = "summary" THEN r.mismatches ELSE r.mismatches \cup names,
     findings   |-> IF kind = "summary" THEN r.findings
                    ELSE r.findings \cup {[kind |-> kind, table |-> n] : n \in names},
     tables     |-> r.tables \cup names]

\* complete decides by the run's error alone.
StatusByError(r, failed) == IF failed THEN "failed" ELSE "succeeded"

\* fail, or complete with mismatchFailure.
StatusAfter(r, failed) ==
    IF failed \/ r.mismatches # {} THEN "failed" ELSE "succeeded"

----------------------------------------------------------------------------
(* Connections, and the tables.                                            *)

Fault == faults < MaxFaults /\ faults' = faults + 1

Rest == <<scn, split, shards, fed, worker, status, logged, ran>>

\* Verify, or connecting, returns an error.
ReturnError == pc' = "close" /\ err' = TRUE

Connect ==
    /\ pc = "connect"
    /\ pc' = "list"
    /\ UNCHANGED <<listed, tbls, result, err, cut, faults, Rest>>

ConnectFails ==
    /\ pc = "connect"
    /\ Fault
    /\ ReturnError
    /\ UNCHANGED <<listed, tbls, result, cut, Rest>>

\* dbverify.Verify.
ListTables ==
    /\ pc = "list"
    /\ \E a \in SortedLists(DOMAIN Catalog("truth")),
          b \in SortedLists(DOMAIN Catalog("target")) : listed' = Compare(a, b)
    /\ pc' = "filter"
    /\ UNCHANGED <<tbls, result, err, cut, faults, Rest>>

ListFails ==
    /\ pc = "list"
    /\ Fault
    /\ ReturnError
    /\ UNCHANGED <<listed, tbls, result, cut, Rest>>

\* The list ends early: rows.Err() is wrapped around the nil error of the query,
\* so that no tables and no error are returned.
ListCut ==
    /\ pc = "list"
    /\ Fault
    /\ listed' = NoTables
    /\ cut' = cut \cup {"list"}
    /\ pc' = "filter"
    /\ UNCHANGED <<tbls, result, err, Rest>>

\* FilterResult, then the reports of tables one side lacks.
FilterTables ==
    /\ pc = "filter"
    /\ scn.filterCompiles
    /\ listed' = FilterResult(scn.filter, listed)
    /\ result' = RecordReports(
                    RecordReports(result, "missing_table", Elements(listed'.missing)),
                    "extraneous_table", Elements(listed'.extraneous))
    /\ pc' = "tables"
    /\ UNCHANGED <<tbls, err, cut, faults, Rest>>

\* A pattern that is no regular expression.
FilterFails ==
    /\ pc = "filter"
    /\ ~scn.filterCompiles
    /\ ReturnError
    /\ UNCHANGED <<listed, tbls, result, cut, faults, Rest>>

MoreTables == pc = "tables" /\ Len(tbls) < Len(listed.verified)
Pair == listed.verified[Len(tbls) + 1]
Definition(s) == Catalog(s)[Pair[s]]

\* VerifyCommonTables, the definitions of one table read as pks and cols.
CompareDefinitions(pks, cols) ==
    /\ tbls' = Append(tbls, [pair |-> Pair, res |-> VerifyTable(pks, cols)])
    /\ UNCHANGED <<pc, listed, result, err, Rest>>

Pks == [truth |-> Definition("truth").pk, target |-> Definition("target").pk]
Cols == [truth |-> Definition("truth").cols, target |-> Definition("target").cols]

VerifyNextTable ==
    /\ MoreTables
    /\ CompareDefinitions(Pks, Cols)
    /\ UNCHANGED <<cut, faults>>

\* Reads of the catalog end early without an error: of the primary keys and of
\* the columns, on one side or both, the first ones arrive, or none, as when the
\* collation of the database cannot be read.
Beginnings(list) == {SubSeq(list, 1, n) : n \in 0..Len(list)}
VerifyNextTableCut ==
    /\ MoreTables
    /\ Fault
    /\ \E p \in Beginnings(Pks.truth), q \in Beginnings(Pks.target),
          c \in Beginnings(Cols.truth), d \in Beginnings(Cols.target) :
         CompareDefinitions([truth |-> p, target |-> q], [truth |-> c, target |-> d])
    /\ cut' = cut \cup {"definition"}

VerifyTableFails ==
    /\ MoreTables
    /\ Fault
    /\ ReturnError
    /\ UNCHANGED <<listed, tbls, result, cut, Rest>>

\* The mismatching definitions of all tables are reported, under the name of the
\* target or, for a missing primary key, of the truth.
DefinitionNames(t) ==
    {IF d = "no primary key" THEN t.pair.truth ELSE t.pair.target : d \in t.res.definitions}

ReportDefinitions ==
    /\ pc = "tables"
    /\ Len(tbls) = Len(listed.verified)
    /\ result' = RecordReports(result, "mismatching_table_definition",
                               UNION {DefinitionNames(tbls[i]) : i \in DOMAIN tbls})
    /\ pc' = IF scn.rows THEN "shard" ELSE "close"
    /\ UNCHANGED <<listed, tbls, err, cut, faults, Rest>>

----------------------------------------------------------------------------
(* Shards, and the workers.                                                *)

Tables == <<scn, listed, tbls, cut>>

KeyKind(t) == KindOf(ColumnNamed(Catalog("truth")[t.pair.truth].cols, t.res.pk[1]).type)

ShardsOf(t, extremes) ==
    LET s == Shards(KeyKind(t), extremes, scn.splits)
    IN  [i \in DOMAIN s |-> [table |-> t.pair.truth,
                             start |-> s[i].start, end |-> s[i].end]]

\* ShardTable for the next table; rows that cannot be compared are skipped.
\* The smallest and the largest key are read by two queries.
ShardNextTable ==
    /\ pc = "shard"
    /\ split < Len(tbls)
    /\ LET t == tbls[split + 1]
       IN  IF t.res.verifiable
           THEN /\ scn.splits >= 1
                /\ shards' = shards \o ShardsOf(t, scn.extremes)
           ELSE UNCHANGED shards
    /\ split' = split + 1
    /\ UNCHANGED <<Tables, pc, fed, worker, result, err, status, logged, ran, faults>>

\* Fewer than one split is an error.
NoSplits ==
    /\ pc = "shard"
    /\ split < Len(tbls)
    /\ tbls[split + 1].res.verifiable
    /\ scn.splits < 1
    /\ ReturnError
    /\ UNCHANGED <<listed, tbls, result, cut, faults, Rest>>

ShardTableFails ==
    /\ pc = "shard"
    /\ split < Len(tbls)
    /\ tbls[split + 1].res.verifiable
    /\ Fault
    /\ ReturnError
    /\ UNCHANGED <<listed, tbls, result, cut, Rest>>

\* As many workers as concurrency asks for, in continuous mode too.
NumGoroutinesAsAsked == IF scn.concurrency = 0 THEN NumCPU ELSE scn.concurrency

\* Concurrency zero starts no worker.
NumGoroutinesNoDefault == IF scn.continuous THEN Len(shards) ELSE scn.concurrency

\* In continuous mode a worker never gets to a second shard.
NumGoroutines ==
    IF scn.continuous THEN Len(shards)
    ELSE IF scn.concurrency = 0 THEN NumCPU ELSE scn.concurrency

StartWorkers ==
    /\ pc = "shard"
    /\ split = Len(tbls)
    /\ worker' = [w \in 1..NumGoroutines |-> Idle]
    /\ ran' = [i \in DOMAIN shards |-> 0]
    /\ pc' = "feed"
    /\ UNCHANGED <<Tables, split, shards, fed, result, err, status, logged, faults>>

\* Shards are handed out past the last one.
FeedPastEnd(w) ==
    /\ pc = "feed"
    /\ fed <= Len(shards)
    /\ worker[w] = Idle
    /\ worker' = [worker EXCEPT ![w] = fed + 1]
    /\ fed' = fed + 1
    /\ UNCHANGED <<Tables, pc, split, shards, result, err, status, logged, ran, faults>>

\* A shard is handed to a worker that waits for one.
Feed(w) ==
    /\ pc = "feed"
    /\ fed < Len(shards)
    /\ worker[w] = Idle
    /\ worker' = [worker EXCEPT ![w] = fed + 1]
    /\ fed' = fed + 1
    /\ UNCHANGED <<Tables, pc, split, shards, result, err, status, logged, ran, faults>>

CloseQueue ==
    /\ pc = "feed"
    /\ fed = Len(shards)
    /\ pc' = "wait"
    /\ UNCHANGED <<Tables, split, shards, fed, worker, result, err, status, logged, ran, faults>>

Running(w) == worker[w] > 0
ShardOf(w) == shards[worker[w]]

\* Both sides are scanned under the name of the truth.
TargetFound(w) == ShardOf(w).table \in DOMAIN Catalog("target")

\* The rows of the shard differ.
ShardReports(w) ==
    /\ Running(w)
    /\ TargetFound(w)
    /\ result' = RecordReports(result, "row", {ShardOf(w).table})
    /\ UNCHANGED <<Tables, pc, split, shards, fed, worker, err, status, logged, ran, faults>>

\* The worker asks for its next shard; in continuous mode it starts again.
Release(w) == worker' = IF scn.continuous THEN worker ELSE [worker EXCEPT ![w] = Idle]

ShardEnds(w) ==
    /\ Running(w)
    /\ TargetFound(w)
    /\ result' = RecordReports(result, "summary", {ShardOf(w).table})
    /\ ran' = [ran EXCEPT ![worker[w]] = IF @ = Many THEN Many ELSE @ + 1]
    /\ Release(w)
    /\ UNCHANGED <<Tables, pc, split, shards, fed, err, status, logged, faults>>

\* verifyRowShard returns an error: logged, and a status report.
ShardErrs(w) ==
    /\ Running(w)
    /\ IF TargetFound(w) THEN Fault ELSE UNCHANGED faults
    /\ logged' = logged \cup {worker[w]}
    /\ Release(w)
    /\ UNCHANGED <<Tables, pc, split, shards, fed, result, err, status, ran>>

WorkerExits(w) ==
    /\ pc = "wait"
    /\ worker[w] = Idle
    /\ worker' = [worker EXCEPT ![w] = Exited]
    /\ UNCHANGED <<Tables, pc, split, shards, fed, result, err, status, logged, ran, faults>>

\* One worker is enough to go on.
WaitForOne ==
    /\ pc = "wait"
    /\ \E w \in DOMAIN worker : worker[w] = Exited
    /\ pc' = "close"
    /\ UNCHANGED <<Tables, split, shards, fed, worker, result, err, status, logged, ran, faults>>

\* g.Wait.
Wait ==
    /\ pc = "wait"
    /\ \A w \in DOMAIN worker : worker[w] = Exited
    /\ pc' = "close"
    /\ UNCHANGED <<Tables, split, shards, fed, worker, result, err, status, logged, ran, faults>>

\* Run closes its connections, whose errors it adds to its own, and returns.
Return(failed) ==
    /\ pc = "close"
    /\ pc' = "done"
    /\ err' = failed
    /\ status' = StatusAfter(result, failed)
    /\ UNCHANGED <<Tables, split, shards, fed, worker, result, logged, ran>>

CloseConns == Return(err) /\ UNCHANGED faults
CloseFails == Return(TRUE) /\ Fault

----------------------------------------------------------------------------
Init ==
    /\ scn \in Scenarios
    /\ pc = "connect"
    /\ listed = NoTables
    /\ tbls = << >>
    /\ split = 0
    /\ shards = << >>
    /\ fed = 0
    /\ worker = << >>
    /\ result = NewResult
    /\ err = FALSE
    /\ status = "running"
    /\ cut = {}
    /\ logged = {}
    /\ ran = << >>
    /\ faults = 0

Prepare == Connect \/ ListTables \/ FilterTables \/ FilterFails \/ VerifyNextTable
            \/ ReportDefinitions \/ ShardNextTable \/ NoSplits \/ StartWorkers
            \/ CloseQueue \/ Wait \/ CloseConns

Fail == ConnectFails \/ ListFails \/ ListCut \/ VerifyNextTableCut \/ VerifyTableFails
            \/ ShardTableFails \/ CloseFails

Next ==
    \/ Prepare
    \/ Fail
    \/ \E w \in DOMAIN worker : Feed(w)
    \/ \E w \in DOMAIN worker : ShardReports(w)
    \/ \E w \in DOMAIN worker : ShardEnds(w)
    \/ \E w \in DOMAIN worker : ShardErrs(w)
    \/ \E w \in DOMAIN worker : WorkerExits(w)

Spec == Init /\ [][Next]_vars

\* Every shard ends, one way or the other (RowVerify's ShardReturns).
Fairness ==
    /\ WF_vars(Prepare)
    /\ WF_vars(\E w \in DOMAIN worker : Feed(w))
    /\ WF_vars(\E w \in DOMAIN worker : ShardEnds(w) \/ ShardErrs(w))
    /\ WF_vars(\E w \in DOMAIN worker : WorkerExits(w))

FairSpec == Spec /\ Fairness

----------------------------------------------------------------------------
(* Properties.                                                             *)

DefinitionInfos == {"extraneous column", "missing column", "no primary key", "not null",
                    "type", "collation", "primary key"}
TableResult == [definitions : SUBSET DefinitionInfos, verifiable : BOOLEAN,
                pk : Seq(STRING), columns : Seq(STRING)]
FindingKinds == {"missing_table", "extraneous_table", "mismatching_table_definition", "row"}
Shard == [table : Name, start : Int \cup {Unbounded}, end : Int \cup {Unbounded}]

\* The shape of the state.
TypeOK ==
    /\ pc \in {"connect", "list", "filter", "tables", "shard", "feed", "wait", "close", "done"}
    /\ listed \in [verified : Seq(NamePair), missing : Seq(Name), extraneous : Seq(Name)]
    /\ tbls \in Seq([pair : NamePair, res : TableResult]) /\ Len(tbls) <= Len(listed.verified)
    /\ split \in 0..Len(tbls)
    /\ shards \in Seq(Shard)
    /\ fed \in 0..Len(shards)
    /\ worker \in Seq(Exited..Len(shards))
    /\ result \in [mismatches : SUBSET Name, tables : SUBSET Name,
                   findings : SUBSET [kind : FindingKinds, table : Name]]
    /\ err \in BOOLEAN
    /\ status \in {"running", "succeeded", "failed"}
    /\ cut \subseteq {"list", "definition"}
    /\ logged \subseteq 1..fed
    /\ ran \in Seq(0..Many)
    /\ faults \in 0..MaxFaults

InFilter(n) == MatchesFilters(scn.filter, n)
SameName(a, b) == CompareNames(a, b) = 0
Twins(n, s) == {m \in DOMAIN Catalog(s) : SameName(n, m)}

\* No two tables of one side have names that differ in their letters only.
NoClash == \A s \in {"truth", "target"} : \A n \in DOMAIN Catalog(s) : Twins(n, s) = {n}

\* The merge of the two lists and the filter account for every table: a table
\* is compared, or reported as missing or extraneous, exactly as the catalogs
\* and the filter say.
TablesAccounted ==
    (pc \notin {"connect", "list", "filter"} /\ ~err /\ "list" \notin cut /\ NoClash) =>
        /\ Elements(listed.verified) =
              {p \in [truth : DOMAIN Catalog("truth"), target : DOMAIN Catalog("target")] :
                  SameName(p.truth, p.target) /\ InFilter(p.truth)}
        /\ {f.table : f \in {f \in result.findings : f.kind = "missing_table"}} =
              {n \in DOMAIN Catalog("truth") : InFilter(n) /\ Twins(n, "target") = {}}
        /\ {f.table : f \in {f \in result.findings : f.kind = "extraneous_table"}} =
              {n \in DOMAIN Catalog("target") : InFilter(n) /\ Twins(n, "truth") = {}}

\* Whatever the extremes were, the shards of a table hold every key of the
\* width, and each only once as long as the splits do not wrap.
KeySpace == MinInt..(MaxInt - MinInt)
ShardsPartition ==
    \A i \in 1..split :
        LET t == tbls[i]
            mine == {j \in DOMAIN shards : shards[j].table = t.pair.truth}
        IN  t.res.verifiable =>
              /\ \A key \in KeySpace : \E j \in mine : Holds(shards[j], key)
              /\ NoWrap(KeyKind(t), scn.extremes, scn.splits) =>
                    \A key \in KeySpace :
                        Cardinality({j \in mine : Holds(shards[j], key)}) = 1

\* What must agree before rows can be compared in the order of the truth's key.
SameDefinition(a, b) ==
    LET names == ColumnNames(a.cols)
    IN  /\ ColumnNames(b.cols) = names
        /\ a.pk = b.pk /\ a.pk # << >>
        /\ \A n \in names :
              LET x == ColumnNamed(a.cols, n)
                  y == ColumnNamed(b.cols, n)
              IN  /\ ComparableType(x.type, y.type)
                  /\ x.notNull = y.notNull
                  /\ (/\ n \in {a.pk[i] : i \in DOMAIN a.pk}
                      /\ {Family(x.type), Family(y.type)} = {"string"}) =>
                        ComparableCollation(x.collation, y.collation)

\* Every table in the filter is on both sides with the same definition and, if
\* rows were asked for, every key of it was in a shard that was verified.
Compared ==
    /\ \A s \in {"truth", "target"} : \A n \in DOMAIN Catalog(s) :
          InFilter(n) => Twins(n, IF s = "truth" THEN "target" ELSE "truth") # {}
    /\ \A n \in DOMAIN Catalog("truth") : InFilter(n) =>
          /\ \A m \in Twins(n, "target") :
                SameDefinition(Catalog("truth")[n], Catalog("target")[m])
          /\ scn.rows => \A key \in KeySpace : \E j \in DOMAIN shards :
                shards[j].table = n /\ Holds(shards[j], key) /\ ran[j] > 0

\* A database that ends as succeeded was compared, unless the list of tables or
\* a definition was cut short or the error of a shard was logged.
CleanMeansCompared ==
    (status = "succeeded" /\ cut = {} /\ logged = {} /\ NoClash) => Compared

\* What the operator guide says of the status: verification completed.  The
\* error of a shard is only logged by Verify, so a database none of whose rows
\* could be read still ends as succeeded.
SucceededMeansCompared ==
    (status = "succeeded" /\ cut = {} /\ NoClash) => Compared

\* Tables outside the filter are neither scanned nor reported; the definition
\* of a pair is reported under the target's spelling of its name.
NothingOutsideFilter ==
    /\ \A j \in DOMAIN shards : InFilter(shards[j].table)
    /\ \A n \in result.tables :
          InFilter(n) \/ \E m \in Twins(n, "truth") : InFilter(m)

\* When Verify returned nobody reports any more, and outside continuous mode
\* every shard was taken by exactly one worker, once.
NobodyLeftBehind ==
    pc \in {"close", "done"} =>
        /\ \A w \in DOMAIN worker : ~Running(w)
        /\ (~err /\ scn.rows) =>
              \A j \in DOMAIN shards : ran[j] = IF j \in logged THEN 0 ELSE 1

\* A difference that was reported is never lost: it stays in the result and the
\* database does not succeed, even when the shard that reported it failed
\* afterwards.
DifferencesFail ==
    [][/\ result.findings \subseteq result'.findings
       /\ result.mismatches \subseteq result'.mismatches
       /\ result.mismatches # {} => status' # "succeeded"]_vars

\* Outside continuous mode the run returns, whatever fails: no worker waits for
\* a shard that never comes and no shard waits for a worker.
RunReturns == ~scn.continuous ~> pc = "done"

\* In continuous mode every shard gets a worker of its own: none starves behind
\* a shard that is verified over and over.
EveryShardStarts ==
    (pc = "feed" /\ scn.continuous) ~>
        (\A j \in DOMAIN shards : \E w \in DOMAIN worker : worker[w] = j)

============================================================================
