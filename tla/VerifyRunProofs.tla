-------------------------- MODULE VerifyRunProofs --------------------------
(***************************************************************************)
(* The invariants of VerifyRun, for all catalogs, filters and options.     *)
(*                                                                         *)
(* The inductive invariant follows the run: which variables a phase has    *)
(* not touched yet, what the list of tables holds, what was read of each   *)
(* table, where the shards of a table are, who has which shard, and what   *)
(* was reported.  What the merge, the filter and the splits compute comes  *)
(* from TableVerifyProofs.                                                 *)
(***************************************************************************)
EXTENDS VerifyRun, TableVerifyProofs

RealPks(p) == [truth |-> Catalog("truth")[p.truth].pk, target |-> Catalog("target")[p.target].pk]
RealCols(p) == [truth |-> Catalog("truth")[p.truth].cols, target |-> Catalog("target")[p.target].cols]

\* Verify came to the end of the definitions without an error.
Reported == pc \in {"shard", "feed", "wait"} \/ (pc \in {"close", "done"} /\ ~err)

\* What the phases before have not touched, and what they have finished.
PhaseInv ==
    /\ pc \notin {"close", "done"} => ~err
    /\ pc \in {"connect", "list", "filter"} => tbls = << >> /\ result = NewResult
    /\ pc \in {"connect", "list", "filter", "tables"} => split = 0 /\ shards = << >>
    /\ pc \in {"connect", "list", "filter", "tables", "shard"} =>
          worker = << >> /\ fed = 0 /\ logged = {} /\ ran = << >>
    /\ Reported => Len(tbls) = Len(listed.verified)
    /\ pc \in {"shard", "feed", "wait"} => scn.rows
    /\ (pc \in {"feed", "wait"} \/ (pc \in {"close", "done"} /\ ~err /\ scn.rows)) =>
          split = Len(tbls) /\ Len(ran) = Len(shards)
    /\ (pc = "wait" \/ (pc \in {"close", "done"} /\ ~err /\ scn.rows)) => fed = Len(shards)
    /\ pc \in {"close", "done"} => \A w \in DOMAIN worker : worker[w] = Exited
    /\ status # "running" => pc = "done"
    /\ status = "succeeded" => ~err /\ result.mismatches = {}

\* Who has which shard, and what became of the shards that were handed out.
WorkInv ==
    /\ worker # << >> => Len(ran) = Len(shards)
    /\ worker = << >> => fed = 0
    /\ \A w \in DOMAIN worker : worker[w] <= fed
    /\ \A v, w \in DOMAIN worker : worker[v] = worker[w] /\ worker[v] > 0 => v = w
    /\ \A j \in 1..fed : (\A w \in DOMAIN worker : worker[w] # j) =>
          ~scn.continuous /\ ran[j] = IF j \in logged THEN 0 ELSE 1
    /\ \A w \in DOMAIN worker : ~scn.continuous /\ worker[w] > 0 =>
          ran[worker[w]] = 0 /\ worker[w] \notin logged
    /\ \A j \in DOMAIN ran : j > fed => ran[j] = 0

\* The pairs of tables with one name, and the tables one side lacks.
OnBoth ==
    {p \in [truth : DOMAIN Catalog("truth"), target : DOMAIN Catalog("target")] :
        SameName(p.truth, p.target)}
OnlyTruth == {n \in DOMAIN Catalog("truth") : Twins(n, "target") = {}}
OnlyTarget == {n \in DOMAIN Catalog("target") : Twins(n, "truth") = {}}

\* The list of tables, before and after the filter.
ListInv ==
    /\ \A i \in 1..Len(listed.verified) :
          LET v == listed.verified[i]
          IN  /\ v.truth \in DOMAIN Catalog("truth") /\ v.target \in DOMAIN Catalog("target")
              /\ CompareNames(v.truth, v.target) = 0
    /\ \A x, y \in 1..Len(listed.verified) :
          listed.verified[x].truth = listed.verified[y].truth => x = y
    /\ (pc = "filter" /\ "list" \notin cut /\ NoClash) =>
          /\ Elements(listed.verified) = OnBoth
          /\ Elements(listed.missing) = OnlyTruth
          /\ Elements(listed.extraneous) = OnlyTarget
    /\ pc = "tables" => \A i \in 1..Len(listed.verified) : InFilter(listed.verified[i].truth)

\* What was read of the tables both sides have.
TablesInv ==
    \A i \in 1..Len(tbls) :
        LET t == tbls[i]
            pk == Catalog("truth")[t.pair.truth].pk
        IN  /\ t.pair = listed.verified[i]
            /\ InFilter(t.pair.truth)
            /\ t.res.verifiable => t.res.pk # << >> /\ pk # << >> /\ t.res.pk[1] = pk[1]
            /\ "definition" \notin cut => t.res = VerifyTable(RealPks(t.pair), RealCols(t.pair))

\* The shards of table i are the ones after the first o shards.
ShardsAt(i, o) ==
    LET S == ShardsOf(tbls[i], scn.extremes)
    IN  /\ o + Len(S) <= Len(shards)
        /\ \A k \in 1..Len(S) : shards[o + k] = S[k]
        /\ \A j \in 1..Len(shards) : shards[j].table = tbls[i].pair.truth =>
              \E k \in 1..Len(S) : j = o + k

ShardInv ==
    /\ \A i \in 1..split : tbls[i].res.verifiable =>
          scn.splits >= 1 /\ \E o \in 0..Len(shards) : ShardsAt(i, o)
    /\ \A j \in 1..Len(shards) : \E i \in 1..split : shards[j].table = tbls[i].pair.truth

\* A table in the filter, or spelled like one.
Asked(n) == InFilter(n) \/ \E m \in Twins(n, "truth") : InFilter(m)

\* What was reported, and under which names.
ReportInv ==
    /\ {f.table : f \in result.findings} \subseteq result.mismatches
    /\ Reported => \A i \in 1..Len(tbls) : DefinitionNames(tbls[i]) \subseteq result.mismatches
    /\ \A n \in result.tables : Asked(n)

\* The findings of a kind, by table.
Found(findings, kind) == {f.table : f \in {f \in findings : f.kind = kind}}

\* TablesAccounted, in the words of this module.
Accounted ==
    (pc \notin {"connect", "list", "filter"} /\ ~err /\ "list" \notin cut /\ NoClash) =>
        /\ Elements(listed.verified) = {p \in OnBoth : InFilter(p.truth)}
        /\ Found(result.findings, "missing_table") = {n \in OnlyTruth : InFilter(n)}
        /\ Found(result.findings, "extraneous_table") = {n \in OnlyTarget : InFilter(n)}

IInv ==
    /\ scn \in Scenarios
    /\ TypeOK
    /\ PhaseInv
    /\ WorkInv
    /\ ListInv
    /\ TablesInv
    /\ ShardInv
    /\ ReportInv
    /\ Accounted

----------------------------------------------------------------------------
(* What the operators of the model return.                                 *)

ListOfTables == [verified : Seq(NamePair), missing : Seq(Name), extraneous : Seq(Name)]

\* FilterResult keeps the tables whose names match, in their order.
LEMMA FilteredList ==
    ASSUME NEW f, NEW r \in ListOfTables
    PROVE  LET k == FilterResult(f, r)
           IN  /\ k \in ListOfTables
               /\ Sublist(k.verified, r.verified)
               /\ Elements(k.verified) = {p \in Elements(r.verified) : MatchesFilters(f, p.truth)}
               /\ Elements(k.missing) = {n \in Elements(r.missing) : MatchesFilters(f, n)}
               /\ Elements(k.extraneous) = {n \in Elements(r.extraneous) : MatchesFilters(f, n)}
<1> DEFINE V == {p \in Elements(r.verified) : MatchesFilters(f, p.truth)}
           M == {n \in Elements(r.missing) : MatchesFilters(f, n)}
           X == {n \in Elements(r.extraneous) : MatchesFilters(f, n)}
<1>1. FilterResult(f, r) = [verified |-> Kept(r.verified, V), missing |-> Kept(r.missing, M),
                            extraneous |-> Kept(r.extraneous, X)]
  BY DEF FilterResult
<1>2. r.verified \in Seq(NamePair) /\ r.missing \in Seq(Name) /\ r.extraneous \in Seq(Name)
  BY DEF ListOfTables
<1>3. V \subseteq Elements(r.verified) /\ M \subseteq Elements(r.missing)
        /\ X \subseteq Elements(r.extraneous)
  OBVIOUS
<1>4. V = {p \in Elements(r.verified) : MatchesFilters(f, p.truth)}
        /\ M = {n \in Elements(r.missing) : MatchesFilters(f, n)}
        /\ X = {n \in Elements(r.extraneous) : MatchesFilters(f, n)}
  OBVIOUS
<1> HIDE DEF V, M, X
<1>5. ASSUME NEW T, NEW l \in Seq(T), NEW S \in SUBSET Elements(l)
      PROVE  Kept(l, S) \in Seq(T) /\ Sublist(Kept(l, S), l) /\ Elements(Kept(l, S)) = S
  <2>1. /\ Kept(l, S) \in Seq(T) /\ Sublist(Kept(l, S), l)
        /\ Elements(Kept(l, S)) = Elements(l) \cap S
    BY KeptList
  <2> QED
    BY <2>1
<1>6. /\ Kept(r.verified, V) \in Seq(NamePair) /\ Sublist(Kept(r.verified, V), r.verified)
      /\ Elements(Kept(r.verified, V)) = V
  BY <1>2, <1>3, <1>5
<1>7. Kept(r.missing, M) \in Seq(Name) /\ Elements(Kept(r.missing, M)) = M
  BY <1>2, <1>3, <1>5
<1>8. Kept(r.extraneous, X) \in Seq(Name) /\ Elements(Kept(r.extraneous, X)) = X
  BY <1>2, <1>3, <1>5
<1> QED
  BY <1>1, <1>4, <1>6, <1>7, <1>8 DEF ListOfTables

Sides(S) == [truth : S, target : S]

\* What VerifyTable returns, and when rows can be compared.
LEMMA TableResults ==
    ASSUME NEW pk \in Sides(Seq(STRING)), NEW cols \in Sides(Seq(Column))
    PROVE  LET r == VerifyTable(pk, cols)
           IN  /\ r \in TableResult
               /\ r.pk = pk.truth
               /\ r.verifiable => pk.truth # << >>
<1> DEFINE r == VerifyTable(pk, cols)
<1>1. pk.truth \in Seq(STRING) /\ cols.truth \in Seq(Column)
  BY DEF Sides
<1>2. r.pk = pk.truth
  BY DEF VerifyTable
<1>3. r.verifiable \in BOOLEAN /\ (r.verifiable => pk.truth # << >>)
  BY DEF VerifyTable
<1>4. r.definitions \subseteq DefinitionInfos
  <2>1. \A d \in r.definitions : d \in UnmatchedColumns(cols.truth, cols.target)
                                    \/ d = "no primary key" \/ d = "not null" \/ d = "type"
                                    \/ d = "collation" \/ d = "primary key"
    BY DEF VerifyTable, Note
  <2>2. \A d \in UnmatchedColumns(cols.truth, cols.target) :
            d = "extraneous column" \/ d = "missing column"
    BY DEF UnmatchedColumns, Note
  <2> HIDE DEF r
  <2> QED
    BY <2>1, <2>2 DEF DefinitionInfos
<1>5. \A S : Kept(pk.truth, S) \in Seq(STRING)
  BY <1>1, KeptList
<1> DEFINE names == [i \in DOMAIN cols.truth |-> cols.truth[i].name]
<1>6. names \in Seq(STRING)
  <2>1. \A i \in DOMAIN cols.truth : cols.truth[i].name \in STRING
    <3> TAKE i \in DOMAIN cols.truth
    <3>1. cols.truth[i] \in Column
      BY <1>1
    <3> QED
      BY <3>1 DEF Column
  <2>2. names \in [1..Len(cols.truth) -> STRING]
    BY <1>1, <2>1
  <2>3. Len(cols.truth) \in Nat
    BY <1>1
  <2> HIDE DEF names
  <2> QED
    BY <2>2, <2>3
<1>7. \A S : Kept(names, S) \in Seq(STRING)
  <2> HIDE DEF names
  <2> QED
    BY <1>6, KeptList
<1>8. r.columns \in Seq(STRING)
  <2>1. \E S, T : r.columns = Kept(pk.truth, S) \o Kept(names, T)
    BY DEF VerifyTable
  <2> HIDE DEF names
  <2> QED
    BY <2>1, <1>5, <1>7
<1>9. r = [definitions |-> r.definitions, verifiable |-> r.verifiable, pk |-> r.pk,
           columns |-> r.columns]
  BY DEF VerifyTable
<1> HIDE DEF r
<1>10. r \in TableResult
  BY <1>1, <1>2, <1>3, <1>4, <1>8, <1>9 DEF TableResult
<1> QED
  BY <1>2, <1>3, <1>10 DEF r

\* A table without a mismatching definition has the same definition on both
\* sides, and its rows are compared.
LEMMA SameDefinitions ==
    ASSUME NEW a \in TableDefinition, NEW b \in TableDefinition, NEW pk, NEW cols,
           pk.truth = a.pk, pk.target = b.pk, cols.truth = a.cols, cols.target = b.cols,
           VerifyTable(pk, cols).definitions = {}
    PROVE  SameDefinition(a, b) /\ VerifyTable(pk, cols).verifiable
<1> DEFINE r == VerifyTable(pk, cols)
           col(s, n) == ColumnNamed(cols[s], n)
           common == ColumnNames(cols.truth) \cap ColumnNames(cols.target)
           nulls == {n \in common : col("truth", n).notNull # col("target", n).notNull}
           types == {n \in common : ~ComparableType(col("truth", n).type, col("target", n).type)}
           comparable == common \ types
           agrees(i) == pk.target[i] = pk.truth[i] /\ pk.target[i] \in comparable
           sameLength == Len(pk.truth) = Len(pk.target)
           reached == IF sameLength THEN {i \in DOMAIN pk.truth : \A j \in 1..i : agrees(j)}
                      ELSE {}
           pkSame == sameLength /\ reached = DOMAIN pk.truth
           collations == {i \in reached :
                            LET x == col("truth", pk.truth[i])
                                y == col("target", pk.truth[i])
                            IN  /\ Family(x.type) = "string" /\ Family(y.type) = "string"
                                /\ ~ComparableCollation(x.collation, y.collation)}
<1>1. r.definitions = UnmatchedColumns(cols.truth, cols.target)
                            \cup Note("no primary key", pk.truth = << >>)
                            \cup Note("not null", nulls # {})
                            \cup Note("type", types # {})
                            \cup Note("collation", collations # {})
                            \cup Note("primary key", ~pkSame /\ pk.truth # << >>)
  BY DEF VerifyTable
<1>2. r.verifiable = (pkSame /\ pk.truth # << >> /\ collations = {})
  BY DEF VerifyTable
<1>3. r.definitions = {}
  OBVIOUS
<1>4. a.pk \in Seq(STRING) /\ b.pk \in Seq(STRING)
  BY DEF TableDefinition
<1> HIDE DEF r
<1>5. UnmatchedColumns(cols.truth, cols.target) = {}
  BY <1>1, <1>3
<1>6. pk.truth # << >> /\ nulls = {} /\ types = {} /\ collations = {} /\ pkSame
  <2> HIDE DEF nulls, types, collations, pkSame
  <2> QED
    BY <1>1, <1>3 DEF Note
<1>7. ColumnNames(a.cols) = ColumnNames(b.cols)
  <2>1. /\ ColumnNames(cols.target) \subseteq ColumnNames(cols.truth)
        /\ ColumnNames(cols.truth) \subseteq ColumnNames(cols.target)
    BY ONLY <1>5 DEF UnmatchedColumns, Note
  <2> QED
    BY <2>1
<1>8. a.pk = b.pk
  <2>1. Len(a.pk) = Len(b.pk) /\ \A i \in DOMAIN a.pk : \A j \in 1..i : b.pk[j] = a.pk[j]
    BY <1>6
  <2>2. \A i \in 1..Len(a.pk) : b.pk[i] = a.pk[i]
    BY <1>4, <2>1
  <2> QED
    BY <1>4, <2>1, <2>2
<1>9. ASSUME NEW n \in ColumnNames(a.cols)
      PROVE  LET x == ColumnNamed(a.cols, n)
                 y == ColumnNamed(b.cols, n)
             IN  /\ ComparableType(x.type, y.type)
                 /\ x.notNull = y.notNull
                 /\ (/\ n \in {a.pk[i] : i \in DOMAIN a.pk}
                     /\ {Family(x.type), Family(y.type)} = {"string"}) =>
                       ComparableCollation(x.collation, y.collation)
  <2> DEFINE x == ColumnNamed(a.cols, n)
             y == ColumnNamed(b.cols, n)
  <2>1. n \in common /\ col("truth", n) = x /\ col("target", n) = y
    BY <1>7
  <2>2. ComparableType(x.type, y.type)
    BY <1>6, <2>1
  <2>3. x.notNull = y.notNull
    BY <1>6, <2>1
  <2>4. ASSUME n \in {a.pk[i] : i \in DOMAIN a.pk}, {Family(x.type), Family(y.type)} = {"string"}
        PROVE  ComparableCollation(x.collation, y.collation)
    <3>1. PICK i \in DOMAIN a.pk : n = a.pk[i]
      BY <2>4
    <3>2. reached = DOMAIN pk.truth /\ collations = {}
      BY <1>6
    <3>3. Family(x.type) = "string" /\ Family(y.type) = "string"
      BY <2>4
    <3>4. i \in reached /\ pk.truth[i] = n
      BY <3>1, <3>2
    <3>5. ~(/\ Family(col("truth", n).type) = "string" /\ Family(col("target", n).type) = "string"
            /\ ~ComparableCollation(col("truth", n).collation, col("target", n).collation))
      <4> HIDE DEF reached, col
      <4> QED
        BY <3>2, <3>4
    <3> QED
      BY <2>1, <3>3, <3>5
  <2> QED
    BY <2>2, <2>3, <2>4
<1>10. SameDefinition(a, b)
  BY <1>6, <1>7, <1>8, <1>9 DEF SameDefinition
<1> QED
  BY <1>2, <1>6, <1>10 DEF r

ResultType == [mismatches : SUBSET Name, tables : SUBSET Name,
               findings : SUBSET [kind : FindingKinds, table : Name]]

\* What recordReport adds to the result.
LEMMA Records ==
    ASSUME NEW r \in ResultType, NEW kind \in FindingKinds \cup {"summary"},
           NEW names \in SUBSET Name
    PROVE  LET q == RecordReports(r, kind, names)
           IN  /\ q \in ResultType
               /\ q.tables = r.tables \cup names
               /\ kind = "summary" => q.mismatches = r.mismatches /\ q.findings = r.findings
               /\ kind # "summary" =>
                    /\ q.mismatches = r.mismatches \cup names
                    /\ q.findings = r.findings \cup {[kind |-> kind, table |-> n] : n \in names}
<1> DEFINE q == RecordReports(r, kind, names)
           new == {[kind |-> kind, table |-> n] : n \in names}
<1>1. /\ q = [mismatches |-> q.mismatches, findings |-> q.findings, tables |-> q.tables]
      /\ q.tables = r.tables \cup names
      /\ kind = "summary" => q.mismatches = r.mismatches /\ q.findings = r.findings
      /\ kind # "summary" => q.mismatches = r.mismatches \cup names /\ q.findings = r.findings \cup new
  BY DEF RecordReports
<1>2. /\ r.mismatches \subseteq Name /\ r.tables \subseteq Name
      /\ r.findings \subseteq [kind : FindingKinds, table : Name]
  BY DEF ResultType
<1>3. kind # "summary" => new \subseteq [kind : FindingKinds, table : Name]
  <2> SUFFICES ASSUME kind # "summary", NEW n \in names
               PROVE  [kind |-> kind, table |-> n] \in [kind : FindingKinds, table : Name]
    OBVIOUS
  <2>1. kind \in FindingKinds /\ n \in Name
    OBVIOUS
  <2> QED
    BY <2>1
<1> HIDE DEF q, new
<1>4. q.mismatches \subseteq Name /\ q.tables \subseteq Name
        /\ q.findings \subseteq [kind : FindingKinds, table : Name]
  BY <1>1, <1>2, <1>3
<1>5. q \in ResultType
  BY <1>1, <1>4 DEF ResultType
<1> QED
  BY <1>1, <1>5 DEF q, new

\* The scenario, as the assumption describes it.
LEMMA ScenarioFacts ==
    ASSUME scn \in Scenarios
    PROVE  /\ \A s \in {"truth", "target"} :
                /\ IsFiniteSet(DOMAIN Catalog(s)) /\ DOMAIN Catalog(s) \in SUBSET Name
                /\ \A n \in DOMAIN Catalog(s) : Catalog(s)[n] \in TableDefinition
           /\ \A n \in DOMAIN Catalog("truth") :
                LET d == Catalog("truth")[n]
                IN  d.pk # << >> =>
                      scn.extremes \in Extremes(KindOf(ColumnNamed(d.cols, d.pk[1]).type))
           /\ scn.rows \in BOOLEAN /\ scn.continuous \in BOOLEAN
           /\ scn.splits \in Int /\ scn.concurrency \in Nat
BY ScenarioAssumption DEF Catalog

\* A table whose shards are made: its key, and its shards.
Sharded(t) ==
    /\ t.pair.truth \in DOMAIN Catalog("truth") /\ t.res.pk # << >>
    /\ LET pk == Catalog("truth")[t.pair.truth].pk IN pk # << >> /\ t.res.pk[1] = pk[1]
    /\ scn.splits >= 1

\* The shards of a verifiable table are its ranges, each labelled with the table.
LEMMA ShardsOfTable ==
    ASSUME scn \in Scenarios, NEW t, Sharded(t)
    PROVE  LET S == Shards(KeyKind(t), scn.extremes, scn.splits)
               R == ShardsOf(t, scn.extremes)
           IN  /\ KeyKind(t) \in Kinds /\ scn.extremes \in Extremes(KeyKind(t))
               /\ scn.splits \in Nat \ {0}
               /\ R \in Seq(Shard) /\ Len(R) = Len(S) /\ Len(R) \in Nat \ {0}
               /\ \A k \in 1..Len(R) : /\ R[k].table = t.pair.truth
                                       /\ \A key : Holds(R[k], key) <=> Holds(S[k], key)
<1> DEFINE S == Shards(KeyKind(t), scn.extremes, scn.splits)
           R == ShardsOf(t, scn.extremes)
<1>1. KeyKind(t) \in Kinds
  BY DEF KeyKind, KindOf, Kinds
<1>2. scn.extremes \in Extremes(KeyKind(t))
  BY ScenarioFacts DEF Sharded, KeyKind
<1>3. scn.splits \in Nat \ {0}
  BY ScenarioFacts DEF Sharded
<1>4. S \in Seq(ShardRange) /\ Len(S) > 0
  BY <1>1, <1>2, <1>3, ShardsType
<1>5. R = [i \in DOMAIN S |-> [table |-> t.pair.truth, start |-> S[i].start, end |-> S[i].end]]
  BY DEF ShardsOf
<1>6. t.pair.truth \in Name
  BY ScenarioFacts DEF Sharded
<1> HIDE DEF S, R
<1>7. DOMAIN S = 1..Len(S) /\ Len(S) \in Nat
  BY <1>4
<1>8. \A i \in 1..Len(S) : [table |-> t.pair.truth, start |-> S[i].start, end |-> S[i].end] \in Shard
  <2> TAKE i \in 1..Len(S)
  <2>1. S[i] \in ShardRange
    BY <1>4, <1>7
  <2> QED
    BY <1>6, <2>1 DEF ShardRange, Shard
<1>9. R \in [1..Len(S) -> Shard]
  BY <1>5, <1>7, <1>8
<1>10. R \in Seq(Shard) /\ Len(R) = Len(S)
  BY <1>7, <1>9
<1>11. \A k \in 1..Len(R) : /\ R[k].table = t.pair.truth
                            /\ R[k].start = S[k].start /\ R[k].end = S[k].end
  BY <1>5, <1>7, <1>10
<1>12. \A k \in 1..Len(R) : \A key : Holds(R[k], key) <=> Holds(S[k], key)
  <2> TAKE k \in 1..Len(R)
  <2> TAKE key
  <2>1. R[k].start = S[k].start /\ R[k].end = S[k].end
    BY <1>11
  <2> QED
    BY ONLY <2>1 DEF Holds
<1>13. Len(R) \in Nat \ {0}
  BY <1>4, <1>7, <1>10
<1>14. \A k \in 1..Len(R) : /\ R[k].table = t.pair.truth
                            /\ \A key : Holds(R[k], key) <=> Holds(S[k], key)
  BY <1>11, <1>12
<1> QED
  BY <1>1, <1>2, <1>3, <1>10, <1>13, <1>14, Zenon DEF S, R

\* The next pair of tables whose definitions are read.
LEMMA PairFacts ==
    ASSUME scn \in Scenarios, TypeOK, ListInv, MoreTables
    PROVE  /\ Len(tbls) + 1 \in 1..Len(listed.verified) /\ Pair = listed.verified[Len(tbls) + 1]
           /\ Pair \in NamePair /\ InFilter(Pair.truth)
           /\ Pair.truth \in DOMAIN Catalog("truth") /\ Pair.target \in DOMAIN Catalog("target")
           /\ Pks = RealPks(Pair) /\ Cols = RealCols(Pair)
           /\ Pks \in Sides(Seq(STRING)) /\ Cols \in Sides(Seq(Column))
<1>1. Len(tbls) + 1 \in 1..Len(listed.verified) /\ listed.verified \in Seq(NamePair)
  BY DEF TypeOK, MoreTables
<1>2. Pair = listed.verified[Len(tbls) + 1]
  BY DEF Pair
<1>3. Pair \in NamePair
  BY <1>1, <1>2
<1>4. /\ InFilter(Pair.truth)
      /\ Pair.truth \in DOMAIN Catalog("truth") /\ Pair.target \in DOMAIN Catalog("target")
  BY <1>1, <1>2 DEF ListInv, MoreTables
<1>5. /\ Definition("truth") \in TableDefinition /\ Definition("target") \in TableDefinition
      /\ Definition("truth") = Catalog("truth")[Pair.truth]
      /\ Definition("target") = Catalog("target")[Pair.target]
  BY <1>4, ScenarioFacts DEF Definition
<1>6. Pks = RealPks(Pair) /\ Cols = RealCols(Pair)
  BY <1>5 DEF Pks, Cols, RealPks, RealCols
<1>7. Pks \in Sides(Seq(STRING)) /\ Cols \in Sides(Seq(Column))
  BY <1>5 DEF Pks, Cols, Sides, TableDefinition
<1> QED
  BY <1>1, <1>2, <1>3, <1>4, <1>6, <1>7

TableRead == [pair : NamePair, res : TableResult]

\* Both ways of reading a table add its result; a primary key of which less was
\* read still begins with the same column.
LEMMA TableStep ==
    ASSUME scn \in Scenarios, TypeOK, ListInv, VerifyNextTable \/ VerifyNextTableCut
    PROVE  /\ MoreTables
           /\ UNCHANGED <<pc, listed, result, err, scn, split, shards, fed, worker, status,
                          logged, ran>>
           /\ \E t \in TableRead :
                /\ tbls' = Append(tbls, t)
                /\ t.pair = Pair
                /\ t.res.verifiable =>
                     t.res.pk # << >> /\ Pks.truth # << >> /\ t.res.pk[1] = Pks.truth[1]
                /\ "definition" \notin cut' => t.res = VerifyTable(Pks, Cols)
<1>1. MoreTables
  BY DEF VerifyNextTable, VerifyNextTableCut
<1>2. /\ Pks \in Sides(Seq(STRING)) /\ Cols \in Sides(Seq(Column)) /\ Pair \in NamePair
  BY <1>1, PairFacts
<1>3. UNCHANGED <<pc, listed, result, err, scn, split, shards, fed, worker, status, logged, ran>>
  BY DEF VerifyNextTable, VerifyNextTableCut, CompareDefinitions, Rest
<1> DEFINE Good(t) == /\ t \in TableRead
                      /\ tbls' = Append(tbls, t)
                      /\ t.pair = Pair
                      /\ t.res.verifiable =>
                           t.res.pk # << >> /\ Pks.truth # << >> /\ t.res.pk[1] = Pks.truth[1]
<1>4. ASSUME NEW pks \in Sides(Seq(STRING)), NEW cols \in Sides(Seq(Column)),
             pks.truth # << >> => Pks.truth # << >> /\ pks.truth[1] = Pks.truth[1],
             CompareDefinitions(pks, cols)
      PROVE  Good([pair |-> Pair, res |-> VerifyTable(pks, cols)])
  <2> DEFINE v == VerifyTable(pks, cols)
             t == [pair |-> Pair, res |-> v]
  <2>1. v \in TableResult /\ v.pk = pks.truth /\ (v.verifiable => pks.truth # << >>)
    BY TableResults
  <2>2. tbls' = Append(tbls, t)
    BY <1>4 DEF CompareDefinitions
  <2> HIDE DEF v
  <2>3. t \in TableRead
    BY <1>2, <2>1 DEF TableRead
  <2> QED
    BY <1>4, <2>1, <2>2, <2>3 DEF v
<1>5. CASE VerifyNextTable
  <2>1. CompareDefinitions(Pks, Cols)
    BY <1>5 DEF VerifyNextTable
  <2>2. Good([pair |-> Pair, res |-> VerifyTable(Pks, Cols)])
    BY <1>2, <1>4, <2>1
  <2> QED
    BY <1>1, <1>3, <2>2
<1>6. CASE VerifyNextTableCut
  <2>1. "definition" \in cut'
    BY <1>6 DEF VerifyNextTableCut
  <2>2. PICK p \in Beginnings(Pks.truth), q \in Beginnings(Pks.target),
              c \in Beginnings(Cols.truth), d \in Beginnings(Cols.target) :
            CompareDefinitions([truth |-> p, target |-> q], [truth |-> c, target |-> d])
    BY <1>6 DEF VerifyNextTableCut
  <2>3. /\ Pks.truth \in Seq(STRING) /\ Pks.target \in Seq(STRING)
        /\ Cols.truth \in Seq(Column) /\ Cols.target \in Seq(Column)
    BY <1>2 DEF Sides
  <2>4. /\ p \in Seq(STRING) /\ (p # << >> => Pks.truth # << >> /\ p[1] = Pks.truth[1])
        /\ q \in Seq(STRING)
    <3>1. PICK n \in 0..Len(Pks.truth) : p = SubSeq(Pks.truth, 1, n)
      BY DEF Beginnings
    <3>2. PICK m \in 0..Len(Pks.target) : q = SubSeq(Pks.target, 1, m)
      BY DEF Beginnings
    <3> QED
      BY <2>3, <3>1, <3>2
  <2>5. c \in Seq(Column) /\ d \in Seq(Column)
    <3>1. PICK n \in 0..Len(Cols.truth) : c = SubSeq(Cols.truth, 1, n)
      BY DEF Beginnings
    <3>2. PICK m \in 0..Len(Cols.target) : d = SubSeq(Cols.target, 1, m)
      BY DEF Beginnings
    <3> QED
      BY <2>3, <3>1, <3>2
  <2>6. PICK t : Good(t)
    <3> DEFINE pks == [truth |-> p, target |-> q]
               cols == [truth |-> c, target |-> d]
    <3>1. pks \in Sides(Seq(STRING)) /\ cols \in Sides(Seq(Column)) /\ pks.truth = p
      BY <2>4, <2>5 DEF Sides
    <3>2. CompareDefinitions(pks, cols)
      BY <2>2
    <3>3. pks.truth # << >> => Pks.truth # << >> /\ pks.truth[1] = Pks.truth[1]
      BY <2>4, <3>1
    <3> HIDE DEF pks, cols, Good
    <3> QED
      BY <1>4, <3>1, <3>2, <3>3
  <2> QED
    BY <1>1, <1>3, <2>1, <2>6
<1> QED
  BY <1>5, <1>6

----------------------------------------------------------------------------
(* Type correctness.                                                       *)

Actions ==
    \/ Connect \/ ConnectFails \/ ListTables \/ ListFails \/ ListCut \/ FilterTables \/ FilterFails
    \/ (VerifyNextTable \/ VerifyNextTableCut) \/ VerifyTableFails \/ ReportDefinitions
    \/ ShardNextTable \/ NoSplits \/ ShardTableFails \/ StartWorkers \/ CloseQueue \/ Wait
    \/ CloseConns \/ CloseFails
    \/ \E w \in DOMAIN worker :
          Feed(w) \/ ShardReports(w) \/ ShardEnds(w) \/ ShardErrs(w) \/ WorkerExits(w)

\* Next, flat.
LEMMA NextActions == Next => Actions
BY DEF Next, Prepare, Fail, Actions

\* The pairs that were compared are tables of both sides.
LEMMA ListStep ==
    ASSUME scn \in Scenarios, ListTables
    PROVE  /\ listed' \in ListOfTables
           /\ \A v \in Elements(listed'.verified) :
                /\ v.truth \in DOMAIN Catalog("truth") /\ v.target \in DOMAIN Catalog("target")
                /\ CompareNames(v.truth, v.target) = 0
           /\ \A x, y \in 1..Len(listed'.verified) :
                listed'.verified[x].truth = listed'.verified[y].truth => x = y
           /\ NoClash =>
                /\ Elements(listed'.verified) = OnBoth
                /\ Elements(listed'.missing) = OnlyTruth
                /\ Elements(listed'.extraneous) = OnlyTarget
<1> DEFINE A == DOMAIN Catalog("truth")
           B == DOMAIN Catalog("target")
<1>1. /\ A \in SUBSET Name /\ IsFiniteSet(A) /\ B \in SUBSET Name /\ IsFiniteSet(B)
  BY ScenarioFacts
<1>2. PICK a \in SortedLists(A), b \in SortedLists(B) : listed' = Compare(a, b)
  BY DEF ListTables
<1>3. NoClash => Unambiguous(A) /\ Unambiguous(B)
  <2> SUFFICES ASSUME NoClash
               PROVE  Unambiguous(A) /\ Unambiguous(B)
    OBVIOUS
  <2>1. \A n \in A : {m \in A : CompareNames(n, m) = 0} = {n}
    BY DEF NoClash, Twins, SameName
  <2>2. \A n \in B : {m \in B : CompareNames(n, m) = 0} = {n}
    BY DEF NoClash, Twins, SameName
  <2> HIDE DEF A, B
  <2> QED
    BY <2>1, <2>2 DEF Unambiguous
<1>4. /\ \A n : n \in A /\ Alone(n, B) <=> n \in A /\ Twins(n, "target") = {}
      /\ \A n : n \in B /\ Alone(n, A) <=> n \in B /\ Twins(n, "truth") = {}
  BY DEF Twins, SameName, Alone
<1> HIDE DEF A, B
<1> DEFINE r == Compare(a, b)
<1>6. /\ r \in ListOfTables
      /\ \A v \in Elements(r.verified) :
            v.truth \in A /\ v.target \in B /\ CompareNames(v.truth, v.target) = 0
      /\ \A x, y \in 1..Len(r.verified) : r.verified[x].truth = r.verified[y].truth => x = y
  BY <1>1, <1>2, ComparedTables DEF ListOfTables
<1>7. ASSUME NoClash
      PROVE  /\ \A v : v \in Elements(r.verified) <=>
                    \E x \in A, y \in B : v = [truth |-> x, target |-> y] /\ CompareNames(x, y) = 0
             /\ \A x : x \in Elements(r.missing) <=> x \in A /\ Alone(x, B)
             /\ \A x : x \in Elements(r.extraneous) <=> x \in B /\ Alone(x, A)
  <2>1. Unambiguous(A) /\ Unambiguous(B)
    BY <1>3, <1>7
  <2> QED
    BY <1>1, <2>1, ComparedTables
<1> HIDE DEF r
<1>8. r = listed'
  BY <1>2 DEF r
<1>9. ASSUME NoClash
      PROVE  /\ Elements(r.verified) = {v \in [truth : A, target : B] : SameName(v.truth, v.target)}
             /\ Elements(r.missing) = {n \in A : Twins(n, "target") = {}}
             /\ Elements(r.extraneous) = {n \in B : Twins(n, "truth") = {}}
  <2>1. Elements(r.verified) = {v \in [truth : A, target : B] : SameName(v.truth, v.target)}
    BY <1>7, <1>9 DEF SameName
  <2>2. Elements(r.missing) = {n \in A : Twins(n, "target") = {}}
    BY <1>4, <1>7, <1>9
  <2>3. Elements(r.extraneous) = {n \in B : Twins(n, "truth") = {}}
    BY <1>4, <1>7, <1>9
  <2> QED
    BY <2>1, <2>2, <2>3
<1> QED
  BY <1>6, <1>8, <1>9 DEF A, B, OnBoth, OnlyTruth, OnlyTarget

\* Every step keeps the shape of the state.
LEMMA TypeStep ==
    ASSUME scn \in Scenarios, TypeOK, PhaseInv, WorkInv, ListInv, TablesInv, Actions
    PROVE  TypeOK' /\ scn' \in Scenarios
<1> DEFINE Others == UNCHANGED <<scn, split, shards, fed, worker, status, logged, ran>>
<1>1. CASE Connect
  BY <1>1 DEF Connect, Rest, TypeOK
<1>2. CASE ConnectFails
  BY <1>2, RunAssumption DEF ConnectFails, ReturnError, Fault, Rest, TypeOK
<1>3. CASE ListTables
  <2>1. listed' \in ListOfTables /\ pc = "list"
    BY <1>3, ListStep DEF ListTables
  <2>2. tbls = << >> /\ pc' = "filter" /\ Others /\ UNCHANGED <<tbls, result, err, cut, faults>>
    BY <1>3, <2>1 DEF PhaseInv, ListTables, Rest
  <2>3. Len(tbls') = 0 /\ Len(listed'.verified) \in Nat
    BY <2>1, <2>2 DEF ListOfTables
  <2> QED
    BY <2>1, <2>2, <2>3 DEF TypeOK, ListOfTables
<1>4. CASE ListFails
  BY <1>4, RunAssumption DEF ListFails, ReturnError, Fault, Rest, TypeOK
<1>5. CASE ListCut
  <2>1. tbls = << >> /\ pc' = "filter" /\ Others /\ UNCHANGED <<tbls, result, err>>
    BY <1>5 DEF PhaseInv, ListCut, Rest
  <2>2. listed' = NoTables /\ cut' = cut \cup {"list"} /\ faults' \in 0..MaxFaults
    BY <1>5, RunAssumption DEF ListCut, Fault, TypeOK
  <2>3. listed' \in ListOfTables /\ Len(listed'.verified) = 0
    BY <2>2 DEF NoTables, ListOfTables
  <2> QED
    BY <2>1, <2>2, <2>3 DEF TypeOK, ListOfTables
<1>6. CASE FilterTables
  <2>1. tbls = << >> /\ pc' = "tables" /\ Others /\ UNCHANGED <<tbls, err, cut, faults>>
    BY <1>6 DEF PhaseInv, FilterTables, Rest
  <2>2. listed' = FilterResult(scn.filter, listed) /\ listed \in ListOfTables
    BY <1>6 DEF FilterTables, TypeOK, ListOfTables
  <2>3. listed' \in ListOfTables
    BY <2>2, FilteredList
  <2>4. Elements(listed'.missing) \in SUBSET Name /\ Elements(listed'.extraneous) \in SUBSET Name
    BY <2>3 DEF ListOfTables, Elements
  <2>5. result \in ResultType
    BY DEF TypeOK, ResultType
  <2> DEFINE r1 == RecordReports(result, "missing_table", Elements(listed'.missing))
  <2>6. result' = RecordReports(r1, "extraneous_table", Elements(listed'.extraneous))
    BY <1>6 DEF FilterTables
  <2>7. r1 \in ResultType
    BY <2>4, <2>5, Records DEF FindingKinds
  <2> HIDE DEF r1
  <2>8. result' \in ResultType
    BY <2>4, <2>6, <2>7, Records DEF FindingKinds
  <2>9. Len(tbls') = 0 /\ Len(listed'.verified) \in Nat
    BY <2>1, <2>3 DEF ListOfTables
  <2> QED
    BY <2>1, <2>3, <2>8, <2>9 DEF TypeOK, ListOfTables, ResultType
<1>7. CASE FilterFails
  BY <1>7 DEF FilterFails, ReturnError, Rest, TypeOK
<1>8. CASE VerifyNextTable \/ VerifyNextTableCut
  <2>1. PICK t \in TableRead : tbls' = Append(tbls, t)
    BY <1>8, TableStep
  <2>2. /\ MoreTables
        /\ UNCHANGED <<pc, listed, result, err, scn, split, shards, fed, worker, status, logged, ran>>
    BY <1>8, TableStep
  <2>3. cut' \subseteq {"list", "definition"} /\ faults' \in 0..MaxFaults
    <3>1. CASE VerifyNextTable
      BY <3>1 DEF VerifyNextTable, TypeOK
    <3>2. CASE VerifyNextTableCut
      <4>1. Fault /\ cut' = cut \cup {"definition"}
        BY <3>2 DEF VerifyNextTableCut
      <4> QED
        BY <4>1, RunAssumption DEF Fault, TypeOK
    <3> QED
      BY <1>8, <3>1, <3>2
  <2>4. tbls \in Seq(TableRead) /\ Len(tbls) < Len(listed.verified) /\ Len(listed.verified) \in Nat
    BY <2>2 DEF TypeOK, TableRead, MoreTables
  <2>5. tbls' \in Seq(TableRead) /\ Len(tbls') = Len(tbls) + 1
    BY <2>1, <2>4
  <2>6. Len(tbls') <= Len(listed.verified) /\ split \in 0..Len(tbls')
    BY <2>4, <2>5 DEF TypeOK
  <2> QED
    BY <2>2, <2>3, <2>5, <2>6 DEF TypeOK, TableRead
<1>9. CASE VerifyTableFails
  BY <1>9, RunAssumption DEF VerifyTableFails, ReturnError, Fault, Rest, TypeOK
<1>10. CASE ReportDefinitions
  <2> DEFINE N == UNION {DefinitionNames(tbls[i]) : i \in DOMAIN tbls}
  <2>1. N \in SUBSET Name
    <3> SUFFICES ASSUME NEW i \in DOMAIN tbls, NEW n \in DefinitionNames(tbls[i])
                 PROVE  n \in Name
      OBVIOUS
    <3>1. tbls[i] \in TableRead
      <4>1. tbls \in Seq(TableRead)
        BY DEF TypeOK, TableRead
      <4> QED
        BY <4>1
    <3>2. tbls[i].pair.truth \in Name /\ tbls[i].pair.target \in Name
      BY <3>1 DEF TableRead, NamePair
    <3> QED
      BY <3>2 DEF DefinitionNames
  <2>2. result' = RecordReports(result, "mismatching_table_definition", N)
    BY <1>10 DEF ReportDefinitions
  <2> HIDE DEF N
  <2>3. result \in ResultType
    BY DEF TypeOK, ResultType
  <2>4. result' \in ResultType
    BY <2>1, <2>2, <2>3, Records DEF FindingKinds
  <2> QED
    BY <1>10, <2>4 DEF ReportDefinitions, Rest, TypeOK, ResultType
<1>11. CASE ShardNextTable
  <2>1. /\ UNCHANGED <<scn, listed, tbls, cut, pc, fed, worker, result, err, status, logged, ran, faults>>
        /\ pc = "shard" /\ split < Len(tbls) /\ split' = split + 1
    BY <1>11 DEF ShardNextTable, Tables
  <2>2. worker = << >> /\ fed = 0
    BY <2>1 DEF PhaseInv
  <2>3. shards' \in Seq(Shard)
    <3> DEFINE t == tbls[split + 1]
    <3>1. CASE t.res.verifiable
      <4>1. scn.splits >= 1 /\ shards' = shards \o ShardsOf(t, scn.extremes)
        BY <1>11, <3>1 DEF ShardNextTable
      <4>2. split + 1 \in 1..Len(tbls) /\ split + 1 \in 1..Len(listed.verified)
        BY <2>1 DEF TypeOK
      <4>3. t.pair = listed.verified[split + 1]
        BY <4>2 DEF TablesInv
      <4>4. Sharded(t)
        <5>1. t.pair.truth \in DOMAIN Catalog("truth")
          BY <4>2, <4>3 DEF ListInv
        <5>2. /\ t.res.pk # << >> /\ Catalog("truth")[t.pair.truth].pk # << >>
              /\ t.res.pk[1] = Catalog("truth")[t.pair.truth].pk[1]
          BY <3>1, <4>2 DEF TablesInv
        <5> HIDE DEF t
        <5> QED
          BY <4>1, <5>1, <5>2 DEF Sharded
      <4> HIDE DEF t
      <4>5. ShardsOf(t, scn.extremes) \in Seq(Shard)
        BY <4>4, ShardsOfTable
      <4>6. shards \in Seq(Shard)
        BY DEF TypeOK
      <4> QED
        BY <4>1, <4>5, <4>6
    <3>2. CASE ~t.res.verifiable
      BY <1>11, <3>2 DEF ShardNextTable, TypeOK
    <3> QED
      BY <3>1, <3>2
  <2>4. /\ split' \in 0..Len(tbls') /\ fed' \in 0..Len(shards')
        /\ worker' \in Seq(Exited..Len(shards'))
    BY <2>1, <2>2, <2>3 DEF TypeOK
  <2> QED
    BY <2>1, <2>3, <2>4 DEF TypeOK
<1>12. CASE NoSplits
  BY <1>12 DEF NoSplits, ReturnError, Rest, TypeOK
<1>13. CASE ShardTableFails
  BY <1>13, RunAssumption DEF ShardTableFails, ReturnError, Fault, Rest, TypeOK
<1>14. CASE StartWorkers
  <2>1. NumGoroutines \in Nat
    BY ScenarioFacts, RunAssumption DEF NumGoroutines, TypeOK
  <2>2. Idle \in Exited..Len(shards) /\ Len(shards) \in Nat /\ DOMAIN shards = 1..Len(shards)
    BY DEF TypeOK, Idle, Exited
  <2>3. worker' \in Seq(Exited..Len(shards))
    <3>1. worker' = [w \in 1..NumGoroutines |-> Idle]
      BY <1>14 DEF StartWorkers
    <3> QED
      BY <2>1, <2>2, <3>1
  <2>4. ran' \in Seq(0..Many)
    <3>1. ran' = [i \in 1..Len(shards) |-> 0]
      BY <1>14, <2>2 DEF StartWorkers
    <3> QED
      BY <2>2, <3>1 DEF Many
  <2> QED
    BY <1>14, <2>3, <2>4 DEF StartWorkers, Tables, TypeOK
<1>15. CASE CloseQueue
  BY <1>15 DEF CloseQueue, Tables, TypeOK
<1>16. CASE Wait
  BY <1>16 DEF Wait, Tables, TypeOK
<1>17. CASE CloseConns
  BY <1>17 DEF CloseConns, Return, StatusAfter, Tables, TypeOK
<1>18. CASE CloseFails
  BY <1>18, RunAssumption DEF CloseFails, Return, StatusAfter, Fault, Tables, TypeOK
<1>19. ASSUME NEW w \in DOMAIN worker,
              Feed(w) \/ ShardReports(w) \/ ShardEnds(w) \/ ShardErrs(w) \/ WorkerExits(w)
       PROVE  TypeOK' /\ scn' \in Scenarios
  <2>1. /\ worker \in Seq(Exited..Len(shards)) /\ worker[w] \in Exited..Len(shards)
        /\ Len(shards) \in Nat /\ fed \in 0..Len(shards)
    <3>1. worker \in Seq(Exited..Len(shards)) /\ fed \in 0..Len(shards) /\ shards \in Seq(Shard)
      BY DEF TypeOK
    <3>2. w \in 1..Len(worker)
      BY <3>1
    <3>3. worker[w] \in Exited..Len(shards)
      <4> DEFINE I == Exited..Len(shards)
      <4>1. worker \in Seq(I)
        BY <3>1
      <4> HIDE DEF I
      <4>2. worker[w] \in I
        BY <3>2, <4>1
      <4> QED
        BY <4>2 DEF I
    <3> QED
      BY <3>1, <3>3
  <2>2. ASSUME NEW x \in Exited..Len(shards)
        PROVE  [worker EXCEPT ![w] = x] \in Seq(Exited..Len(shards))
    BY <2>1
  <2>3. CASE Feed(w)
    <3>1. fed + 1 \in Exited..Len(shards) /\ fed' \in 0..Len(shards) /\ 1..fed \subseteq 1..fed'
      BY <2>1, <2>3 DEF Feed, Exited
    <3>2. worker' \in Seq(Exited..Len(shards))
      BY <2>2, <2>3, <3>1 DEF Feed
    <3>3. logged' \subseteq 1..fed'
      BY <2>3, <3>1 DEF Feed, TypeOK
    <3> QED
      BY <2>3, <3>1, <3>2, <3>3 DEF Feed, Tables, TypeOK
  <2>4. CASE WorkerExits(w)
    <3>1. worker' \in Seq(Exited..Len(shards))
      BY <2>1, <2>2, <2>4 DEF WorkerExits, Exited
    <3> QED
      BY <2>4, <3>1 DEF WorkerExits, Tables, TypeOK
  <2>5. ASSUME worker[w] > 0
        PROVE  /\ ShardOf(w).table \in Name /\ worker[w] \in 1..fed
               /\ worker[w] \in DOMAIN ran
    <3>1. worker[w] \in 1..Len(shards)
      BY <2>1, <2>5
    <3>2. shards[worker[w]] \in Shard
      BY <3>1 DEF TypeOK
    <3>3. ShardOf(w).table \in Name
      BY <3>2 DEF ShardOf, Shard
    <3>4. worker[w] <= fed
      BY DEF WorkInv
    <3>5. worker # << >>
      OBVIOUS
    <3>6. Len(ran) = Len(shards)
      BY <3>5 DEF WorkInv
    <3>7. ran \in Seq(0..Many)
      BY DEF TypeOK
    <3> QED
      BY <2>1, <3>1, <3>3, <3>4, <3>6, <3>7
  <2>6. result \in ResultType
    BY DEF TypeOK, ResultType
  <2>7. CASE ShardReports(w)
    <3>1. result' \in ResultType
      BY <2>5, <2>6, <2>7, Records DEF ShardReports, Running, FindingKinds
    <3> QED
      BY <2>7, <3>1 DEF ShardReports, Tables, TypeOK, ResultType
  <2>8. ASSUME Release(w) /\ UNCHANGED shards
        PROVE  worker' \in Seq(Exited..Len(shards'))
    BY <2>1, <2>2, <2>8 DEF Release, Idle, Exited
  <2>9. CASE ShardEnds(w)
    <3>1. result' \in ResultType
      BY <2>5, <2>6, <2>9, Records DEF ShardEnds, Running
    <3>2. worker' \in Seq(Exited..Len(shards'))
      BY <2>8, <2>9 DEF ShardEnds
    <3>3. ran' \in Seq(0..Many)
      <4>1. ran \in Seq(0..Many) /\ worker[w] \in DOMAIN ran
        BY <2>5, <2>9 DEF ShardEnds, Running, TypeOK
      <4>2. ran' = [ran EXCEPT ![worker[w]] = IF @ = Many THEN Many ELSE @ + 1]
        BY <2>9 DEF ShardEnds
      <4> QED
        BY <4>1, <4>2 DEF Many
    <3> QED
      BY <2>9, <3>1, <3>2, <3>3 DEF ShardEnds, Tables, TypeOK, ResultType
  <2>10. CASE ShardErrs(w)
    <3>1. worker' \in Seq(Exited..Len(shards'))
      BY <2>8, <2>10 DEF ShardErrs
    <3>2. logged' \subseteq 1..fed
      BY <2>5, <2>10 DEF ShardErrs, Running, TypeOK
    <3>3. faults' \in 0..MaxFaults
      BY <2>10, RunAssumption DEF ShardErrs, Fault, TypeOK
    <3> QED
      BY <2>10, <3>1, <3>2, <3>3 DEF ShardErrs, Tables, TypeOK
  <2> QED
    BY <1>19, <2>3, <2>4, <2>7, <2>9, <2>10
<1> QED
  BY <1>1, <1>2, <1>3, <1>4, <1>5, <1>6, <1>7, <1>8, <1>9, <1>10, <1>11, <1>12, <1>13,
     <1>14, <1>15, <1>16, <1>17, <1>18, <1>19 DEF Actions

----------------------------------------------------------------------------
(* The phases, and the workers.                                            *)

\* A worker that has a shard: shards are being handed out or waited for.
LEMMA RunningWorker ==
    ASSUME TypeOK, PhaseInv, WorkInv, NEW w \in DOMAIN worker, Running(w)
    PROVE  /\ pc \in {"feed", "wait"} /\ status = "running"
           /\ worker[w] \in 1..fed /\ worker[w] \in 1..Len(shards) /\ worker[w] \in 1..Len(ran)
<1>1. worker # << >> /\ worker[w] > 0
  BY DEF Running
<1>2. pc \in {"feed", "wait"}
  BY <1>1 DEF PhaseInv, TypeOK, Exited
<1>3. status = "running"
  BY <1>2 DEF PhaseInv
<1>4. worker[w] \in Int
  <2> DEFINE I == Exited..Len(shards)
  <2>1. worker \in Seq(I) /\ w \in 1..Len(worker)
    BY DEF TypeOK
  <2>2. I \subseteq Int
    BY DEF Exited, TypeOK
  <2> HIDE DEF I
  <2>3. worker[w] \in I
    BY <2>1
  <2> QED
    BY <2>2, <2>3
<1>5. worker[w] <= fed /\ Len(ran) = Len(shards)
  BY <1>1 DEF WorkInv
<1>6. fed \in 0..Len(shards) /\ Len(shards) \in Nat
  BY DEF TypeOK
<1> QED
  BY <1>1, <1>2, <1>3, <1>4, <1>5, <1>6

\* Every step keeps what is said of the phases.
LEMMA PhaseStep ==
    ASSUME scn \in Scenarios, TypeOK, PhaseInv, WorkInv, ListInv, Actions
    PROVE  PhaseInv'
<1> USE DEF PhaseInv, Reported
<1>1. CASE Connect
  BY <1>1 DEF Connect, Rest
<1>2. CASE ConnectFails
  BY <1>2 DEF ConnectFails, ReturnError, Rest
<1>3. CASE ListTables
  BY <1>3 DEF ListTables, Rest
<1>4. CASE ListFails
  BY <1>4 DEF ListFails, ReturnError, Rest
<1>5. CASE ListCut
  BY <1>5 DEF ListCut, Rest
<1>6. CASE FilterTables
  BY <1>6 DEF FilterTables, Rest
<1>7. CASE FilterFails
  BY <1>7 DEF FilterFails, ReturnError, Rest
<1>8. CASE VerifyNextTable \/ VerifyNextTableCut
  <2>1. /\ pc = "tables"
        /\ UNCHANGED <<pc, listed, result, err, scn, split, shards, fed, worker, status, logged, ran>>
    BY <1>8, TableStep DEF MoreTables
  <2> QED
    BY <2>1
<1>9. CASE VerifyTableFails
  BY <1>9 DEF VerifyTableFails, MoreTables, ReturnError, Rest
<1>10. CASE ReportDefinitions
  BY <1>10, ScenarioFacts DEF ReportDefinitions, Rest
<1>11. CASE ShardNextTable
  BY <1>11 DEF ShardNextTable, Tables
<1>12. CASE NoSplits
  BY <1>12 DEF NoSplits, ReturnError, Rest
<1>13. CASE ShardTableFails
  BY <1>13 DEF ShardTableFails, ReturnError, Rest
<1>14. CASE StartWorkers
  <2>1. Len(ran') = Len(shards)
    <3>1. shards \in Seq(Shard)
      BY DEF TypeOK
    <3>2. ran' = [i \in 1..Len(shards) |-> 0] /\ Len(shards) \in Nat
      BY <1>14, <3>1 DEF StartWorkers
    <3> QED
      BY <3>2
  <2> QED
    BY <1>14, <2>1 DEF StartWorkers, Tables
<1>15. CASE CloseQueue
  BY <1>15 DEF CloseQueue, Tables
<1>16. CASE Wait
  BY <1>16 DEF Wait, Tables
<1>17. CASE CloseConns
  BY <1>17 DEF CloseConns, Return, StatusAfter, Tables
<1>18. CASE CloseFails
  BY <1>18 DEF CloseFails, Return, StatusAfter, Tables
<1>19. ASSUME NEW w \in DOMAIN worker,
              Feed(w) \/ ShardReports(w) \/ ShardEnds(w) \/ ShardErrs(w) \/ WorkerExits(w)
       PROVE  PhaseInv'
  <2>1. pc \in {"feed", "wait"} /\ status = "running"
    BY <1>19, RunningWorker DEF Feed, WorkerExits, ShardReports, ShardEnds, ShardErrs
  <2>2. UNCHANGED <<scn, listed, tbls, cut, pc, split, shards, err, status>>
    BY <1>19 DEF Feed, WorkerExits, ShardReports, ShardEnds, ShardErrs, Tables
  <2>3. Len(ran') = Len(ran)
    <3>1. CASE ShardEnds(w)
      <4>1. ran' = [ran EXCEPT ![worker[w]] = IF @ = Many THEN Many ELSE @ + 1] /\ ran \in Seq(0..Many)
        BY <3>1 DEF ShardEnds, TypeOK
      <4> QED
        BY <4>1
    <3> QED
      BY <1>19, <3>1 DEF Feed, WorkerExits, ShardReports, ShardErrs
  <2>4. pc = "wait" => fed' = fed
    BY <1>19 DEF Feed, WorkerExits, ShardReports, ShardEnds, ShardErrs
  <2> QED
    BY <2>1, <2>2, <2>3, <2>4
<1> QED
  BY <1>1, <1>2, <1>3, <1>4, <1>5, <1>6, <1>7, <1>8, <1>9, <1>10, <1>11, <1>12, <1>13,
     <1>14, <1>15, <1>16, <1>17, <1>18, <1>19 DEF Actions

\* Who has which shard stays right when shards are handed out and given back.
LEMMA WorkStep ==
    ASSUME scn \in Scenarios, TypeOK, PhaseInv, WorkInv, ListInv, Actions
    PROVE  WorkInv'
<1>1. CASE UNCHANGED <<scn, shards, fed, worker, logged, ran>>
  BY <1>1 DEF WorkInv
<1>2. CASE ShardNextTable
  <2>1. UNCHANGED <<scn, fed, worker, logged, ran>> /\ pc = "shard"
    BY <1>2 DEF ShardNextTable, Tables
  <2>2. worker = << >> /\ fed = 0 /\ ran = << >>
    BY <2>1 DEF PhaseInv
  <2> QED
    BY <2>1, <2>2 DEF WorkInv
<1>3. CASE StartWorkers
  <2>1. /\ UNCHANGED <<scn, shards, fed, logged>> /\ pc = "shard"
        /\ worker' = [w \in 1..NumGoroutines |-> Idle]
        /\ ran' = [i \in DOMAIN shards |-> 0]
    BY <1>3 DEF StartWorkers, Tables
  <2>2. fed = 0
    BY <2>1 DEF PhaseInv
  <2>3. Len(ran') = Len(shards)
    <3>1. DOMAIN shards = 1..Len(shards) /\ Len(shards) \in Nat
      BY DEF TypeOK
    <3> QED
      BY <2>1, <3>1
  <2>4. \A w \in DOMAIN worker' : worker'[w] = 0
    BY <2>1 DEF Idle
  <2>5. \A j \in DOMAIN ran' : ran'[j] = 0
    BY <2>1
  <2> QED
    BY <2>1, <2>2, <2>3, <2>4, <2>5 DEF WorkInv
<1>4. ASSUME NEW w \in DOMAIN worker, Feed(w)
      PROVE  WorkInv'
  <2>1. /\ UNCHANGED <<scn, shards, logged, ran>> /\ fed' = fed + 1 /\ worker[w] = 0
        /\ worker' = [worker EXCEPT ![w] = fed + 1]
        /\ fed < Len(shards) /\ pc = "feed"
    BY <1>4 DEF Feed, Tables, Idle
  <2>2. fed \in Nat /\ logged \subseteq 1..fed /\ Len(ran) = Len(shards) /\ ran \in Seq(0..Many)
    BY <2>1 DEF TypeOK, PhaseInv
  <2>3. /\ DOMAIN worker' = DOMAIN worker /\ worker'[w] = fed + 1
        /\ \A v \in DOMAIN worker : v # w => worker'[v] = worker[v]
    BY <2>1
  <2>4. \A v \in DOMAIN worker : worker[v] \in Int /\ worker[v] <= fed
    <3> DEFINE I == Exited..Len(shards)
    <3>1. worker \in Seq(I) /\ I \subseteq Int
      BY DEF TypeOK, Exited
    <3> HIDE DEF I
    <3>2. \A v \in DOMAIN worker : worker[v] \in I
      BY <3>1
    <3> QED
      BY <3>1, <3>2 DEF WorkInv
  <2>5. \A v \in DOMAIN worker' : worker'[v] <= fed'
    BY <2>1, <2>2, <2>3, <2>4
  <2>6. \A u, v \in DOMAIN worker' : worker'[u] = worker'[v] /\ worker'[u] > 0 => u = v
    <3> TAKE u, v \in DOMAIN worker'
    <3>1. worker[u] = worker[v] /\ worker[u] > 0 => u = v
      BY <2>3 DEF WorkInv
    <3>2. worker[u] # fed + 1 /\ worker[v] # fed + 1
      BY <2>2, <2>3, <2>4
    <3> QED
      BY <2>3, <3>1, <3>2
  <2>7. ASSUME NEW j \in 1..fed', \A v \in DOMAIN worker' : worker'[v] # j
        PROVE  ~scn.continuous /\ ran[j] = IF j \in logged THEN 0 ELSE 1
    <3>1. j # fed + 1
      BY <2>3, <2>7
    <3>2. j \in 1..fed
      BY <2>1, <2>2, <3>1
    <3>3. \A v \in DOMAIN worker : worker[v] # j
      BY <2>1, <2>3, <2>7, <3>2
    <3> QED
      BY <3>2, <3>3 DEF WorkInv
  <2>8. \A v \in DOMAIN worker' : ~scn.continuous /\ worker'[v] > 0 =>
            ran[worker'[v]] = 0 /\ worker'[v] \notin logged
    <3> TAKE v \in DOMAIN worker'
    <3>1. CASE v = w
      <4>1. fed + 1 \in DOMAIN ran /\ fed + 1 > fed /\ fed + 1 \notin logged
        BY <2>1, <2>2
      <4> QED
        BY <2>3, <3>1, <4>1 DEF WorkInv
    <3>2. CASE v # w
      BY <2>3, <3>2 DEF WorkInv
    <3> QED
      BY <3>1, <3>2
  <2>9. \A j \in DOMAIN ran : j > fed' => ran[j] = 0
    <3> TAKE j \in DOMAIN ran
    <3>1. j \in Nat
      BY <2>2
    <3> QED
      BY <2>1, <2>2, <3>1 DEF WorkInv
  <2>10. worker' # << >>
    BY <2>3
  <2> QED
    BY <2>1, <2>2, <2>5, <2>6, <2>7, <2>8, <2>9, <2>10 DEF WorkInv
<1>5. ASSUME NEW w \in DOMAIN worker, WorkerExits(w)
      PROVE  WorkInv'
  <2>1. /\ UNCHANGED <<scn, shards, logged, ran, fed>> /\ worker[w] = 0
        /\ worker' = [worker EXCEPT ![w] = -1]
    BY <1>5 DEF WorkerExits, Tables, Idle, Exited
  <2>2. /\ DOMAIN worker' = DOMAIN worker /\ worker'[w] = -1
        /\ \A v \in DOMAIN worker : v # w => worker'[v] = worker[v]
        /\ fed \in Nat /\ worker # << >> /\ worker' # << >>
    BY <2>1 DEF TypeOK
  <2>3. \A v \in DOMAIN worker' : worker'[v] <= fed
    BY <2>2 DEF WorkInv
  <2>4. \A u, v \in DOMAIN worker' : worker'[u] = worker'[v] /\ worker'[u] > 0 => u = v
    BY <2>2 DEF WorkInv
  <2>5. ASSUME NEW j \in 1..fed, \A v \in DOMAIN worker' : worker'[v] # j
        PROVE  \A v \in DOMAIN worker : worker[v] # j
    <3>1. j # 0
      BY <2>2
    <3> QED
      BY <2>1, <2>2, <2>5, <3>1
  <2>6. \A v \in DOMAIN worker' : ~scn.continuous /\ worker'[v] > 0 =>
            ran[worker'[v]] = 0 /\ worker'[v] \notin logged
    BY <2>2 DEF WorkInv
  <2> QED
    BY <2>1, <2>2, <2>3, <2>4, <2>5, <2>6 DEF WorkInv
<1>6. ASSUME NEW w \in DOMAIN worker, ShardEnds(w) \/ ShardErrs(w)
      PROVE  WorkInv'
  <2> DEFINE i == worker[w]
  <2>1. Running(w) /\ Release(w) /\ UNCHANGED <<scn, shards, fed>>
    BY <1>6 DEF ShardEnds, ShardErrs, Tables
  <2>2. /\ i \in 1..fed /\ i \in 1..Len(ran) /\ i > 0 /\ fed \in Nat
        /\ ran \in Seq(0..Many) /\ logged \subseteq 1..fed
    BY <2>1, RunningWorker DEF Running, TypeOK
  <2>3. /\ \/ ran' = [ran EXCEPT ![i] = IF @ = Many THEN Many ELSE @ + 1] /\ logged' = logged
           \/ ran' = ran /\ logged' = logged \cup {i}
        /\ scn.continuous => worker' = worker
        /\ ~scn.continuous => worker' = [worker EXCEPT ![w] = 0]
    BY <1>6, <2>1 DEF ShardEnds, ShardErrs, Release, Idle
  <2>4. /\ DOMAIN ran' = DOMAIN ran /\ Len(ran') = Len(ran)
        /\ \A j \in DOMAIN ran : j # i => ran'[j] = ran[j]
        /\ \A j : j # i => (j \in logged' <=> j \in logged)
    <3> HIDE DEF i
    <3>1. CASE ran' = [ran EXCEPT ![i] = IF @ = Many THEN Many ELSE @ + 1] /\ logged' = logged
      BY <2>2, <3>1
    <3>2. CASE ran' = ran /\ logged' = logged \cup {i}
      BY <2>2, <3>2
    <3> QED
      BY <2>3, <3>1, <3>2
  <2>5. DOMAIN worker' = DOMAIN worker /\ worker # << >> /\ worker' # << >>
    BY <2>3, ScenarioFacts
  <2>6. Len(ran') = Len(shards')
    BY <2>1, <2>4, <2>5 DEF WorkInv
  <2>7. \A v \in DOMAIN worker' : worker'[v] = worker[v] \/ (~scn.continuous /\ v = w /\ worker'[v] = 0)
    BY <2>3, ScenarioFacts
  <2>8. \A v \in DOMAIN worker' : worker'[v] <= fed
    BY <2>2, <2>5, <2>7 DEF WorkInv
  <2>9. \A u, v \in DOMAIN worker' : worker'[u] = worker'[v] /\ worker'[u] > 0 => u = v
    BY <2>5, <2>7 DEF WorkInv
  <2>10. ~scn.continuous => ran[i] = 0 /\ i \notin logged
    BY <2>2 DEF WorkInv
  <2>11. ~scn.continuous => ran'[i] = IF i \in logged' THEN 0 ELSE 1
    <3> SUFFICES ASSUME ~scn.continuous
                 PROVE  ran'[i] = IF i \in logged' THEN 0 ELSE 1
      OBVIOUS
    <3>1. ran[i] = 0 /\ i \notin logged /\ i \in DOMAIN ran
      BY <2>2, <2>10
    <3> HIDE DEF i
    <3> QED
      BY <2>3, <3>1 DEF Many
  <2>12. ASSUME NEW j \in 1..fed, \A v \in DOMAIN worker' : worker'[v] # j
         PROVE  ~scn.continuous /\ ran'[j] = IF j \in logged' THEN 0 ELSE 1
    <3>1. CASE j = i
      <4>1. ~scn.continuous
        BY <2>3, <2>12, <3>1
      <4> QED
        BY <2>11, <3>1, <4>1
    <3>2. CASE j # i
      <4>1. \A v \in DOMAIN worker : worker[v] # j
        BY <2>5, <2>7, <2>12, <3>2
      <4>2. ~scn.continuous /\ ran[j] = IF j \in logged THEN 0 ELSE 1
        BY <4>1 DEF WorkInv
      <4>3. j \in DOMAIN ran
        <5>1. Len(ran) = Len(shards) /\ fed \in 0..Len(shards) /\ Len(shards) \in Nat
          BY <2>5 DEF WorkInv, TypeOK
        <5>2. j \in 1..Len(ran)
          BY <5>1
        <5> QED
          BY <2>2, <5>2
      <4> QED
        BY <2>4, <3>2, <4>2, <4>3
    <3> QED
      BY <3>1, <3>2
  <2>13. \A v \in DOMAIN worker' : ~scn.continuous /\ worker'[v] > 0 =>
            ran'[worker'[v]] = 0 /\ worker'[v] \notin logged'
    <3> SUFFICES ASSUME NEW v \in DOMAIN worker', ~scn.continuous, worker'[v] > 0
                 PROVE  ran'[worker'[v]] = 0 /\ worker'[v] \notin logged'
      OBVIOUS
    <3>1. v # w /\ worker'[v] = worker[v]
      BY <2>3, <2>5
    <3>2. worker[v] # i /\ ran[worker[v]] = 0 /\ worker[v] \notin logged /\ Running(v)
      BY <2>2, <2>5, <3>1 DEF WorkInv, Running
    <3>3. worker[v] \in 1..Len(ran)
      BY <2>5, <3>2, RunningWorker
    <3>4. worker[v] \in DOMAIN ran
      BY <2>2, <3>3
    <3> QED
      BY <2>4, <3>1, <3>2, <3>4
  <2>14. \A j \in DOMAIN ran' : j > fed => ran'[j] = 0
    <3> SUFFICES ASSUME NEW j \in DOMAIN ran', j > fed
                 PROVE  ran'[j] = 0
      OBVIOUS
    <3>1. j # i
      BY <2>2
    <3> QED
      BY <2>4, <3>1 DEF WorkInv
  <2> QED
    BY <2>1, <2>5, <2>6, <2>8, <2>9, <2>12, <2>13, <2>14 DEF WorkInv
<1>7. \/ UNCHANGED <<scn, shards, fed, worker, logged, ran>>
      \/ ShardNextTable \/ StartWorkers
      \/ \E w \in DOMAIN worker : Feed(w) \/ WorkerExits(w) \/ ShardEnds(w) \/ ShardErrs(w)
  <2>1. VerifyNextTable \/ VerifyNextTableCut => UNCHANGED <<scn, shards, fed, worker, logged, ran>>
    BY TableStep
  <2> QED
    BY <2>1 DEF Actions, Connect, ConnectFails, ListTables, ListFails, ListCut, FilterTables,
       FilterFails, VerifyTableFails, ReportDefinitions, NoSplits, ShardTableFails, CloseQueue,
       Wait, CloseConns, CloseFails, Return, ShardReports, Rest, Tables
<1> QED
  BY <1>1, <1>2, <1>3, <1>4, <1>5, <1>6, <1>7

----------------------------------------------------------------------------
(* The list of tables, and what was read of them.                          *)

\* The scenario never changes, and nothing that depends on it alone does.
LEMMA Frozen ==
    ASSUME Actions
    PROVE  scn' = scn
BY DEF Actions, Connect, ConnectFails, ListTables, ListFails, ListCut, FilterTables, FilterFails,
   VerifyNextTable, VerifyNextTableCut, CompareDefinitions, VerifyTableFails, ReportDefinitions,
   ShardNextTable, NoSplits, ShardTableFails, StartWorkers, CloseQueue, Wait, CloseConns,
   CloseFails, Return, Feed, ShardReports, ShardEnds, ShardErrs, WorkerExits, Rest, Tables

\* What is derived from the catalogs and the filter never changes during a run.
LEMMA FrozenSets ==
    ASSUME scn' = scn
    PROVE  /\ OnBoth' = OnBoth /\ OnlyTruth' = OnlyTruth /\ OnlyTarget' = OnlyTarget
           /\ NoClash' <=> NoClash
           /\ Catalog("truth")' = Catalog("truth") /\ Catalog("target")' = Catalog("target")
<1>1. Catalog("truth")' = Catalog("truth") /\ Catalog("target")' = Catalog("target")
  BY DEF Catalog
<1>2. OnBoth' = OnBoth
  BY <1>1 DEF OnBoth, SameName
<1>3. OnlyTruth' = OnlyTruth
  BY <1>1 DEF OnlyTruth, Twins, SameName
<1>4. OnlyTarget' = OnlyTarget
  BY <1>1 DEF OnlyTarget, Twins, SameName
<1>5. NoClash' <=> NoClash
  BY DEF NoClash, Twins, SameName, Catalog
<1> QED
  BY <1>1, <1>2, <1>3, <1>4, <1>5

\* Steps that leave the list of tables alone.
LEMMA ListUnchanged ==
    ASSUME Actions
    PROVE  \/ ListTables \/ ListCut \/ FilterTables
           \/ listed' = listed /\ cut \subseteq cut' /\ (pc' = pc \/ pc' \notin {"filter", "tables"})
<1>1. VerifyNextTable \/ VerifyNextTableCut => listed' = listed /\ cut \subseteq cut' /\ pc' = pc
  BY DEF VerifyNextTable, VerifyNextTableCut, CompareDefinitions
<1> QED
  BY <1>1 DEF Actions, Connect, ConnectFails, ListFails, FilterFails, VerifyTableFails,
     ReportDefinitions, ShardNextTable, NoSplits, ShardTableFails, StartWorkers, CloseQueue, Wait,
     CloseConns, CloseFails, Return, Feed, ShardReports, ShardEnds, ShardErrs, WorkerExits,
     ReturnError, Rest, Tables

\* The list of tables stays as the merge and the filter leave it.
LEMMA ListInvStep ==
    ASSUME scn \in Scenarios, TypeOK, PhaseInv, ListInv, Actions
    PROVE  ListInv'
<1>1. /\ scn' = scn /\ OnBoth' = OnBoth /\ OnlyTruth' = OnlyTruth /\ OnlyTarget' = OnlyTarget
      /\ NoClash' <=> NoClash
      /\ Catalog("truth")' = Catalog("truth") /\ Catalog("target")' = Catalog("target")
  BY Frozen, FrozenSets
<1>2. CASE ListTables
  <2>1. pc' = "filter"
    BY <1>2 DEF ListTables
  <2>2. \A i \in 1..Len(listed'.verified) :
          LET v == listed'.verified[i]
          IN  /\ v.truth \in DOMAIN Catalog("truth") /\ v.target \in DOMAIN Catalog("target")
              /\ CompareNames(v.truth, v.target) = 0
    <3> TAKE i \in 1..Len(listed'.verified)
    <3>1. listed'.verified \in Seq(NamePair)
      BY <1>2, ListStep DEF ListOfTables
    <3>2. listed'.verified[i] \in Elements(listed'.verified)
      BY <3>1 DEF Elements
    <3> QED
      BY <1>2, <3>2, ListStep
  <2>3. \A x, y \in 1..Len(listed'.verified) :
          listed'.verified[x].truth = listed'.verified[y].truth => x = y
    BY <1>2, ListStep
  <2>4. NoClash => /\ Elements(listed'.verified) = OnBoth
                   /\ Elements(listed'.missing) = OnlyTruth
                   /\ Elements(listed'.extraneous) = OnlyTarget
    BY <1>2, ListStep
  <2> QED
    BY <1>1, <2>1, <2>2, <2>3, <2>4 DEF ListInv
<1>3. CASE ListCut
  <2>1. pc' = "filter" /\ "list" \in cut' /\ listed' = NoTables
    BY <1>3 DEF ListCut
  <2>2. Len(listed'.verified) = 0
    BY <2>1 DEF NoTables
  <2> QED
    BY <2>1, <2>2 DEF ListInv
<1>4. CASE FilterTables
  <2>1. /\ pc' = "tables" /\ listed \in ListOfTables
        /\ listed' = FilterResult(scn.filter, listed)
    BY <1>4 DEF FilterTables, TypeOK, ListOfTables
  <2> DEFINE l == listed.verified
             k == listed'.verified
  <2>2. /\ k \in Seq(NamePair) /\ l \in Seq(NamePair) /\ Sublist(k, l)
        /\ Elements(k) = {p \in Elements(l) : MatchesFilters(scn.filter, p.truth)}
    BY <2>1, FilteredList DEF ListOfTables
  <2> HIDE DEF k
  <2>3. PICK h \in [DOMAIN k -> DOMAIN l] :
            /\ \A i \in DOMAIN k : k[i] = l[h[i]]
            /\ \A i, j \in DOMAIN k : i < j => h[i] < h[j]
    BY <2>2 DEF Sublist
  <2>4. DOMAIN k = 1..Len(k) /\ DOMAIN l = 1..Len(l) /\ Len(k) \in Nat /\ Len(l) \in Nat
    BY <2>2
  <2>5. \A i \in 1..Len(k) : h[i] \in 1..Len(l) /\ k[i] = l[h[i]]
    BY <2>3, <2>4
  <2>6. \A i \in 1..Len(k) : /\ k[i].truth \in DOMAIN Catalog("truth")
                             /\ k[i].target \in DOMAIN Catalog("target")
                             /\ CompareNames(k[i].truth, k[i].target) = 0
    BY <2>5 DEF ListInv
  <2>7. \A x, y \in 1..Len(k) : k[x].truth = k[y].truth => x = y
    <3> SUFFICES ASSUME NEW x \in 1..Len(k), NEW y \in 1..Len(k), k[x].truth = k[y].truth, x # y
                 PROVE  FALSE
      OBVIOUS
    <3>1. h[x] = h[y]
      BY <2>5 DEF ListInv
    <3>2. x < y \/ y < x
      OBVIOUS
    <3>3. h[x] < h[y] \/ h[y] < h[x]
      BY <2>3, <2>4, <3>2
    <3>4. h[x] \in Nat
      BY <2>5
    <3> QED
      BY <3>1, <3>3, <3>4
  <2>8. \A i \in 1..Len(k) : InFilter(k[i].truth)
    <3> TAKE i \in 1..Len(k)
    <3>1. k[i] \in Elements(k)
      BY <2>4 DEF Elements
    <3> QED
      BY <2>2, <3>1 DEF InFilter
  <2>9. \A i \in 1..Len(k) : MatchesFilters(scn'.filter, k[i].truth)
    BY <1>1, <2>8 DEF InFilter
  <2> QED
    BY <1>1, <2>1, <2>6, <2>7, <2>9 DEF ListInv, InFilter, k
<1>5. CASE listed' = listed /\ cut \subseteq cut' /\ (pc' = pc \/ pc' \notin {"filter", "tables"})
  BY <1>1, <1>5 DEF ListInv, InFilter
<1> QED
  BY <1>2, <1>3, <1>4, <1>5, ListUnchanged

\* What was read of a table stays, and what is read next is right.
LEMMA TablesStep ==
    ASSUME scn \in Scenarios, TypeOK, PhaseInv, ListInv, TablesInv, Actions
    PROVE  TablesInv'
<1>1. scn' = scn
  BY Frozen
<1>2. \A p : RealPks(p)' = RealPks(p) /\ RealCols(p)' = RealCols(p)
  BY <1>1 DEF RealPks, RealCols, Catalog
<1>3. CASE VerifyNextTable \/ VerifyNextTableCut
  <2>1. /\ MoreTables /\ listed' = listed
    BY <1>3, TableStep
  <2>2. PICK t \in TableRead :
            /\ tbls' = Append(tbls, t)
            /\ t.pair = Pair
            /\ t.res.verifiable =>
                 t.res.pk # << >> /\ Pks.truth # << >> /\ t.res.pk[1] = Pks.truth[1]
            /\ "definition" \notin cut' => t.res = VerifyTable(Pks, Cols)
    BY <1>3, TableStep
  <2>3. /\ Pair = listed.verified[Len(tbls) + 1] /\ InFilter(Pair.truth)
        /\ Pks = RealPks(Pair) /\ Cols = RealCols(Pair)
    BY <2>1, PairFacts
  <2>4. tbls \in Seq(TableRead)
    BY DEF TypeOK, TableRead
  <2>5. /\ Len(tbls') = Len(tbls) + 1 /\ tbls'[Len(tbls) + 1] = t /\ Len(tbls) \in Nat
        /\ \A i \in 1..Len(tbls) : tbls'[i] = tbls[i]
    BY <2>2, <2>4
  <2>6. cut \subseteq cut'
    BY <1>3 DEF VerifyNextTable, VerifyNextTableCut
  <2> DEFINE Right(x, i) ==
          LET pk == Catalog("truth")[x.pair.truth].pk
          IN  /\ x.pair = listed.verified[i]
              /\ InFilter(x.pair.truth)
              /\ x.res.verifiable => x.res.pk # << >> /\ pk # << >> /\ x.res.pk[1] = pk[1]
              /\ "definition" \notin cut' => x.res = VerifyTable(RealPks(x.pair), RealCols(x.pair))
  <2>7. \A i \in 1..Len(tbls) : Right(tbls[i], i)
    BY <2>6 DEF TablesInv
  <2>8. Right(t, Len(tbls) + 1)
    <3>1. Pks.truth = Catalog("truth")[t.pair.truth].pk
      BY <2>2, <2>3 DEF RealPks
    <3> QED
      BY <2>2, <2>3, <3>1
  <2> HIDE DEF Right
  <2>9. \A i \in 1..Len(tbls') : Right(tbls'[i], i)
    <3> TAKE i \in 1..Len(tbls')
    <3>1. i \in 1..Len(tbls) \/ i = Len(tbls) + 1
      BY <2>5
    <3> QED
      BY <2>5, <2>7, <2>8, <3>1
  <2> QED
    BY <1>1, <1>2, <2>1, <2>9 DEF Right, TablesInv, InFilter, Catalog
<1>4. CASE tbls' = << >>
  <2>1. Len(tbls') = 0
    BY <1>4
  <2> QED
    BY <2>1 DEF TablesInv
<1>5. CASE tbls' = tbls /\ listed' = listed /\ cut' = cut
  BY <1>1, <1>2, <1>5 DEF TablesInv, InFilter, Catalog
<1>6. ListTables \/ ListCut \/ FilterTables => tbls' = << >>
  BY DEF ListTables, ListCut, FilterTables, PhaseInv
<1>7. VerifyNextTable \/ VerifyNextTableCut \/ tbls' = << >>
        \/ (tbls' = tbls /\ listed' = listed /\ cut' = cut)
  BY <1>6 DEF Actions, Connect, ConnectFails, ListFails, FilterFails, VerifyTableFails,
     ReportDefinitions, ShardNextTable, NoSplits, ShardTableFails, StartWorkers, CloseQueue, Wait,
     CloseConns, CloseFails, Return, Feed, ShardReports, ShardEnds, ShardErrs, WorkerExits,
     Tables
<1> QED
  BY <1>3, <1>4, <1>5, <1>7

----------------------------------------------------------------------------
(* The shards of the tables.                                               *)

\* Where the shards of a table are after a step that leaves the tables alone.
LEMMA ShardsAtNext ==
    ASSUME scn' = scn, tbls' = tbls, NEW i, NEW o
    PROVE  LET S == ShardsOf(tbls[i], scn.extremes)
           IN  ShardsAt(i, o)' <=>
                 /\ o + Len(S) <= Len(shards')
                 /\ \A k \in 1..Len(S) : shards'[o + k] = S[k]
                 /\ \A j \in 1..Len(shards') : shards'[j].table = tbls[i].pair.truth =>
                       \E k \in 1..Len(S) : j = o + k
BY DEF ShardsAt, ShardsOf, KeyKind, Catalog

\* Where the shards of a table stand depends on the tables and the shard list only.
LEMMA ShardsStay ==
    ASSUME scn' = scn, tbls' = tbls, shards' = shards, NEW i, NEW o
    PROVE  ShardsAt(i, o)' <=> ShardsAt(i, o)
<1> DEFINE S == ShardsOf(tbls[i], scn.extremes)
<1>1. ShardsAt(i, o)' <=>
        /\ o + Len(S) <= Len(shards)
        /\ \A k \in 1..Len(S) : shards[o + k] = S[k]
        /\ \A j \in 1..Len(shards) : shards[j].table = tbls[i].pair.truth =>
              \E k \in 1..Len(S) : j = o + k
  BY ShardsAtNext
<1> QED
  BY <1>1 DEF ShardsAt

\* No two results are about one table of the truth.
LEMMA DistinctTables ==
    ASSUME TypeOK, ListInv, TablesInv, NEW i \in 1..Len(tbls), NEW j \in 1..Len(tbls),
           tbls[i].pair.truth = tbls[j].pair.truth
    PROVE  i = j
<1>1. i \in 1..Len(listed.verified) /\ j \in 1..Len(listed.verified)
  BY DEF TypeOK
<1> QED
  BY <1>1 DEF TablesInv, ListInv

\* A table that was read and can be verified, where there are splits, is sharded.
LEMMA VerifiableTable ==
    ASSUME TypeOK, ListInv, TablesInv, NEW i \in 1..Len(tbls), tbls[i].res.verifiable,
           scn.splits >= 1
    PROVE  Sharded(tbls[i])
<1>1. i \in 1..Len(listed.verified)
  BY DEF TypeOK
<1>2. tbls[i].pair = listed.verified[i]
  BY DEF TablesInv
<1>3. tbls[i].pair.truth \in DOMAIN Catalog("truth")
  BY <1>1, <1>2 DEF ListInv
<1>4. /\ tbls[i].res.pk # << >> /\ Catalog("truth")[tbls[i].pair.truth].pk # << >>
      /\ tbls[i].res.pk[1] = Catalog("truth")[tbls[i].pair.truth].pk[1]
  BY DEF TablesInv
<1> QED
  BY <1>3, <1>4 DEF Sharded

\* The shards of a table stay where they are, and the next table's follow.
LEMMA ShardStep ==
    ASSUME scn \in Scenarios, TypeOK, PhaseInv, ListInv, TablesInv, ShardInv, Actions
    PROVE  ShardInv'
<1>1. scn' = scn
  BY Frozen
<1>2. CASE split' = 0 /\ shards' = << >>
  <2>1. Len(shards') = 0
    BY <1>2
  <2> QED
    BY <1>2, <2>1 DEF ShardInv
<1>3. CASE UNCHANGED <<split, shards, tbls>>
  BY <1>1, <1>3, ShardsStay DEF ShardInv
<1>4. CASE ShardNextTable
  <2> DEFINE n == Len(shards)
             m == split + 1
             t == tbls[m]
             S(i) == ShardsOf(tbls[i], scn.extremes)
  <2>1. tbls' = tbls /\ split' = m /\ split < Len(tbls)
    BY <1>4 DEF ShardNextTable, Tables
  <2>2. /\ shards \in Seq(Shard) /\ n \in Nat /\ split \in Nat /\ m \in 1..Len(tbls)
        /\ \A i \in 1..split' : i \in 1..split \/ i = m
        /\ \A i \in 1..split : i \in 1..Len(tbls) /\ i # m
    BY <2>1 DEF TypeOK
  <2>3. \A i \in 1..split : tbls[i].pair.truth # t.pair.truth
    BY <2>2, DistinctTables
  <2>4. \A j \in 1..n : shards[j].table # t.pair.truth
    BY <2>3 DEF ShardInv
  <2>5. CASE ~t.res.verifiable
    <3>1. shards' = shards
      BY <1>4, <2>5 DEF ShardNextTable
    <3>2. \A i \in 1..split : \A o \in 0..n : ShardsAt(i, o) => ShardsAt(i, o)'
      BY <1>1, <2>1, <3>1, ShardsStay
    <3>3. \A i \in 1..split' : tbls'[i].res.verifiable =>
             scn'.splits >= 1 /\ \E o \in 0..Len(shards') : ShardsAt(i, o)'
      <4> TAKE i \in 1..split'
      <4>1. tbls'[i].res.verifiable => i \in 1..split
        BY <2>1, <2>2, <2>5
      <4> QED
        BY <1>1, <2>1, <3>1, <3>2, <4>1 DEF ShardInv
    <3>4. \A j \in 1..Len(shards') : \E i \in 1..split' : shards'[j].table = tbls'[i].pair.truth
      BY <2>1, <2>2, <3>1 DEF ShardInv
    <3> QED
      BY <3>3, <3>4 DEF ShardInv
  <2>6. CASE t.res.verifiable
    <3> DEFINE R == S(m)
    <3>1. scn.splits >= 1 /\ shards' = shards \o R
      BY <1>4, <2>6 DEF ShardNextTable
    <3>2. Sharded(t)
      BY <2>2, <2>6, <3>1, VerifiableTable
    <3>3. R \in Seq(Shard) /\ Len(R) \in Nat /\ \A k \in 1..Len(R) : R[k].table = t.pair.truth
      BY <3>2, ShardsOfTable
    <3> HIDE DEF S, t, m
    <3>4. /\ Len(shards') = n + Len(R)
          /\ \A j \in 1..n : shards'[j] = shards[j]
          /\ \A k \in 1..Len(R) : shards'[n + k] = R[k]
      BY <2>2, <3>1, <3>3
    <3>5. \A j \in 1..Len(shards') : j \in 1..n \/ \E k \in 1..Len(R) : j = n + k
      <4> TAKE j \in 1..Len(shards')
      <4>1. j \in 1..n \/ j - n \in 1..Len(R)
        BY <2>2, <3>3, <3>4
      <4>2. j = n + (j - n)
        BY <2>2, <3>3, <3>4
      <4> QED
        BY <4>1, <4>2
    <3>6. ASSUME NEW i \in 1..split, tbls[i].res.verifiable
          PROVE  \E o \in 0..Len(shards') : ShardsAt(i, o)'
      <4>1. PICK o \in 0..n : ShardsAt(i, o)
        BY <3>6 DEF ShardInv
      <4>2. Sharded(tbls[i])
        BY <2>2, <3>1, <3>6, VerifiableTable
      <4>3. Len(S(i)) \in Nat
        BY <4>2, ShardsOfTable DEF S
      <4>4. /\ o + Len(S(i)) <= n
            /\ \A k \in 1..Len(S(i)) : shards[o + k] = S(i)[k]
            /\ \A j \in 1..n : shards[j].table = tbls[i].pair.truth =>
                  \E k \in 1..Len(S(i)) : j = o + k
        BY <4>1 DEF ShardsAt, S
      <4>5. o + Len(S(i)) <= Len(shards') /\ o \in 0..Len(shards')
        BY <2>2, <3>3, <3>4, <4>3, <4>4
      <4>6. \A k \in 1..Len(S(i)) : shards'[o + k] = S(i)[k]
        <5> TAKE k \in 1..Len(S(i))
        <5>1. o + k \in 1..n
          BY <2>2, <4>3, <4>4
        <5> QED
          BY <3>4, <4>4, <5>1
      <4>7. ASSUME NEW j \in 1..Len(shards'), shards'[j].table = tbls[i].pair.truth
            PROVE  \E k \in 1..Len(S(i)) : j = o + k
        <5>1. j \in 1..n
          BY <2>3, <3>3, <3>4, <3>5, <4>7
        <5> QED
          BY <3>4, <4>4, <4>7, <5>1
      <4>8. ShardsAt(i, o)'
        BY <1>1, <2>1, <4>5, <4>6, <4>7, ShardsAtNext DEF S
      <4> QED
        BY <4>5, <4>8
    <3>7. n \in 0..Len(shards') /\ \A i, o : i = m /\ o = n => ShardsAt(i, o)'
      <4>1. n + Len(R) <= Len(shards') /\ n \in 0..Len(shards')
        BY <2>2, <3>3, <3>4
      <4>2. ASSUME NEW j \in 1..Len(shards'), shards'[j].table = tbls[m].pair.truth
            PROVE  \E k \in 1..Len(R) : j = n + k
        BY <2>4, <3>4, <3>5, <4>2 DEF t
      <4>3. R = ShardsOf(tbls[m], scn.extremes)
        BY DEF S
      <4> HIDE DEF R, n
      <4>4. ASSUME NEW i, NEW o, i = m, o = n
            PROVE  ShardsAt(i, o)'
        BY <1>1, <2>1, <3>4, <4>1, <4>2, <4>3, <4>4, ShardsAtNext
      <4> QED
        BY <4>1, <4>4
    <3>8. \A i \in 1..split' : tbls'[i].res.verifiable =>
             scn'.splits >= 1 /\ \E o \in 0..Len(shards') : ShardsAt(i, o)'
      <4> HIDE DEF n, R
      <4> TAKE i \in 1..split'
      <4>1. CASE i \in 1..split
        BY <1>1, <2>1, <3>1, <3>6, <4>1
      <4>2. CASE i = m
        BY <1>1, <3>1, <3>7, <4>2
      <4> QED
        BY <2>2, <4>1, <4>2
    <3>9. ASSUME NEW j \in 1..Len(shards')
          PROVE  \E i \in 1..split' : shards'[j].table = tbls'[i].pair.truth
      <4>1. CASE j \in 1..n
        <5>1. PICK i \in 1..split : shards[j].table = tbls[i].pair.truth
          BY <4>1 DEF ShardInv
        <5>2. i \in 1..split'
          BY <2>1, <2>2 DEF m
        <5> QED
          BY <2>1, <3>4, <4>1, <5>1, <5>2
      <4>2. CASE \E k \in 1..Len(R) : j = n + k
        <5>1. m \in 1..split'
          BY <2>1, <2>2
        <5> QED
          BY <2>1, <3>3, <3>4, <4>2, <5>1 DEF t
      <4> QED
        BY <3>5, <4>1, <4>2
    <3> QED
      BY <3>8, <3>9 DEF ShardInv
  <2> QED
    BY <2>5, <2>6
<1>5. VerifyNextTable \/ VerifyNextTableCut => split' = 0 /\ shards' = << >>
  <2> SUFFICES ASSUME VerifyNextTable \/ VerifyNextTableCut
               PROVE  split' = 0 /\ shards' = << >>
    OBVIOUS
  <2>1. MoreTables /\ UNCHANGED <<split, shards>>
    BY TableStep
  <2> QED
    BY <2>1 DEF MoreTables, PhaseInv
<1>6. (split' = 0 /\ shards' = << >>) \/ UNCHANGED <<split, shards, tbls>> \/ ShardNextTable
  BY <1>5 DEF Actions, Connect, ConnectFails, ListTables, ListFails, ListCut, FilterTables,
     FilterFails, VerifyTableFails, ReportDefinitions, NoSplits, ShardTableFails, StartWorkers,
     CloseQueue, Wait, CloseConns, CloseFails, Return, Feed, ShardReports, ShardEnds, ShardErrs,
     WorkerExits, Rest, Tables
<1> QED
  BY <1>2, <1>3, <1>4, <1>6

----------------------------------------------------------------------------
(* What is reported.                                                       *)

\* The names a pair's definition is reported under.
LEMMA DefinitionNamesAsked ==
    ASSUME scn \in Scenarios, TypeOK, ListInv, TablesInv, NEW i \in 1..Len(tbls),
           NEW n \in DefinitionNames(tbls[i])
    PROVE  n \in Name /\ Asked(n)
<1> DEFINE p == tbls[i].pair
<1>1. i \in 1..Len(listed.verified) /\ p = listed.verified[i] /\ InFilter(p.truth)
  BY DEF TypeOK, TablesInv
<1>2. /\ p.truth \in DOMAIN Catalog("truth") /\ p.target \in DOMAIN Catalog("target")
      /\ CompareNames(p.truth, p.target) = 0
  BY <1>1 DEF ListInv
<1>3. p.truth \in Name /\ p.target \in Name
  BY <1>2, ScenarioFacts
<1>4. n = p.truth \/ n = p.target
  BY DEF DefinitionNames
<1> HIDE DEF p
<1>5. CompareNames(p.target, p.truth) = 0
  BY <1>2, <1>3 DEF CompareNames, Name
<1>6. p.truth \in Twins(p.target, "truth")
  BY <1>2, <1>5 DEF Twins, SameName
<1> QED
  BY <1>1, <1>3, <1>4, <1>6 DEF Asked

\* What a result whose reports are in order is after one more.
InOrderResult(r) ==
    /\ r \in ResultType
    /\ {f.table : f \in r.findings} \subseteq r.mismatches
    /\ \A n \in r.tables : Asked(n)

\* Recording reports about tables in the filter loses nothing and adds only those.
LEMMA RecordKeepsOrder ==
    ASSUME NEW r, InOrderResult(r), NEW kind \in FindingKinds \cup {"summary"},
           NEW N \in SUBSET Name, \A n \in N : Asked(n)
    PROVE  LET q == RecordReports(r, kind, N)
           IN  /\ InOrderResult(q)
               /\ r.findings \subseteq q.findings /\ r.mismatches \subseteq q.mismatches
               /\ \A f \in q.findings : f \in r.findings \/ f.kind = kind
<1> DEFINE q == RecordReports(r, kind, N)
<1>1. r \in ResultType
  BY DEF InOrderResult
<1>2. /\ q \in ResultType
      /\ q.tables = r.tables \cup N
      /\ kind = "summary" => q.mismatches = r.mismatches /\ q.findings = r.findings
      /\ kind # "summary" =>
           /\ q.mismatches = r.mismatches \cup N
           /\ \A f : f \in q.findings <=>
                 f \in r.findings \/ \E n \in N : f = [kind |-> kind, table |-> n]
  BY <1>1, Records
<1> HIDE DEF q
<1>3. \A n \in q.tables : Asked(n)
  BY <1>2 DEF InOrderResult
<1>4. {f.table : f \in q.findings} \subseteq q.mismatches
  BY <1>2 DEF InOrderResult
<1>5. /\ r.findings \subseteq q.findings /\ r.mismatches \subseteq q.mismatches
      /\ \A f \in q.findings : f \in r.findings \/ f.kind = kind
  BY <1>2
<1> QED
  BY <1>2, <1>3, <1>4, <1>5 DEF InOrderResult, q

\* What a step adds to the result.
LEMMA ResultStep ==
    ASSUME scn \in Scenarios, TypeOK, PhaseInv, WorkInv, ListInv, TablesInv, ShardInv, ReportInv,
           Actions
    PROVE  /\ InOrderResult(result')
           /\ result.findings \subseteq result'.findings
           /\ result.mismatches \subseteq result'.mismatches
           /\ FilterTables \/ \A f \in result'.findings :
                 f \in result.findings \/ f.kind \notin {"missing_table", "extraneous_table"}
<1> DEFINE Goal == /\ InOrderResult(result')
                   /\ result.findings \subseteq result'.findings
                   /\ result.mismatches \subseteq result'.mismatches
                   /\ FilterTables \/ \A f \in result'.findings :
                         f \in result.findings \/ f.kind \notin {"missing_table", "extraneous_table"}
<1>1. InOrderResult(result)
  BY DEF InOrderResult, ReportInv, TypeOK, ResultType
<1>2. CASE FilterTables
  <2> DEFINE M == Elements(listed'.missing)
             X == Elements(listed'.extraneous)
             r == RecordReports(result, "missing_table", M)
  <2>1. result' = RecordReports(r, "extraneous_table", X)
    BY <1>2 DEF FilterTables
  <2>2. listed' = FilterResult(scn.filter, listed) /\ listed \in ListOfTables
    BY <1>2 DEF FilterTables, TypeOK, ListOfTables
  <2>3. /\ listed' \in ListOfTables
        /\ M = {n \in Elements(listed.missing) : MatchesFilters(scn.filter, n)}
        /\ X = {n \in Elements(listed.extraneous) : MatchesFilters(scn.filter, n)}
    BY <2>2, FilteredList
  <2>4. M \in SUBSET Name /\ X \in SUBSET Name
    BY <2>3 DEF ListOfTables, Elements
  <2>5. (\A n \in M : Asked(n)) /\ (\A n \in X : Asked(n))
    BY <2>3 DEF Asked, InFilter
  <2> HIDE DEF M, X
  <2>6. "missing_table" \in FindingKinds \cup {"summary"}
          /\ "extraneous_table" \in FindingKinds \cup {"summary"}
    BY DEF FindingKinds
  <2>7. /\ InOrderResult(r) /\ result.findings \subseteq r.findings
        /\ result.mismatches \subseteq r.mismatches
    BY <1>1, <2>4, <2>5, <2>6, RecordKeepsOrder
  <2> HIDE DEF r
  <2>8. /\ InOrderResult(result') /\ r.findings \subseteq result'.findings
        /\ r.mismatches \subseteq result'.mismatches
    BY <2>1, <2>4, <2>5, <2>6, <2>7, RecordKeepsOrder
  <2> QED
    BY <1>2, <2>7, <2>8
<1>3. ASSUME NEW kind \in {"mismatching_table_definition", "row", "summary"},
             NEW N \in SUBSET Name, \A n \in N : Asked(n), result' = RecordReports(result, kind, N)
      PROVE  Goal
  <2>1. kind \in FindingKinds \cup {"summary"} /\ kind \notin {"missing_table", "extraneous_table"}
    BY DEF FindingKinds
  <2>2. /\ InOrderResult(result')
        /\ result.findings \subseteq result'.findings /\ result.mismatches \subseteq result'.mismatches
        /\ \A f \in result'.findings : f \in result.findings \/ f.kind = kind
    BY <1>1, <1>3, <2>1, RecordKeepsOrder
  <2> QED
    BY <2>1, <2>2
<1>4. CASE ReportDefinitions
  <2> DEFINE N == UNION {DefinitionNames(tbls[i]) : i \in DOMAIN tbls}
  <2>1. result' = RecordReports(result, "mismatching_table_definition", N)
    BY <1>4 DEF ReportDefinitions
  <2>2. DOMAIN tbls = 1..Len(tbls)
    BY DEF TypeOK
  <2>3. N \in SUBSET Name /\ \A n \in N : Asked(n)
    BY <2>2, DefinitionNamesAsked
  <2> HIDE DEF N, Goal
  <2> QED
    BY <1>3, <2>1, <2>3 DEF Goal
<1>5. ASSUME NEW w \in DOMAIN worker, ShardReports(w) \/ ShardEnds(w)
      PROVE  Goal
  <2>1. Running(w) /\ \E kind \in {"row", "summary"} :
            result' = RecordReports(result, kind, {ShardOf(w).table})
    BY <1>5 DEF ShardReports, ShardEnds
  <2>2. worker[w] \in 1..Len(shards)
    BY <2>1, RunningWorker
  <2>3. ShardOf(w).table \in Name
    <3>1. shards[worker[w]] \in Shard
      BY <2>2 DEF TypeOK
    <3> QED
      BY <3>1 DEF ShardOf, Shard
  <2>4. Asked(ShardOf(w).table)
    <3>1. PICK i \in 1..split : ShardOf(w).table = tbls[i].pair.truth
      BY <2>2 DEF ShardInv, ShardOf
    <3>2. i \in 1..Len(tbls)
      BY DEF TypeOK
    <3> QED
      BY <3>1, <3>2 DEF TablesInv, Asked
  <2> DEFINE N == {ShardOf(w).table}
  <2>5. PICK kind \in {"row", "summary"} : result' = RecordReports(result, kind, N)
    BY <2>1
  <2>6. N \in SUBSET Name /\ \A n \in N : Asked(n)
    BY <2>3, <2>4
  <2>7. kind \in {"mismatching_table_definition", "row", "summary"}
    OBVIOUS
  <2> HIDE DEF Goal, N
  <2> QED
    BY <1>3, <2>5, <2>6, <2>7
<1>6. CASE result' = result
  BY <1>1, <1>6
<1>7. \/ result' = result \/ FilterTables \/ ReportDefinitions
      \/ \E w \in DOMAIN worker : ShardReports(w) \/ ShardEnds(w)
  BY DEF Actions, Connect, ConnectFails, ListTables, ListFails, ListCut, FilterFails,
     VerifyNextTable, VerifyNextTableCut, CompareDefinitions, VerifyTableFails, ShardNextTable,
     NoSplits, ShardTableFails, StartWorkers, CloseQueue, Wait, CloseConns, CloseFails, Return,
     Feed, ShardErrs, WorkerExits
<1> QED
  BY <1>2, <1>4, <1>5, <1>6, <1>7

\* What was reported stays in order, and every definition is reported.
LEMMA ReportStep ==
    ASSUME scn \in Scenarios, TypeOK, PhaseInv, WorkInv, ListInv, TablesInv, ShardInv, ReportInv,
           Actions
    PROVE  ReportInv'
<1>1. scn' = scn
  BY Frozen
<1>2. InOrderResult(result') /\ result.mismatches \subseteq result'.mismatches
  BY ResultStep
<1>3. {f.table : f \in result'.findings} \subseteq result'.mismatches
  BY <1>2 DEF InOrderResult
<1>4. \A n \in result'.tables : Asked(n)'
  <2>1. \A n \in result'.tables : Asked(n)
    BY <1>2 DEF InOrderResult
  <2>2. \A n : Asked(n)' <=> Asked(n)
    BY <1>1 DEF Asked, InFilter, Twins, SameName, Catalog
  <2> QED
    BY <2>1, <2>2
<1>5. CASE ReportDefinitions
  <2>1. tbls' = tbls /\ DOMAIN tbls = 1..Len(tbls)
    BY <1>5 DEF ReportDefinitions, TypeOK
  <2> DEFINE N == UNION {DefinitionNames(tbls[i]) : i \in DOMAIN tbls}
  <2>2. result' = RecordReports(result, "mismatching_table_definition", N)
    BY <1>5 DEF ReportDefinitions
  <2>3. \A i \in 1..Len(tbls) : DefinitionNames(tbls[i]) \subseteq N
    BY <2>1
  <2> HIDE DEF N
  <2>4. N \subseteq result'.mismatches
    BY <2>2 DEF RecordReports
  <2>5. \A i \in 1..Len(tbls) : DefinitionNames(tbls[i]) \subseteq result'.mismatches
    BY <2>3, <2>4
  <2> QED
    BY <1>3, <1>4, <2>1, <2>5 DEF ReportInv, DefinitionNames
<1>6. CASE Reported' => Reported /\ tbls' = tbls
  BY <1>2, <1>3, <1>4, <1>6 DEF ReportInv, DefinitionNames
<1>7. VerifyNextTable \/ VerifyNextTableCut => ~Reported'
  BY TableStep DEF MoreTables, Reported
<1>8. ReportDefinitions \/ (Reported' => Reported /\ tbls' = tbls)
  <2>1. ASSUME NEW w \in DOMAIN worker,
               Feed(w) \/ ShardReports(w) \/ ShardEnds(w) \/ ShardErrs(w) \/ WorkerExits(w)
        PROVE  Reported' => Reported /\ tbls' = tbls
    BY <2>1 DEF Feed, ShardReports, ShardEnds, ShardErrs, WorkerExits, Tables, Reported
  <2> QED
    BY <1>7, <2>1 DEF Actions, Connect, ConnectFails, ListTables, ListFails, ListCut, FilterTables,
       FilterFails, VerifyTableFails, ShardNextTable, NoSplits, ShardTableFails, StartWorkers,
       CloseQueue, Wait, CloseConns, CloseFails, Return, ReturnError, Tables, Reported
<1> QED
  BY <1>5, <1>6, <1>8

\* The filter is applied to all three lists and reports the right tables.
LEMMA FilterAccounts ==
    ASSUME scn \in Scenarios, TypeOK, PhaseInv, ListInv, FilterTables, "list" \notin cut, NoClash
    PROVE  /\ Elements(listed'.verified) = {p \in OnBoth : InFilter(p.truth)}
           /\ Found(result'.findings, "missing_table") = {n \in OnlyTruth : InFilter(n)}
           /\ Found(result'.findings, "extraneous_table") = {n \in OnlyTarget : InFilter(n)}
<1> DEFINE M == Elements(listed'.missing)
           X == Elements(listed'.extraneous)
           r == RecordReports(result, "missing_table", M)
<1>1. result' = RecordReports(r, "extraneous_table", X) /\ pc = "filter"
  BY DEF FilterTables
<1>2. listed' = FilterResult(scn.filter, listed) /\ listed \in ListOfTables
  BY DEF FilterTables, TypeOK, ListOfTables
<1>3. /\ Elements(listed'.verified) = {p \in Elements(listed.verified) : InFilter(p.truth)}
      /\ M = {n \in Elements(listed.missing) : InFilter(n)}
      /\ X = {n \in Elements(listed.extraneous) : InFilter(n)}
  BY <1>2, FilteredList DEF InFilter
<1>4. /\ Elements(listed.verified) = OnBoth /\ Elements(listed.missing) = OnlyTruth
      /\ Elements(listed.extraneous) = OnlyTarget
  BY <1>1 DEF ListInv
<1>5. result.findings = {}
  BY <1>1 DEF PhaseInv, NewResult
<1> HIDE DEF M, X
<1>6. \A f : f \in r.findings <=> \E n \in M : f = [kind |-> "missing_table", table |-> n]
  BY <1>5 DEF RecordReports
<1> HIDE DEF r
<1>7. \A f : f \in result'.findings <=>
         f \in r.findings \/ \E n \in X : f = [kind |-> "extraneous_table", table |-> n]
  BY <1>1 DEF RecordReports
<1>8. Found(result'.findings, "missing_table") = M
  <2>1. \A n \in M : \E f \in result'.findings : f.kind = "missing_table" /\ f.table = n
    <3> TAKE n \in M
    <3>1. [kind |-> "missing_table", table |-> n] \in result'.findings
      BY <1>6, <1>7
    <3> QED
      BY <3>1
  <2>2. \A f \in result'.findings : f.kind = "missing_table" => f.table \in M
    BY <1>6, <1>7
  <2> QED
    BY <2>1, <2>2 DEF Found
<1>9. Found(result'.findings, "extraneous_table") = X
  <2>1. \A n \in X : \E f \in result'.findings : f.kind = "extraneous_table" /\ f.table = n
    <3> TAKE n \in X
    <3>1. [kind |-> "extraneous_table", table |-> n] \in result'.findings
      BY <1>7
    <3> QED
      BY <3>1
  <2>2. \A f \in result'.findings : f.kind = "extraneous_table" => f.table \in X
    BY <1>6, <1>7
  <2> QED
    BY <2>1, <2>2 DEF Found
<1> QED
  BY <1>3, <1>4, <1>8, <1>9

\* TablesAccounted, in the words of this module.
LEMMA AccountedMeans == Accounted <=> TablesAccounted
<1> DEFINE A == DOMAIN Catalog("truth")
           B == DOMAIN Catalog("target")
<1>1. {p \in OnBoth : InFilter(p.truth)} =
         {p \in [truth : A, target : B] : SameName(p.truth, p.target) /\ InFilter(p.truth)}
  BY DEF OnBoth
<1>2. {n \in OnlyTruth : InFilter(n)} = {n \in A : InFilter(n) /\ Twins(n, "target") = {}}
  BY DEF OnlyTruth
<1>3. {n \in OnlyTarget : InFilter(n)} = {n \in B : InFilter(n) /\ Twins(n, "truth") = {}}
  BY DEF OnlyTarget
<1> QED
  BY <1>1, <1>2, <1>3 DEF Accounted, TablesAccounted, Found

\* Later steps neither change the list nor add findings of the two kinds.
LEMMA AccountStep ==
    ASSUME scn \in Scenarios, TypeOK, PhaseInv, WorkInv, ListInv, TablesInv, ShardInv, ReportInv,
           Accounted, Actions
    PROVE  Accounted'
<1>1. /\ scn' = scn /\ OnBoth' = OnBoth /\ OnlyTruth' = OnlyTruth /\ OnlyTarget' = OnlyTarget
      /\ NoClash' <=> NoClash
  BY Frozen, FrozenSets
<1>2. /\ {p \in OnBoth : InFilter(p.truth)}' = {p \in OnBoth : InFilter(p.truth)}
      /\ {n \in OnlyTruth : InFilter(n)}' = {n \in OnlyTruth : InFilter(n)}
      /\ {n \in OnlyTarget : InFilter(n)}' = {n \in OnlyTarget : InFilter(n)}
  BY <1>1 DEF InFilter
<1>3. CASE FilterTables
  <2>1. cut' = cut
    BY <1>3 DEF FilterTables
  <2> QED
    BY <1>1, <1>2, <1>3, <2>1, FilterAccounts DEF Accounted, Found
<1>4. CASE /\ listed' = listed /\ cut \subseteq cut' /\ ~FilterTables
           /\ pc \notin {"connect", "list", "filter"} /\ (~err' => ~err)
  <2>1. /\ result.findings \subseteq result'.findings
        /\ \A f \in result'.findings :
              f \in result.findings \/ f.kind \notin {"missing_table", "extraneous_table"}
    BY <1>4, ResultStep
  <2>2. /\ Found(result'.findings, "missing_table") = Found(result.findings, "missing_table")
        /\ Found(result'.findings, "extraneous_table") = Found(result.findings, "extraneous_table")
    BY <2>1 DEF Found
  <2> QED
    BY <1>1, <1>2, <1>4, <2>2 DEF Accounted, Found
<1>5. CASE pc' \in {"connect", "list", "filter"} \/ err'
  BY <1>5 DEF Accounted
<1>6. \/ FilterTables
      \/ pc' \in {"connect", "list", "filter"} \/ err'
      \/ /\ listed' = listed /\ cut \subseteq cut'
         /\ pc \notin {"connect", "list", "filter"} /\ (~err' => ~err)
  <2>1. VerifyNextTable \/ VerifyNextTableCut =>
          listed' = listed /\ cut \subseteq cut' /\ pc = "tables" /\ err' = err
    BY DEF VerifyNextTable, VerifyNextTableCut, CompareDefinitions, MoreTables
  <2>2. ASSUME NEW w \in DOMAIN worker,
               Feed(w) \/ ShardReports(w) \/ ShardEnds(w) \/ ShardErrs(w) \/ WorkerExits(w)
        PROVE  listed' = listed /\ cut' = cut /\ pc \in {"feed", "wait"} /\ err' = err
    <3>1. pc \in {"feed", "wait"}
      BY <2>2, RunningWorker DEF Feed, WorkerExits, ShardReports, ShardEnds, ShardErrs
    <3> QED
      BY <2>2, <3>1 DEF Feed, ShardReports, ShardEnds, ShardErrs, WorkerExits, Tables
  <2> QED
    BY <2>1, <2>2 DEF Actions, Connect, ConnectFails, ListTables, ListFails, ListCut, FilterFails,
       VerifyTableFails, ReportDefinitions, ShardNextTable, NoSplits, ShardTableFails,
       StartWorkers, CloseQueue, Wait, CloseConns, CloseFails, Return, ReturnError, Tables
<1> QED
  BY <1>3, <1>4, <1>5, <1>6

----------------------------------------------------------------------------
(* The theorems.                                                           *)

\* The initial states.
LEMMA InitInv == Init => IInv
<1> SUFFICES ASSUME Init
             PROVE  IInv
  OBVIOUS
<1> USE DEF Init
<1>1. scn \in Scenarios
  OBVIOUS
<1>2. TypeOK
  <2>1. listed \in ListOfTables /\ Len(listed.verified) = 0
    BY DEF NoTables, ListOfTables
  <2>2. result \in ResultType
    BY DEF NewResult, ResultType
  <2> QED
    <3>1. \A T : << >> \in Seq(T)
      OBVIOUS
    <3>2. /\ tbls \in Seq([pair : NamePair, res : TableResult]) /\ shards \in Seq(Shard)
          /\ worker \in Seq(Exited..Len(shards)) /\ ran \in Seq(0..Many)
      BY <3>1
    <3>3. Len(tbls) <= Len(listed.verified) /\ split \in 0..Len(tbls) /\ fed \in 0..Len(shards)
      BY <2>1
    <3>4. faults \in 0..MaxFaults
      BY RunAssumption
    <3>5. /\ pc \in {"connect", "list", "filter", "tables", "shard", "feed", "wait", "close", "done"}
          /\ err \in BOOLEAN /\ status \in {"running", "succeeded", "failed"}
          /\ cut \subseteq {"list", "definition"} /\ logged \subseteq 1..fed
      OBVIOUS
    <3> QED
      BY ONLY <2>1, <2>2, <3>2, <3>3, <3>4, <3>5 DEF TypeOK, ListOfTables, ResultType
<1>3. PhaseInv
  BY DEF PhaseInv, Reported
<1>4. WorkInv
  BY DEF WorkInv
<1>5. ListInv
  BY DEF ListInv, NoTables
<1>6. TablesInv
  BY DEF TablesInv
<1>7. ShardInv
  BY DEF ShardInv
<1>8. ReportInv
  BY DEF ReportInv, NewResult, Reported
<1>9. Accounted
  BY DEF Accounted
<1> QED
  BY <1>1, <1>2, <1>3, <1>4, <1>5, <1>6, <1>7, <1>8, <1>9 DEF IInv

\* The invariant is inductive.
LEMMA Inductive == Spec => []IInv
<1>1. ASSUME IInv, Next
      PROVE  IInv'
  <2>1. Actions
    BY <1>1, NextActions
  <2>2. /\ scn \in Scenarios /\ TypeOK /\ PhaseInv /\ WorkInv /\ ListInv /\ TablesInv /\ ShardInv
        /\ ReportInv /\ Accounted
    BY <1>1 DEF IInv
  <2>3. TypeOK' /\ (scn \in Scenarios)'
    BY <2>1, <2>2, TypeStep
  <2>4. PhaseInv' /\ WorkInv'
    BY <2>1, <2>2, PhaseStep, WorkStep
  <2>5. ListInv' /\ TablesInv' /\ ShardInv'
    BY <2>1, <2>2, ListInvStep, TablesStep, ShardStep
  <2>6. ReportInv' /\ Accounted'
    BY <2>1, <2>2, ReportStep, AccountStep
  <2> QED
    BY <2>3, <2>4, <2>5, <2>6 DEF IInv
<1>2. ASSUME IInv, UNCHANGED vars
      PROVE  IInv'
  <2> USE <1>2 DEF vars, IInv
  <2>1. TypeOK' /\ (scn \in Scenarios)'
    BY DEF TypeOK
  <2>2. PhaseInv' /\ WorkInv'
    BY DEF PhaseInv, WorkInv, Reported
  <2>3. ListInv'
    BY FrozenSets DEF ListInv, InFilter
  <2>4. TablesInv'
    BY DEF TablesInv, RealPks, RealCols, Catalog, InFilter
  <2>5. ShardInv'
    BY ShardsStay DEF ShardInv
  <2>6. ReportInv'
    <3>1. \A n : Asked(n)' <=> Asked(n)
      BY DEF Asked, InFilter, Twins, SameName, Catalog
    <3> QED
      BY <3>1 DEF ReportInv, Reported, DefinitionNames
  <2>7. Accounted'
    <3>1. /\ {p \in OnBoth : InFilter(p.truth)}' = {p \in OnBoth : InFilter(p.truth)}
          /\ {n \in OnlyTruth : InFilter(n)}' = {n \in OnlyTruth : InFilter(n)}
          /\ {n \in OnlyTarget : InFilter(n)}' = {n \in OnlyTarget : InFilter(n)}
          /\ NoClash' <=> NoClash
      BY FrozenSets DEF InFilter
    <3> QED
      BY <3>1 DEF Accounted, Found
  <2> QED
    BY <2>1, <2>2, <2>3, <2>4, <2>5, <2>6, <2>7
<1> QED
  BY <1>1, <1>2, InitInv, PTL DEF Spec

\* The state keeps its shape: whatever is cut or fails, the lists of tables hold
\* names, shards and workers fit each other and only known findings are made.
THEOREM TypeCorrect == Spec => []TypeOK
<1>1. IInv => TypeOK
  BY DEF IInv
<1> QED
  BY <1>1, Inductive, PTL

\* compare and FilterResult account for every table of both catalogs, whatever
\* the catalogs and the filter are (TablesAccounted).
THEOREM TablesAreAccounted == Spec => []TablesAccounted
<1>1. IInv => TablesAccounted
  BY AccountedMeans DEF IInv
<1> QED
  BY <1>1, Inductive, PTL

\* The invariant says where the shards of a table are; what they hold is a matter
\* of the splits.
LEMMA ShardsPartitioned == IInv => ShardsPartition
<1>1. ASSUME IInv
      PROVE  ShardsPartition
  <2> USE <1>1 DEF IInv
  <2> SUFFICES ASSUME NEW i \in 1..split, tbls[i].res.verifiable
               PROVE  LET mine == {j \in DOMAIN shards : shards[j].table = tbls[i].pair.truth}
                      IN  /\ \A key \in KeySpace : \E j \in mine : Holds(shards[j], key)
                          /\ NoWrap(KeyKind(tbls[i]), scn.extremes, scn.splits) =>
                                \A key \in KeySpace :
                                    Cardinality({j \in mine : Holds(shards[j], key)}) = 1
    BY DEF ShardsPartition
  <2> DEFINE t == tbls[i]
             mine == {j \in DOMAIN shards : shards[j].table = t.pair.truth}
             kind == KeyKind(t)
             S == Shards(kind, scn.extremes, scn.splits)
             R == ShardsOf(t, scn.extremes)
  <2>1. i \in 1..Len(tbls) /\ DOMAIN shards = 1..Len(shards) /\ Len(shards) \in Nat
    BY DEF TypeOK
  <2>2. scn.splits >= 1 /\ \E o \in 0..Len(shards) : ShardsAt(i, o)
    BY DEF ShardInv
  <2>3. PICK o \in 0..Len(shards) : ShardsAt(i, o)
    BY <2>2
  <2>4. Sharded(t)
    BY <2>1, <2>2, VerifiableTable
  <2>5. /\ kind \in Kinds /\ scn.extremes \in Extremes(kind) /\ scn.splits \in Nat \ {0}
        /\ Len(R) = Len(S) /\ Len(R) \in Nat
        /\ \A k \in 1..Len(R) : /\ R[k].table = t.pair.truth
                                /\ \A key : Holds(R[k], key) <=> Holds(S[k], key)
    BY <2>4, ShardsOfTable
  <2>6. /\ o + Len(R) <= Len(shards)
        /\ \A k \in 1..Len(R) : shards[o + k] = R[k]
        /\ \A j \in 1..Len(shards) : shards[j].table = t.pair.truth => \E k \in 1..Len(R) : j = o + k
    BY <2>3 DEF ShardsAt
  <2>7. \A j \in mine : \E k \in 1..Len(R) : j = o + k
    BY <2>1, <2>6
  <2>8. \A k \in 1..Len(R) : o + k \in mine
    <3> TAKE k \in 1..Len(R)
    <3>1. o + k \in 1..Len(shards)
      BY <2>1, <2>5, <2>6
    <3>2. shards[o + k].table = t.pair.truth
      BY <2>5, <2>6
    <3> QED
      BY <2>1, <3>1, <3>2
  <2>9. \A k \in 1..Len(R) : \A key : Holds(shards[o + k], key) <=> Holds(S[k], key)
    BY <2>5, <2>6
  <2> HIDE DEF S, R, mine, kind
  <2>10. ASSUME NEW key \in KeySpace
         PROVE  \E j \in mine : Holds(shards[j], key)
    <3>1. key \in Int
      BY ShardAssumption DEF KeySpace
    <3>2. PICK k \in 1..Len(S) : Holds(S[k], key)
      BY <2>5, <3>1, ShardsCover DEF S
    <3> QED
      BY <2>5, <2>8, <2>9, <3>2
  <2>11. ASSUME NoWrap(kind, scn.extremes, scn.splits), NEW key \in KeySpace
         PROVE  Cardinality({j \in mine : Holds(shards[j], key)}) = 1
    <3>1. key \in Int
      BY ShardAssumption DEF KeySpace
    <3>2. PICK j \in mine : Holds(shards[j], key)
      BY <2>10
    <3>3. ASSUME NEW m \in mine, Holds(shards[m], key)
          PROVE  m = j
      <4>1. PICK a \in 1..Len(R) : j = o + a
        BY <2>7
      <4>2. PICK b \in 1..Len(R) : m = o + b
        BY <2>7
      <4>3. Holds(S[a], key) /\ Holds(S[b], key) /\ a \in 1..Len(S) /\ b \in 1..Len(S)
        BY <2>5, <2>9, <3>2, <3>3, <4>1, <4>2
      <4>4. a = b
        BY <2>5, <2>11, <3>1, <4>3, ShardsDisjoint DEF S
      <4> QED
        BY <4>1, <4>2, <4>4
    <3>4. {m \in mine : Holds(shards[m], key)} = {j}
      BY <3>2, <3>3
    <3> QED
      BY <3>4, FS_Singleton
  <2> QED
    BY <2>10, <2>11 DEF mine, kind
<1> QED
  BY <1>1

\* The shards of a table hold every key, and each only once when the boundaries
\* stay within the width of their type: what ShardTable's last shard without an
\* end and its minimal step are for (ShardsPartition).
THEOREM ShardsPartitionKeys == Spec => []ShardsPartition
BY Inductive, ShardsPartitioned, PTL

\* Tables outside the filter are neither scanned nor reported
\* (NothingOutsideFilter).
THEOREM FilterIsKept == Spec => []NothingOutsideFilter
<1>1. ASSUME IInv
      PROVE  NothingOutsideFilter
  <2> USE <1>1 DEF IInv
  <2>1. \A j \in DOMAIN shards : InFilter(shards[j].table)
    <3> TAKE j \in DOMAIN shards
    <3>1. j \in 1..Len(shards)
      BY DEF TypeOK
    <3>2. PICK i \in 1..split : shards[j].table = tbls[i].pair.truth
      BY <3>1 DEF ShardInv
    <3>3. i \in 1..Len(tbls)
      BY DEF TypeOK
    <3> QED
      BY <3>2, <3>3 DEF TablesInv
  <2>2. \A n \in result.tables : InFilter(n) \/ \E m \in Twins(n, "truth") : InFilter(m)
    BY DEF ReportInv, Asked
  <2> QED
    BY <2>1, <2>2 DEF NothingOutsideFilter
<1> QED
  BY <1>1, Inductive, PTL

\* g.Wait waits for every worker: when Verify returned none has a shard, and a
\* run without an error verified every shard once (NobodyLeftBehind).
LEMMA AllShardsRan == IInv => NobodyLeftBehind
<1> SUFFICES ASSUME IInv, pc \in {"close", "done"}
             PROVE  /\ \A w \in DOMAIN worker : ~Running(w)
                    /\ (~err /\ scn.rows) =>
                          \A j \in DOMAIN shards : ran[j] = IF j \in logged THEN 0 ELSE 1
  BY DEF NobodyLeftBehind
<1> USE DEF IInv
<1>1. \A w \in DOMAIN worker : worker[w] = -1
  BY DEF PhaseInv, Exited
<1>2. \A w \in DOMAIN worker : ~Running(w)
  BY <1>1 DEF Running
<1>3. ASSUME ~err, scn.rows, NEW j \in DOMAIN shards
      PROVE  ran[j] = IF j \in logged THEN 0 ELSE 1
  <2>1. fed = Len(shards)
    BY <1>3 DEF PhaseInv
  <2>2. j \in 1..fed
    BY <2>1 DEF TypeOK
  <2>3. \A w \in DOMAIN worker : worker[w] # j
    BY <1>1, <2>2 DEF TypeOK
  <2> QED
    BY <2>2, <2>3 DEF WorkInv
<1> QED
  BY <1>2, <1>3

\* When Verify returned nobody reports any more, and outside continuous mode
\* every shard was taken by exactly one worker, once (NobodyLeftBehind).
THEOREM NobodyIsLeftBehind == Spec => []NobodyLeftBehind
BY Inductive, AllShardsRan, PTL

\* What was reported stays reported, and the database does not succeed
\* (DifferencesFail).
THEOREM DifferencesAreKept == Spec => DifferencesFail
<1>1. ASSUME IInv, Next
      PROVE  /\ result.findings \subseteq result'.findings
             /\ result.mismatches \subseteq result'.mismatches
             /\ result.mismatches # {} => status' # "succeeded"
  <2>1. /\ Actions /\ scn \in Scenarios /\ TypeOK /\ PhaseInv /\ WorkInv /\ ListInv /\ TablesInv
        /\ ShardInv /\ ReportInv
    BY <1>1, NextActions DEF IInv
  <2>2. result.findings \subseteq result'.findings /\ result.mismatches \subseteq result'.mismatches
    BY <2>1, ResultStep
  <2>3. PhaseInv'
    BY <2>1, PhaseStep
  <2>4. status' = "succeeded" => result'.mismatches = {}
    BY <2>3 DEF PhaseInv
  <2> QED
    BY <2>2, <2>4
<1>2. IInv /\ [Next]_vars =>
        [/\ result.findings \subseteq result'.findings
         /\ result.mismatches \subseteq result'.mismatches
         /\ result.mismatches # {} => status' # "succeeded"]_vars
  <2>1. CASE Next
    BY <1>1, <2>1
  <2>2. CASE UNCHANGED vars
    BY <2>2
  <2> QED
    BY <2>1, <2>2
<1> QED
  BY <1>2, Inductive, PTL DEF Spec, DifferencesFail

\* A run that succeeded with nothing cut and nothing logged compared every table
\* in the filter and, if rows were asked for, every key of it
\* (CleanMeansCompared): no mismatch means that every table was found, defined
\* alike and therefore sharded, the shards hold every key, and each one ran.
THEOREM CleanRunsCompared == Spec => []CleanMeansCompared
<1>1. ASSUME IInv, status = "succeeded", cut = {}, logged = {}, NoClash
      PROVE  Compared
  <2> USE <1>1 DEF IInv
  <2>1. pc = "done" /\ ~err /\ result.mismatches = {}
    BY DEF PhaseInv
  <2>2. result.findings = {}
    BY <2>1 DEF ReportInv
  <2>3. /\ Elements(listed.verified) = {p \in OnBoth : InFilter(p.truth)}
        /\ \A n \in OnlyTruth : ~InFilter(n)
        /\ \A n \in OnlyTarget : ~InFilter(n)
    <3>1. /\ Elements(listed.verified) = {p \in OnBoth : InFilter(p.truth)}
          /\ Found({}, "missing_table") = {n \in OnlyTruth : InFilter(n)}
          /\ Found({}, "extraneous_table") = {n \in OnlyTarget : InFilter(n)}
      BY <2>1, <2>2 DEF Accounted
    <3>2. Found({}, "missing_table") = {} /\ Found({}, "extraneous_table") = {}
      BY DEF Found
    <3> QED
      BY <3>1, <3>2
  <2>4. /\ \A n \in DOMAIN Catalog("truth") : InFilter(n) => Twins(n, "target") # {}
        /\ \A n \in DOMAIN Catalog("target") : InFilter(n) => Twins(n, "truth") # {}
    BY <2>3 DEF OnlyTruth, OnlyTarget
  <2>5. ASSUME NEW n \in DOMAIN Catalog("truth"), InFilter(n), NEW m \in Twins(n, "target")
        PROVE  \E i \in 1..Len(tbls) :
                  /\ tbls[i].pair = [truth |-> n, target |-> m]
                  /\ tbls[i].res.definitions = {}
                  /\ tbls[i].res = VerifyTable(RealPks(tbls[i].pair), RealCols(tbls[i].pair))
    <3> DEFINE p == [truth |-> n, target |-> m]
    <3>1. p \in Elements(listed.verified)
      <4>1. p \in OnBoth
        BY <2>5 DEF OnBoth, Twins
      <4> HIDE DEF p
      <4>2. p.truth = n
        BY DEF p
      <4> QED
        BY <2>3, <2>5, <4>1, <4>2
    <3> HIDE DEF p
    <3>2. PICK i \in DOMAIN listed.verified : p = listed.verified[i]
      BY <3>1 DEF Elements
    <3>3. i \in 1..Len(tbls)
      <4>1. Len(tbls) = Len(listed.verified)
        BY <2>1 DEF PhaseInv, Reported
      <4>2. i \in 1..Len(listed.verified)
        BY DEF TypeOK
      <4> QED
        BY <4>1, <4>2
    <3>4. /\ tbls[i].pair = p
          /\ tbls[i].res = VerifyTable(RealPks(tbls[i].pair), RealCols(tbls[i].pair))
      BY <3>2, <3>3 DEF TablesInv
    <3>5. DefinitionNames(tbls[i]) = {}
      BY <2>1, <3>3 DEF ReportInv, Reported
    <3>6. tbls[i].res.definitions = {}
      <4>1. ASSUME NEW d \in tbls[i].res.definitions
            PROVE  FALSE
        <5> DEFINE x == IF d = "no primary key" THEN tbls[i].pair.truth ELSE tbls[i].pair.target
        <5>1. x \in DefinitionNames(tbls[i])
          BY <4>1 DEF DefinitionNames
        <5> QED
          BY ONLY <3>5, <5>1
      <4> QED
        BY ONLY <4>1
    <3> QED
      BY <3>3, <3>4, <3>6 DEF p
  <2>6. ASSUME NEW n \in DOMAIN Catalog("truth"), InFilter(n), NEW m \in Twins(n, "target")
        PROVE  /\ SameDefinition(Catalog("truth")[n], Catalog("target")[m])
               /\ \E i \in 1..Len(tbls) : tbls[i].pair.truth = n /\ tbls[i].res.verifiable
    <3> DEFINE a == Catalog("truth")[n]
               b == Catalog("target")[m]
    <3>1. PICK i \in 1..Len(tbls) :
            /\ tbls[i].pair = [truth |-> n, target |-> m]
            /\ tbls[i].res.definitions = {}
            /\ tbls[i].res = VerifyTable(RealPks(tbls[i].pair), RealCols(tbls[i].pair))
      BY <2>5, <2>6
    <3> DEFINE pk == RealPks(tbls[i].pair)
               cols == RealCols(tbls[i].pair)
    <3>2. a \in TableDefinition /\ b \in TableDefinition
      BY ScenarioFacts DEF Twins
    <3>3. tbls[i].pair.truth = n /\ tbls[i].pair.target = m
      BY <3>1
    <3>4. pk.truth = a.pk /\ pk.target = b.pk /\ cols.truth = a.cols /\ cols.target = b.cols
      BY <3>3 DEF RealPks, RealCols
    <3> HIDE DEF pk, cols, a, b
    <3>5. VerifyTable(pk, cols).definitions = {} /\ tbls[i].res = VerifyTable(pk, cols)
      BY <3>1 DEF pk, cols
    <3>6. SameDefinition(a, b) /\ VerifyTable(pk, cols).verifiable
      BY <3>2, <3>4, <3>5, SameDefinitions
    <3> QED
      BY <3>3, <3>5, <3>6 DEF a, b
  <2>7. ASSUME NEW n \in DOMAIN Catalog("truth"), InFilter(n), scn.rows, NEW key \in KeySpace
        PROVE  \E j \in DOMAIN shards : shards[j].table = n /\ Holds(shards[j], key) /\ ran[j] > 0
    <3>1. PICK i \in 1..Len(tbls) : tbls[i].pair.truth = n /\ tbls[i].res.verifiable
      BY <2>4, <2>6, <2>7
    <3>2. i \in 1..split
      BY <2>1, <2>7 DEF PhaseInv
    <3>3. PICK j \in DOMAIN shards : shards[j].table = n /\ Holds(shards[j], key)
      BY <3>1, <3>2, ShardsPartitioned DEF ShardsPartition
    <3>4. ran[j] = 1
      <4>1. NobodyLeftBehind
        BY AllShardsRan
      <4> QED
        BY <2>1, <2>7, <4>1 DEF NobodyLeftBehind
    <3> QED
      BY <3>3, <3>4
  <2>8. \A s \in {"truth", "target"} : \A n \in DOMAIN Catalog(s) :
          InFilter(n) => Twins(n, IF s = "truth" THEN "target" ELSE "truth") # {}
    BY <2>4
  <2> QED
    BY <2>6, <2>7, <2>8 DEF Compared
<1>2. IInv => CleanMeansCompared
  BY <1>1 DEF CleanMeansCompared
<1> QED
  BY <1>2, Inductive, PTL

============================================================================
