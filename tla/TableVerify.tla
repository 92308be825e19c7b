---------------------------- MODULE TableVerify ----------------------------
(***************************************************************************)
(* Which tables of two databases are compared, and how: the merge of the   *)
(* two sorted lists of tables, the filter on their names, and the          *)
(* comparison of the definitions of a table both sides have.               *)
(*                                                                         *)
(* A name is [schema, table, letters]: schema and table stand for the      *)
(* lower-cased names and are numbers in their order, letters for the way   *)
(* each of them is spelled.                                                *)
(***************************************************************************)
EXTENDS Integers, Sequences, FiniteSets

Name == [schema : Nat, table : Nat, letters : [schema : Nat, table : Nat]]
NamePair == [truth : Name, target : Name]

----------------------------------------------------------------------------
(* dbverify.go, dbtable/table.go                                           *)

\* DBTable.Compare: schema, then table, both lower-cased.
CompareNames(a, b) ==
    IF a.schema # b.schema THEN IF a.schema < b.schema THEN -1 ELSE 1
    ELSE IF a.table # b.table THEN IF a.table < b.table THEN -1 ELSE 1
    ELSE 0

\* The orders sort.Slice may leave a list of tables in.
SortedLists(names) ==
    {l \in [1..Cardinality(names) -> names] :
        /\ {l[i] : i \in DOMAIN l} = names
        /\ \A i, k \in DOMAIN l : i < k => CompareNames(l[i], l[k]) <= 0}

NoTables == [verified |-> << >>, missing |-> << >>, extraneous |-> << >>]

\* The tables left on the target once the truth has none are dropped.
CompareRoundForgettingTail(truth, target, r) ==
    LET c == IF r.j > Len(target) THEN 1 ELSE CompareNames(target[r.j], truth[r.i])
    IN  IF r.i > Len(truth) THEN r
        ELSE CASE c = -1 -> [r EXCEPT !.extraneous = Append(@, target[r.j]), !.j = @ + 1]
               [] c = 0 -> [r EXCEPT !.verified = Append(@, [truth |-> truth[r.i],
                                                             target |-> target[r.j]]),
                                     !.i = @ + 1, !.j = @ + 1]
               [] c = 1 -> [r EXCEPT !.missing = Append(@, truth[r.i]), !.i = @ + 1]

\* A round of compare's loops, the iterators at truth[r.i] and target[r.j]; the
\* second loop goes on with the target alone.
CompareRound(truth, target, r) ==
    LET c == IF r.j > Len(target) THEN 1
             ELSE IF r.i > Len(truth) THEN -1
             ELSE CompareNames(target[r.j], truth[r.i])
    IN  IF r.i > Len(truth) /\ r.j > Len(target) THEN r
        ELSE CASE c = -1 -> [r EXCEPT !.extraneous = Append(@, target[r.j]), !.j = @ + 1]
               [] c = 0 -> [r EXCEPT !.verified = Append(@, [truth |-> truth[r.i],
                                                             target |-> target[r.j]]),
                                     !.i = @ + 1, !.j = @ + 1]
               [] c = 1 -> [r EXCEPT !.missing = Append(@, truth[r.i]), !.i = @ + 1]

\* compare: a merge of the two lists, in at most as many rounds as they are long.
Compare(truth, target) ==
    LET n == Len(truth) + Len(target)
        round[k \in 0..n] ==
            IF k = 0 THEN [verified |-> << >>, missing |-> << >>, extraneous |-> << >>,
                           i |-> 1, j |-> 1]
            ELSE CompareRound(truth, target, round[k - 1])
    IN  [verified |-> round[n].verified, missing |-> round[n].missing,
         extraneous |-> round[n].extraneous]

----------------------------------------------------------------------------
(* utils/obj_filter.go: a pattern is the set of spellings it matches;      *)
(* NoPattern is an option that was left empty.                             *)

NoPattern == {}
Matches(pattern, x) == pattern = NoPattern \/ x \in pattern
MatchesFilter(n, schemas, tables) ==
    /\ Matches(schemas, <<n.schema, n.letters.schema>>)
    /\ Matches(tables, <<n.table, n.letters.table>>)

\* matchesFilters: the exclusion only counts when one of its options was given.
MatchesFilters(f, n) ==
    /\ MatchesFilter(n, f.schemas, f.tables)
    /\ \/ f.exSchemas = NoPattern /\ f.exTables = NoPattern
       \/ ~MatchesFilter(n, f.exSchemas, f.exTables)

Elements(list) == {list[i] : i \in DOMAIN list}

\* A loop that appends the elements of list that are in S.
Kept(list, S) ==
    LET kept[i \in 0..Len(list)] ==
            IF i = 0 THEN << >>
            ELSE IF list[i] \in S THEN Append(kept[i - 1], list[i]) ELSE kept[i - 1]
    IN  kept[Len(list)]

\* Extraneous tables are not filtered.
FilterResultOfTruth(f, r) ==
    [verified   |-> Kept(r.verified, {p \in Elements(r.verified) : MatchesFilters(f, p.truth)}),
     missing    |-> Kept(r.missing, {n \in Elements(r.missing) : MatchesFilters(f, n)}),
     extraneous |-> r.extraneous]

\* FilterResult: a pair is filtered by the name its truth has.
FilterResult(f, r) ==
    [verified   |-> Kept(r.verified, {p \in Elements(r.verified) : MatchesFilters(f, p.truth)}),
     missing    |-> Kept(r.missing, {n \in Elements(r.missing) : MatchesFilters(f, n)}),
     extraneous |-> Kept(r.extraneous, {n \in Elements(r.extraneous) : MatchesFilters(f, n)})]

----------------------------------------------------------------------------
(* tableverify.go.                                                         *)

Column == [name : STRING, type : STRING, notNull : BOOLEAN,
           collation : [base : STRING, utf8 : BOOLEAN]]
TableDefinition == [pk : Seq(STRING), cols : Seq(Column)]

Family(t) ==
    CASE t \in {"int2", "int4", "int8"} -> "int"
      [] t \in {"text", "varchar"} -> "string"
      [] OTHER -> t

IsEnum(t) == t \in {"enum_a", "enum_b"}
IsEnumArray(t) == t \in {"enum_a[]", "enum_b[]"}

\* allowableTypes: not symmetric for int2 and bool.
AllowableTypes ==
    {<<"timestamp", "timestamptz">>, <<"timestamptz", "timestamp">>,
     <<"varchar", "uuid">>, <<"uuid", "varchar">>, <<"int2", "bool">>,
     <<"varbit", "text">>, <<"text", "varbit">>, <<"jsonb", "text">>,
     <<"text", "jsonb">>, <<"inet", "text">>, <<"text", "inet">>}

ComparableType(a, b) ==
    \/ a = b
    \/ IsEnum(a) /\ IsEnum(b)
    \/ IsEnumArray(a) /\ IsEnumArray(b)
    \/ /\ {a, b} \cap {"enum_a", "enum_b", "enum_a[]", "enum_b[]"} = {}
       /\ <<a, b>> \in AllowableTypes \/ Family(a) = Family(b)

\* comparableCollation: equal up to the encoding, or both Unicode.
ComparableCollation(a, b) == a.base = b.base \/ (a.utf8 /\ b.utf8)

ColumnNames(cols) == {cols[i].name : i \in DOMAIN cols}
ColumnNamed(cols, n) == cols[CHOOSE i \in DOMAIN cols : cols[i].name = n]

Note(info, condition) == IF condition THEN {info} ELSE {}

\* The columns of the truth that the target lacks are not looked for.
ExtraneousOnly(truth, target) ==
    Note("extraneous column", ~(ColumnNames(target) \subseteq ColumnNames(truth)))

\* Columns one side lacks.
UnmatchedColumns(truth, target) ==
    Note("extraneous column", ~(ColumnNames(target) \subseteq ColumnNames(truth)))
        \cup Note("missing column", ~(ColumnNames(truth) \subseteq ColumnNames(target)))

\* verifyTable, from the primary keys and columns that were read: the mismatching
\* definitions, whether rows can be compared, and the columns to compare, those
\* of the primary key first.
VerifyTable(pk, cols) ==
    LET col(s, n) == ColumnNamed(cols[s], n)
        common == ColumnNames(cols.truth) \cap ColumnNames(cols.target)
        nulls == {n \in common : col("truth", n).notNull # col("target", n).notNull}
        types == {n \in common : ~ComparableType(col("truth", n).type, col("target", n).type)}
        comparable == common \ types
        \* The loop over the key stops at the first column that differs.
        agrees(i) == pk.target[i] = pk.truth[i] /\ pk.target[i] \in comparable
        sameLength == Len(pk.truth) = Len(pk.target)
        reached == IF sameLength THEN {i \in DOMAIN pk.truth : \A j \in 1..i : agrees(j)}
                   ELSE {}
        pkSame == sameLength /\ reached = DOMAIN pk.truth
        collations == {i \in reached :
                        LET a == col("truth", pk.truth[i])
                            b == col("target", pk.truth[i])
                        IN  /\ Family(a.type) = "string" /\ Family(b.type) = "string"
                            /\ ~ComparableCollation(a.collation, b.collation)}
        inKey(n) == \E i \in DOMAIN pk.truth : pk.truth[i] = n
    IN  [definitions |->
            UnmatchedColumns(cols.truth, cols.target)
                \cup Note("no primary key", pk.truth = << >>)
                \cup Note("not null", nulls # {})
                \cup Note("type", types # {})
                \cup Note("collation", collations # {})
                \cup Note("primary key", ~pkSame /\ pk.truth # << >>),
         verifiable |-> pkSame /\ pk.truth # << >> /\ collations = {},
         pk |-> pk.truth,
         columns |-> Kept(pk.truth, comparable)
                        \o Kept([i \in DOMAIN cols.truth |-> cols.truth[i].name],
                                {n \in comparable : ~inKey(n)})]

============================================================================
