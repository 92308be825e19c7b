---------------------------- MODULE MCVerifyRun ----------------------------
(* Small instances of VerifyRun: catalogs that differ in one definition,   *)
(* catalogs with several tables and a filter, and tables that are split.   *)
EXTENDS VerifyRun, TLC

MCMinInt == -4

T(t, l) == [schema |-> 1, table |-> t, letters |-> [schema |-> l, table |-> l]]
Latin == [base |-> "latin", utf8 |-> FALSE]
English == [base |-> "en_US", utf8 |-> TRUE]
German == [base |-> "de_DE", utf8 |-> TRUE]
Col(n, t) == [name |-> n, type |-> t, notNull |-> TRUE, collation |-> English]
Def(pk, cols) == [pk |-> pk, cols |-> cols]
Plain == Def(<<"id">>, <<Col("id", "int8"), Col("v", "text")>>)

NoFilter == [schemas |-> NoPattern, tables |-> NoPattern, exSchemas |-> NoPattern, exTables |-> NoPattern]
Scenario(tables, filter, options, extremes) ==
    [tables |-> tables, filter |-> filter, extremes |-> extremes,
     filterCompiles |-> options.compiles, rows |-> options.rows, splits |-> options.splits,
     concurrency |-> options.concurrency, continuous |-> options.continuous]
Once == [compiles |-> TRUE, rows |-> TRUE, splits |-> 1, concurrency |-> 1,
         continuous |-> FALSE]

\* One table, defined differently on the two sides.
Definitions ==
    {Plain, Def(<< >>, Plain.cols), Def(<<"id", "v">>, Plain.cols), Def(<<"v">>, Plain.cols),
     Def(<<"v", "id">>, Plain.cols),
     Def(<<"id">>, <<Col("id", "int8")>>),
     Def(<<"id">>, <<Col("id", "int2"), Col("v", "jsonb")>>),
     Def(<<"id">>, <<Col("v", "text"), Col("id", "bool")>>),
     Def(<<"id">>, <<Col("id", "int8"), [Col("v", "text") EXCEPT !.notNull = FALSE]>>),
     Def(<<"v">>, <<Col("id", "int8"), [Col("v", "varchar") EXCEPT !.collation = Latin]>>),
     Def(<<"v">>, <<Col("id", "enum_a"), [Col("v", "text") EXCEPT !.collation = German]>>)}
OneTable(a, b) == [truth |-> T(1, 1) :> a, target |-> T(1, 1) :> b]
DefinitionScenarios ==
    {Scenario(OneTable(a, b), NoFilter, Once, << >>) : a \in Definitions, b \in Definitions}

\* Up to three tables on each side, one of them spelled in two ways, its schema too.
Catalogs == SUBSET {T(1, 1), T(2, 1), T(2, 2), T(3, 1)}
Filters ==
    {NoFilter,
     [NoFilter EXCEPT !.tables = {<<2, 1>>, <<3, 1>>}],
     [NoFilter EXCEPT !.exTables = {<<1, 1>>}],
     [NoFilter EXCEPT !.schemas = {<<1, 2>>}]}
CatalogScenarios ==
    {Scenario([truth |-> [n \in a |-> Plain], target |-> [n \in b |-> Plain]], f,
              [Once EXCEPT !.concurrency = 2], << >>) :
        a \in {c \in Catalogs : Cardinality(c) <= 2},
        b \in {c \in Catalogs : Cardinality(c) <= 3}, f \in Filters}

\* One table that is split on each kind of key.
Keyed(type) ==
    LET d == Def(<<"id">>, <<Col("id", type)>>) IN OneTable(d, d)
Pairs(s) == {<< >>} \cup (s \X s)
SplitScenarios ==
    UNION {{Scenario(Keyed(k[1]), NoFilter, [Once EXCEPT !.splits = n], e) : e \in Pairs(k[2])} :
                k \in {<<"int8", MinInt..MaxInt>>, <<"uuid", 0..(MaxInt - MinInt)>>,
                       <<"float8", {NaN} \cup (-1..3)>>, <<"text", {1}>>},
                n \in {0, 1, 2, 3}}

\* Options: continuous mode, more workers than shards, no rows, a bad pattern.
TwoTables == LET d == [n \in {T(1, 1), T(2, 1)} |-> Plain]
             IN  [truth |-> d, target |-> d]
OptionScenarios ==
    {Scenario(TwoTables, NoFilter, o, <<0, 3>>) :
        o \in {[Once EXCEPT !.splits = 2, !.concurrency = c] : c \in {0, 1, 2}}
              \cup {[Once EXCEPT !.continuous = TRUE, !.concurrency = c] : c \in {0, 1}}
              \cup {[Once EXCEPT !.rows = FALSE], [Once EXCEPT !.compiles = FALSE]}}

MCScenarios ==
    DefinitionScenarios \cup CatalogScenarios \cup SplitScenarios \cup OptionScenarios
============================================================================
