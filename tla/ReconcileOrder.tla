--------------------------- MODULE ReconcileOrder ---------------------------
(***************************************************************************)
(* ReconcileOrder::from_schema: the order in which a reconcile pass upserts *)
(* the selected tables (parents before children) and the reverse order in  *)
(* which it deletes from them, computed from the foreign keys by repeatedly *)
(* taking the first table that waits for no other.  Tables are represented *)
(* by their index in selected_tables, as in the code.                      *)
(***************************************************************************)
EXTENDS Integers, Sequences, FiniteSetsExt

CONSTANTS
    Table,      \* the tables of the destination database
    Inputs      \* the lists of selected tables and the schemas to plan for:
                \* a schema gives, for each table, the tables it references

ASSUME InputAssumption ==
    \A in \in Inputs :
        /\ in.selected \in Seq(Table)
        /\ \A i, j \in DOMAIN in.selected :
              in.selected[i] = in.selected[j] => i = j
        /\ in.schema \in [DOMAIN in.schema -> SUBSET Table]

VARIABLES
    selected,     \* selected_tables
    schema,       \* the validated schema
    pc,           \* "collect", "loop", then "ok", "missing" or "cycle"
    edges,        \* (parent, child) pairs
    indegree,     \* parents not yet in upsertOrder, per table
    ready,        \* the sorted Vec of tables that wait for none
    upsertOrder,  \* the order so far
    reported      \* the tables a DependencyCycle error names

vars == <<selected, schema, pc, edges, indegree, ready, upsertOrder, reported>>

Index == DOMAIN selected

\* The tables already ordered.
Placed == {upsertOrder[k] : k \in DOMAIN upsertOrder}

\* A foreign key counts if it references a selected table; a second key
\* between the same tables adds nothing.
ForeignKeyEdges ==
    {e \in Index \X Index : selected[e[1]] \in schema[selected[e[2]]]}

ParentsOf(c) == {p \in Index : <<p, c>> \in edges}
ChildrenOf(p) == {c \in Index : <<p, c>> \in edges}

\* MissingValidatedTable: a selected table is not in the schema.
TableMissing ==
    /\ pc = "collect"
    /\ \E i \in Index : selected[i] \notin DOMAIN schema
    /\ pc' = "missing"
    /\ UNCHANGED <<selected, schema, edges, indegree, ready, upsertOrder, reported>>

\* A table's reference to itself is not counted as a parent.
CollectSkippingSelf ==
    /\ pc = "collect"
    /\ \A i \in Index : selected[i] \in DOMAIN schema
    /\ edges' = ForeignKeyEdges
    /\ indegree' = [c \in Index |-> Cardinality({p \in Index \ {c} : <<p, c>> \in edges'})]
    /\ ready' = {c \in Index : indegree'[c] = 0}
    /\ pc' = "loop"
    /\ UNCHANGED <<selected, schema, upsertOrder, reported>>

\* The first loop: edges, indegrees and the tables ready at once.
CollectEdges ==
    /\ pc = "collect"
    /\ \A i \in Index : selected[i] \in DOMAIN schema
    /\ edges' = ForeignKeyEdges
    /\ indegree' = [c \in Index |-> Cardinality({p \in Index : <<p, c>> \in edges'})]
    /\ ready' = {c \in Index : indegree'[c] = 0}
    /\ pc' = "loop"
    /\ UNCHANGED <<selected, schema, upsertOrder, reported>>

\* The last of the ready tables.
LastReady == Max(ready)

\* ready is sorted: its first element is the smallest index.
NextIndex == Min(ready)

\* The children of a table lose it as a parent ...
Released(i) ==
    [c \in Index |-> IF c \in ChildrenOf(i) THEN indegree[c] - 1 ELSE indegree[c]]

\* Children are ready as soon as one of their parents is placed.
ReadyEarly(i) == (ready \ {i}) \cup ChildrenOf(i)

\* ... and become ready when it was the last one.
ReadyAfter(i) ==
    (ready \ {i}) \cup {c \in ChildrenOf(i) : Released(i)[c] = 0}

\* One iteration of the while loop.
PlaceNext ==
    /\ pc = "loop"
    /\ ready # {}
    /\ LET i == NextIndex
       IN  /\ upsertOrder' = Append(upsertOrder, i)
           /\ indegree' = Released(i)
           /\ ready' = ReadyAfter(i)
    /\ UNCHANGED <<selected, schema, pc, edges, reported>>

\* Every table is blamed for a cycle.
FinishBlamingAll ==
    /\ pc = "loop"
    /\ ready = {}
    /\ pc' = IF Len(upsertOrder) = Len(selected) THEN "ok" ELSE "cycle"
    /\ reported' = IF Len(upsertOrder) = Len(selected) THEN {} ELSE Index
    /\ UNCHANGED <<selected, schema, edges, indegree, ready, upsertOrder>>

\* Nothing is ready: either every table is placed, or the others wait for each
\* other and are reported.
Finish ==
    /\ pc = "loop"
    /\ ready = {}
    /\ pc' = IF Len(upsertOrder) = Len(selected) THEN "ok" ELSE "cycle"
    /\ reported' = IF Len(upsertOrder) = Len(selected) THEN {}
                   ELSE {c \in Index : indegree[c] > 0}
    /\ UNCHANGED <<selected, schema, edges, indegree, ready, upsertOrder>>

Init ==
    /\ \E in \in Inputs : selected = in.selected /\ schema = in.schema
    /\ pc = "collect"
    /\ edges = {}
    /\ indegree = [c \in DOMAIN selected |-> 0]
    /\ ready = {}
    /\ upsertOrder = << >>
    /\ reported = {}

Next == TableMissing \/ CollectEdges \/ PlaceNext \/ Finish

Spec == Init /\ [][Next]_vars

----------------------------------------------------------------------------
(* The inductive strengthening the proofs use.                             *)

\* The loop's bookkeeping: an indegree counts the parents still to be placed,
\* ready holds exactly the unplaced tables that wait for none, no table is
\* placed twice, and each was placed after its parents.
LoopInv ==
    /\ pc = "collect" => upsertOrder = << >>
    /\ pc \in {"loop", "ok", "cycle"} =>
          /\ edges = ForeignKeyEdges
          /\ \A c \in Index : indegree[c] = Cardinality(ParentsOf(c) \ Placed)
          /\ ready = {c \in Index : indegree[c] = 0} \ Placed
          /\ Cardinality(Placed) = Len(upsertOrder)
          /\ \A k \in DOMAIN upsertOrder :
                ParentsOf(upsertOrder[k]) \subseteq {upsertOrder[m] : m \in 1..(k - 1)}
    /\ pc = "ok" => Len(upsertOrder) = Len(selected)
    /\ pc = "cycle" =>
          /\ ready = {}
          /\ Len(upsertOrder) # Len(selected)
          /\ reported = {c \in Index : indegree[c] > 0}

----------------------------------------------------------------------------
(* Properties.                                                             *)

\* Types; an indegree never goes below zero (usize).
TypeOK ==
    /\ selected \in Seq(Table)
    /\ schema \in [DOMAIN schema -> SUBSET Table]
    /\ pc \in {"collect", "loop", "ok", "missing", "cycle"}
    /\ edges \subseteq Index \X Index
    /\ indegree \in [Index -> Nat]
    /\ ready \subseteq Index
    /\ upsertOrder \in Seq(Index)
    /\ reported \subseteq Index

\* The reference: tables can be ranked so that every parent precedes its
\* children.  A table that references itself cannot.
Acyclic(E) ==
    \E rank \in [Index -> Index] : \A e \in E : rank[e[1]] < rank[e[2]]

\* A successful plan contains each selected table once and every selected
\* parent before its children: the order DestinationSql assumes.
OrderIsTopological ==
    pc = "ok" =>
        /\ Placed = Index
        /\ Len(upsertOrder) = Len(selected)
        /\ \A e \in ForeignKeyEdges : \E k, l \in DOMAIN upsertOrder :
              upsertOrder[k] = e[1] /\ upsertOrder[l] = e[2] /\ k < l

\* A cycle is reported only if there is one, and a reported table waits for a
\* reported one: the message never blames a table for an orderly parent.
CycleIsReal ==
    pc = "cycle" =>
        /\ ~Acyclic(ForeignKeyEdges)
        /\ reported # {}
        /\ \A c \in reported : \E p \in reported : <<p, c>> \in ForeignKeyEdges

\* The order is the same for the same selection: at every position stands the
\* first selected table whose parents all stand before it.
EarliestFirst ==
    \A k \in DOMAIN upsertOrder :
        LET before == {upsertOrder[m] : m \in 1..(k - 1)}
        IN  \A c \in Index \ before :
               ParentsOf(c) \subseteq before => upsertOrder[k] <= c
============================================================================
