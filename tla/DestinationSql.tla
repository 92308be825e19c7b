--------------------------- MODULE DestinationSql ---------------------------
(***************************************************************************)
(* What the SQL issued by the runner does to the PostgreSQL destination:   *)
(* the row mutations the webhook applies to the helper shadow tables, and  *)
(* the two set-based statements per table a reconcile pass executes on the *)
(* real tables, with the constraints PostgreSQL checks on them.            *)
(*                                                                         *)
(* A database state is a function from rows to values.  A row stands for a *)
(* table together with one primary-key value; its value stands for the     *)
(* remaining columns.  A value that is itself a row is a foreign-key       *)
(* reference to that row.                                                  *)
(***************************************************************************)
EXTENDS Integers, Sequences, FiniteSetsExt

CONSTANTS
    Table,        \* the tables one mapping selects
    Row,          \* (table, primary key) pairs
    TableOf,      \* the table of each row
    ValOf,        \* the values each row may hold
    Absent,       \* the value of a row that does not exist
    UniqueTable,  \* tables with a secondary UNIQUE index over the whole value
    UpsertOrder   \* ReconcileOrder.upsert_order: parents before children

Val == UNION {ValOf[r] : r \in Row}

\* Position of a table in the upsert order.
Pos(t) == CHOOSE i \in DOMAIN UpsertOrder : UpsertOrder[i] = t

ASSUME SchemaAssumption ==
    /\ TableOf \in [Row -> Table]
    /\ DOMAIN ValOf = Row
    /\ Absent \notin Row
    /\ \A r \in Row : Absent \notin ValOf[r]
    /\ UniqueTable \subseteq Table

\* What ReconcileOrder::from_schema delivers when it does not report a
\* dependency cycle: each selected table once, and every foreign key points
\* to a table earlier in the order.
ASSUME OrderAssumption ==
    /\ UpsertOrder \in Seq(Table)
    /\ UpsertOrder # << >>
    /\ \A t \in Table : \E i \in DOMAIN UpsertOrder : UpsertOrder[i] = t
    /\ \A i, j \in DOMAIN UpsertOrder : UpsertOrder[i] = UpsertOrder[j] => i = j
    /\ \A r \in Row : \A p \in ValOf[r] \cap Row :
          Pos(TableOf[p]) < Pos(TableOf[r])

\* All database states: every row absent or holding one of its values.
Database == {db \in [Row -> Val \cup {Absent}] :
               \A r \in Row : db[r] = Absent \/ db[r] \in ValOf[r]}

EmptyDatabase == [r \in Row |-> Absent]

----------------------------------------------------------------------------
(* Constraints of the real tables.                                         *)

\* Every foreign-key reference held by a row points to an existing row.
ForeignKeysHold(db) == \A r \in Row : db[r] \in Row => db[db[r]] # Absent

\* No two rows of a table with a secondary UNIQUE index share their value.
UniqueHolds(db) ==
    \A q, r \in Row :
        /\ q # r
        /\ TableOf[q] = TableOf[r]
        /\ TableOf[r] \in UniqueTable
        /\ db[r] # Absent
        => db[q] # db[r]

ConstraintsHold(db) == ForeignKeysHold(db) /\ UniqueHolds(db)

----------------------------------------------------------------------------
(* The statements of a reconcile pass.                                     *)

\* A pass that forgets the rows already present: ON CONFLICT DO NOTHING.
UpsertDoNothing(real, shadow, t) ==
    [r \in Row |-> IF TableOf[r] = t /\ shadow[r] # Absent /\ real[r] = Absent
                   THEN shadow[r] ELSE real[r]]

\* The SELECT reads the helper table of another table.
UpsertFromOtherHelper(real, shadow, t) ==
    [r \in Row |-> LET others == {q \in Row : TableOf[q] # t /\ shadow[q] # Absent}
                   IN  IF TableOf[r] = t /\ others # {}
                       THEN shadow[CHOOSE q \in others : TRUE] ELSE real[r]]

\* INSERT INTO real SELECT * FROM shadow ON CONFLICT (pk) DO UPDATE.
UpsertStatement(real, shadow, t) ==
    [r \in Row |-> IF TableOf[r] = t /\ shadow[r] # Absent
                   THEN shadow[r] ELSE real[r]]

\* A pass that never deletes.
DeleteNothing(real, shadow, t) == real

\* DELETE FROM real WHERE NOT EXISTS (the same primary key in shadow).
DeleteStatement(real, shadow, t) ==
    [r \in Row |-> IF TableOf[r] = t /\ shadow[r] = Absent
                   THEN Absent ELSE real[r]]

\* A UNIQUE index is checked row by row while the INSERT runs, in the order
\* the shadow table is scanned: a value that another row gives up in the same
\* statement is refused when that row comes later in the scan.
UpsertMayCollide(real, shadow, t) ==
    /\ t \in UniqueTable
    /\ \E q, r \in Row :
          /\ q # r
          /\ TableOf[q] = t
          /\ TableOf[r] = t
          /\ shadow[r] # Absent
          /\ real[q] = shadow[r]

============================================================================
