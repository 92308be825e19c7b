----------------------------- MODULE MCPipeline -----------------------------
(* Small instances of Pipeline: a parent table with one or two rows and a  *)
(* child table with one row that references a parent.                      *)
EXTENDS Pipeline

CONSTANTS p1, p2, c1, parent, child, a, b

Parents == Row \cap {p1, p2}

MCTableOf == [r \in Row |-> IF r \in Parents THEN parent ELSE child]

\* One value for a parent: present or not.
MCValOf == [r \in Row |-> IF r \in Parents THEN {a} ELSE Parents]

\* Two values for a parent.
MCTwoValOf == [r \in Row |-> IF r \in Parents THEN {a, b} ELSE Parents]

MCUpsertOrder == <<parent, child>>

MCEmptyReal == {[r \in Row |-> Absent]}

\* Real tables left empty, or holding two parents and a child of the second:
\* the first pass has rows to update and to delete.
MCInitialReal ==
    MCEmptyReal \cup {[r \in Row |-> IF r \in Parents THEN a ELSE p2]}

\* The initial scan finds a parent, or a parent and its child.
MCParentLog == {<<[row |-> p1, val |-> a]>>}
MCInitialLog == {<<[row |-> p1, val |-> a], [row |-> c1, val |-> p1]>>}
============================================================================
