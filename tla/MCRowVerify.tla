---------------------------- MODULE MCRowVerify ----------------------------
(* Small instances of RowVerify.  The non-key columns are a bool compared  *)
(* with an int, and a bit string allow-listed beside a text, which verify  *)
(* cannot compare unless one of the two is NULL.                           *)
EXTENDS RowVerify

Datum(f, v) == [fam |-> f, val |-> v]
Null == Datum("null", 0)
R1 == <<Datum("bool", 1), Datum("bits", 1)>>
R2 == <<Datum("bool", 1), Null>>
Q1 == <<Datum("int", 1), Datum("string", 1)>>
Q2 == <<Datum("int", 1), Null>>
MCRows == [truth |-> {R1, R2}, target |-> {Q1, Q2}]

\* Keys 1..3 are the shard, key 4 belongs to the next one and is there on the
\* target only.
MCKeys == 1..4
MCContents ==
    {d \in Database :
        /\ d.truth[1] # R1 /\ d.target[1] # Absent
        /\ \A k \in {2, 3} : d.truth[k] # R2 /\ d.target[k] # Q2
        /\ d.truth[2] # Absent
        /\ d.truth[4] = Absent /\ d.target[4] = Q2}
============================================================================
