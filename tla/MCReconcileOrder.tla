-------------------------- MODULE MCReconcileOrder --------------------------
(* All foreign-key graphs over three selected tables and one that is not,  *)
(* and all graphs over four selected tables.                               *)
EXTENDS ReconcileOrder

CONSTANTS t1, t2, t3, t4

\* Three selected tables, all of them or only some in the schema.
MCThree ==
    {[selected |-> <<t1, t2, t3>>, schema |-> g] :
        g \in UNION {[T -> SUBSET Table] : T \in SUBSET {t1, t2, t3}}}

\* Four selected tables.
MCFour ==
    {[selected |-> <<t1, t2, t3, t4>>, schema |-> g] : g \in [Table -> SUBSET Table]}

MCInputs == MCThree \cup MCFour
============================================================================
