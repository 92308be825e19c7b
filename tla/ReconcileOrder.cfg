SPECIFICATION Spec
CONSTANTS
    t1 = t1  t2 = t2  t3 = t3  t4 = t4
    Table = {t1, t2, t3, t4}
    Inputs <- MCInputs
INVARIANTS TypeOK OrderIsTopological CycleIsReal EarliestFirst
CHECK_DEADLOCK FALSE
