SPECIFICATION Spec
CONSTANTS
    p1 = p1  p2 = p2  c1 = c1  parent = parent  child = child  a = a  b = b
    Absent = Absent
    Table = {parent, child}
    Row = {p1, p2, c1}
    TableOf <- MCTableOf
    ValOf <- MCValOf
    UniqueTable = {}
    UpsertOrder <- MCUpsertOrder
    InitialReal <- MCInitialReal
    InitialLog <- MCInitialLog
    MaxLog = 3
    MaxBatch = 2
    MaxFaults = 2
    MaxLate = 1
INVARIANTS TypeOK UntouchedRowsExact QuietPassAccepted TrackingAgrees
PROPERTY WatermarksMonotone
