SPECIFICATION FairSpec
CONSTANTS
    p1 = p1  p2 = p2  c1 = c1  parent = parent  child = child  a = a  b = b
    Absent = Absent
    Table = {parent, child}
    Row = {p1, p2, c1}
    TableOf <- MCTableOf
    ValOf <- MCValOf
    UniqueTable = {parent}
    UpsertOrder <- MCUpsertOrder
    InitialReal <- MCEmptyReal
    InitialLog <- MCParentLog
    MaxLog = 3
    MaxBatch = 2
    MaxFaults = 0
    MaxLate = 0
PROPERTY CorrectShadowReachesReal
