CONSTANTS
    c1 = c1
    c2 = c2
    c3 = c3
    f1 = f1
    NoId = NoId
    Ids <- MC_Ids
    Foreign <- MC_Foreign
    MaxRuns = 4
    ListMayFail = TRUE
SYMMETRY MC_Symmetry
SPECIFICATION Spec
INVARIANTS ContainerStartSucceeds AtMostOneLeftover
CHECK_DEADLOCK FALSE
