\* Puts only, two loads: where the callback writes after a reload.
CONSTANTS
    a = a
    b = b
    v1 = v1
    v2 = v2
    HttpSvc = HttpSvc
    DnsSvc = DnsSvc
    FakeSvc = FakeSvc
    SelfVal = SelfVal
    FakeVal = FakeVal
    Absent = Absent
    ClientSvcs <- MC_ClientSvcs1
    Values <- MC_Values
    MaxWrites = 3
    MaxLoads = 2
    MaxBatch = 2
    ClientDeletes = FALSE
    LookupMayFail = FALSE
    StoreMayFail = FALSE
CHECK_DEADLOCK FALSE
SPECIFICATION Spec
PROPERTY UpdatesReachServedZone
