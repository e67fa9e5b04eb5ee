\* Client puts and deletes, one load, a DNS self-test lookup that may fail.
CONSTANTS
    a = a
    b = b
    v1 = v1
    v2 = v2
    HttpSvc = HttpSvc
    DnsSvc = DnsSvc
    FakeSvc = FakeSvc
    SelfVal = SelfVal
    FakeVal = FakeVal
    Absent = Absent
    ClientSvcs <- MC_ClientSvcs1
    Values <- MC_Values
    MaxWrites = 3
    MaxLoads = 1
    MaxBatch = 2
    ClientDeletes = TRUE
    LookupMayFail = TRUE
    StoreMayFail = FALSE
CHECK_DEADLOCK FALSE
SPECIFICATION FairSpec
PROPERTY ZoneMatchesStore
