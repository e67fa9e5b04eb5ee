\* Everything the pipeline does: client puts and deletes, reloads, watch
\* responses of one or two events, a DNS self-test lookup that may fail,
\* etcd requests of the load that may fail; and the dns_lookup client
\* asking for the daemon's own names.
CONSTANTS
    a = a
    v1 = v1
    v2 = v2
    HttpSvc = HttpSvc
    DnsSvc = DnsSvc
    FakeSvc = FakeSvc
    SelfVal = SelfVal
    FakeVal = FakeVal
    Absent = Absent
    ClientSvcs <- MC_ClientSvcs1
    Values <- MC_Values
    MaxWrites = 2
    MaxLoads = 2
    MaxBatch = 2
    ClientDeletes = TRUE
    LookupMayFail = TRUE
    StoreMayFail = TRUE
SPECIFICATION DemoSpec
INVARIANT TypeOK
INVARIANT LookupSucceedsAfterLoad
CHECK_DEADLOCK FALSE
