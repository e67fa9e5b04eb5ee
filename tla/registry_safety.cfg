\* Three concurrent handler goroutines on one service.
CONSTANTS
    c1 = c1
    c2 = c2
    c3 = c3
    s1 = s1
    s2 = s2
    t1 = t1
    t2 = t2
    Absent = Absent
    Clients <- MC_Clients3
    Services = {s1}
    Targets <- MC_Targets
    Ports <- MC_Ports
    ClientAddr <- MC_ClientAddr
    Bodies <- MC_Bodies
SPECIFICATION Spec
INVARIANT TypeOK
INVARIANT NoDuplicateEndpoints
INVARIANT NoEmptyRecordSet
