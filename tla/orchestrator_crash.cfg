CONSTANTS
    Garbage = Garbage
    Manifests <- MC_Full
    Missing <- MC_NoHttpFile
    MaxEdits = 1
    ReadMayFail = FALSE
    StoreFaults = TRUE
    DnsSlow = TRUE
    RegisterMayFail = FALSE
    ConfigFaults = TRUE
SPECIFICATION Spec
INVARIANT NoCrash
CHECK_DEADLOCK FALSE
