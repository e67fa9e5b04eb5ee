CONSTANTS
    Garbage = Garbage
    Manifests <- MC_SafeManifests
    Missing <- MC_NoRole
    MaxEdits = 3
    ReadMayFail = TRUE
    StoreFaults = FALSE
    DnsSlow = FALSE
    RegisterMayFail = FALSE
    ConfigFaults = FALSE
SPECIFICATION Spec
INVARIANT TypeOK
CHECK_DEADLOCK FALSE
