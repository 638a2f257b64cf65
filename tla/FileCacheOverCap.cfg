SPECIFICATION Spec
CONSTANTS
    Threads = {t1, t2}
    Keys = {k1, k2}
    Blobs = {1, 2}
    Cap = 3
    TTL = 0
    MaxTime = 1
    MaxCrashes = 0
    MaxPuts = 4
    DiskFaults = FALSE
    PutsSerialised = TRUE
    None = None
    Garbled = Garbled
SYMMETRY Symmetry
INVARIANTS CapRespected
CHECK_DEADLOCK FALSE
