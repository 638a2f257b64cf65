SPECIFICATION Spec
CONSTANTS
    Threads = {t1, t2}
    Keys = {k1, k2}
    Blobs = {1, 2}
    Cap = 3
    TTL = 1
    MaxTime = 1
    MaxCrashes = 1
    MaxPuts = 3
    DiskFaults = FALSE
    PutsSerialised = TRUE
    None = None
    Garbled = Garbled
SYMMETRY Symmetry
INVARIANTS TypeOK CountersExact CapRespected
PROPERTIES RebuildExact KeepsWhatFits
CHECK_DEADLOCK FALSE
