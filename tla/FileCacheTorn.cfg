SPECIFICATION Spec
CONSTANTS
    Threads = {t1, t2, t3}
    Keys = {k1}
    Blobs = {1, 2}
    Cap = 3
    TTL = 2
    MaxTime = 0
    MaxCrashes = 0
    MaxPuts = 2
    DiskFaults = FALSE
    PutsSerialised = FALSE
    None = None
    Garbled = Garbled
SYMMETRY Symmetry
INVARIANTS NoTornRead
CHECK_DEADLOCK FALSE
