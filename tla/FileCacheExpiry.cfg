SPECIFICATION FairSpec
CONSTANTS
    Threads = {t1, t2}
    Keys = {k1}
    Blobs = {1, 2}
    Cap = 2
    TTL = 0
    MaxTime = 1
    MaxCrashes = 1
    MaxPuts = 2
    DiskFaults = TRUE
    PutsSerialised = TRUE
    None = None
    Garbled = Garbled
INVARIANTS NoTornRead EntriesWhole
PROPERTIES ImplementsStore EveryCallEnds
CHECK_DEADLOCK FALSE
