SPECIFICATION SrcFairSpec
CONSTANTS
    Threads = {t1, t2}
    steady = steady
    lossy = lossy
    mixed = mixed
    spare = spare
    Keys = {steady, lossy, mixed, spare}
    Results <- MCResults
    Kinds <- MCKinds
    Alt <- MCAlt
    Malformed = {spare}
    LossyKeys = {lossy}
    PanicKeys = {mixed}
    FetchFails = TRUE
    None = None
    Nil = Nil
    Err = Err
INVARIANTS SrcTypeOK OneRunnerPerKey WaiterHasRunner FlightHasLeader
           OneFetchPerBlob PutsKeptApart WarmedIsStored GetYieldsOwnBlob
PROPERTIES NoRefetch EveryRequestAnswered ImplementsMutex
CHECK_DEADLOCK FALSE
