SPECIFICATION SrcSpec
CONSTANTS
    Threads = {t1, t2, t3}
    steady = steady
    lossy = lossy
    mixed = mixed
    spare = spare
    Keys = {steady}
    Results <- MCResults
    Kinds <- MCKinds
    Alt <- MCAlt
    Malformed = {}
    LossyKeys = {}
    PanicKeys = {}
    FetchFails = FALSE
    None = None
    Nil = Nil
    Err = Err
SYMMETRY Symmetry
INVARIANTS GetYieldsBlob
