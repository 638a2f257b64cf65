SPECIFICATION FairSpec
CONSTANTS
    Callers = {t1, t2, t3}
    MaxDials = 2
    MaxFaults = 4
    Nobody = Nobody
INVARIANTS TypeOK OwnAnswer WireIsClean
PROPERTIES EveryQueryReturns
