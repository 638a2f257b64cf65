SPECIFICATION FairSpec
CONSTANTS
    Workers = {w1, w2}
    Handlers = {c1, c2}
    Keys = {k1}
    PanicKeys = {k1}
    Scopes = {win}
    NoScope = NoScope
    Gens = {1, 2}
    QueueSize = 1
    MaxItems = 1
    MaxRequests = 2
    None = None
INVARIANTS TypeOK PartsOutliveWorkers
PROPERTIES NoOlderStarts CloseReturns QueueDrains
CHECK_DEADLOCK FALSE
