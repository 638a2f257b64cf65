SPECIFICATION FairSpec
CONSTANTS
    Workers = {w1}
    Handlers = {c1}
    Keys = {k1}
    PanicKeys = {}
    Scopes = {win}
    NoScope = NoScope
    Gens = {1}
    QueueSize = 2
    MaxItems = 2
    MaxRequests = 2
    None = None
PROPERTIES NegativeRemembered
CHECK_DEADLOCK FALSE
