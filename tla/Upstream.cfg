SPECIFICATION PathFairSpec
CONSTANTS
    Handlers = {h1, h2}
    Threshold = 2
    Recovery = 2
    MaxHold = 1
    MaxFailures = 3
    Nodes = {u1, u2}
    Ttl = 2
    Timeout = 1
    MaxBefore = 1
    TickMs = 5
INVARIANTS
    TypeOK
    OpenWhenSettled
    ServedIsFresh
    AverageBounded
PROPERTIES
    NeverStuckOpen
    FreshLostToStaleReaderOnly
