SPECIFICATION FairSpec
CONSTANTS
    Sessions = {t1, t2}
    Inits = {i1, i2}
    Setters = {r1, r2}
    States = {0, 7}
    QueueLen = 2
    MaxOpen = 1
INVARIANTS
    CopiesAgree
    RunningHasANode
    PeerCountCovers
PROPERTIES
    FirstNodeStays
    DuplicatesEnd
    FullChannelDrains
CHECK_DEADLOCK FALSE
