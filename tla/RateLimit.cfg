SPECIFICATION RateSpec
CONSTANTS
    Ips = {ip1}
    Limit = 1
    BanLimit = 2
    Window = 2
    IdleSecs = 3
    BanSecs = 3
    MaxTime = 6
    MaxPause = 1
    Workers = {h1, h2}
INVARIANTS
    BurstBound
PROPERTY
    BanLostToStaleReadOnly
CHECK_DEADLOCK FALSE
