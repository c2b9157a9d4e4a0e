SPECIFICATION Spec
CONSTANTS
    Peers = {p1}
    InitialScore = 5
    MaxScore = 6
    ConnectBonus = 1
    RelayBonus = 2
    FailPenalty = 2
    ViolationPenalty = 3
    BanAfter = 3
    BanSecs = 2
    IdleSecs = 2
    MaxPerPeer = 2
    MaxTime = 4
    MaxPause = 1
INVARIANTS
    ExhaustedNeedsBoth
    AbortNeedsARace
PROPERTY BanEndsEarly
CHECK_DEADLOCK FALSE
