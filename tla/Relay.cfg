SPECIFICATION RelayFairSpec
CONSTANTS
    Starts = {s1, s2}
    Callers = {c1, c2, c3}
    ChannelLen = 1
    MaxConcurrent = 1
INVARIANTS
    OneLoop
    StopIsPrompt
PROPERTY
    ForwardReturns
CHECK_DEADLOCK FALSE
