SPECIFICATION LoopSpec
CONSTANTS
    InitialReward = 12
    HalvingInterval = 3
    Word = 40
INVARIANTS
    PaysSchedule
PROPERTY
    EndsAsSummarised
CHECK_DEADLOCK FALSE
