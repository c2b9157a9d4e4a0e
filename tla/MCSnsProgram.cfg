SPECIFICATION Spec
CONSTANTS
    Owners = {o1, o2}
    Admin = admin
    BatchIds = {b1, b2}
    Mints = {solnet, other}
    SolnetMint = solnet
    Bumps = {253, 255}
    CanonicalBump = 255
    InitialReward = 2
    HalvingInterval = 2
    Word = 15
    MinStake = 4
    MinPriority = 3
    RentMin = 1
    StartingLamports = 4
    MaxFunded = 6
    ForeignTokens = 3
    StakeArgs = {3, 4}
    LamportArgs = {2, 4}
    CountArgs = {3}
    TokenArgs = {2, 3}
INVARIANTS
    TypeOK
    ActiveIffReputable
    EscrowAccounted
    StakeCovered
    SupplyIsBacked
PROPERTIES
    EscrowOutflow
SYMMETRY Symmetry
CHECK_DEADLOCK FALSE
