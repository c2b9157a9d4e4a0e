SPECIFICATION Spec
CONSTANTS
    Clients = {c1, c2}
    Direct = {c2}
    Onion = {c1}
    Nested = {n1, n2}
    Methods = {getSlot, getTokenSupply}
    OwnShard = {getSlot}
    Intercepted = {getSlot}
    Cached = {getSlot, getTokenSupply}
    Unverified = {getSlot}
    MaxConcurrent = 2
    Limit = 1
    MaxSeen = 1
    MaxFalls = 1
INVARIANTS
    PermitsConserved
    PaidPerAttempt
    GridlockTakesWindows
SYMMETRY Symmetry
