SPECIFICATION FairSpec
CONSTANTS
    Clients = {c1}
    Direct = {}
    Onion = {}
    Nested = {n1, n2}
    Methods = {getLatestBlockhash}
    OwnShard = {}
    Intercepted = {}
    Cached = {}
    Unverified = {getLatestBlockhash}
    MaxConcurrent = 2
    Limit = 2
    MaxSeen = 1
    MaxFalls = 1
PROPERTY
    EveryRequestAnswered
