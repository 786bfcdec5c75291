SPECIFICATION FairSpec
CONSTANTS
    Parties = {p1, p2}
    Everyone = Everyone
    FirstRound = 1
    LastRound = 2
    BroadcastRounds = {1, 2}
    P2pRounds = {}
    Accumulates = FALSE
    MayAbort = FALSE
    MaxRounds <- AmpleRounds
    MaxRetries = 0
    Ordered = TRUE
    OneMessagePerReceive = FALSE
    EmptyReceives = TRUE
    MayTimeout = TRUE
    MaxFailures = 0
    MaxStrays = 0
    MaxCrashes = 1
PROPERTY EverySessionReturns
