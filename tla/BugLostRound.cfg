SPECIFICATION Spec
CONSTANTS
    Parties = {p1, p2, p3}
    Everyone = Everyone
    FirstRound = 1
    LastRound = 2
    BroadcastRounds = {1, 2}
    P2pRounds = {2}
    Accumulates = FALSE
    MayAbort = FALSE
    MaxRounds <- AmpleRounds
    MaxRetries = 0
    Ordered = TRUE
    OneMessagePerReceive = FALSE
    EmptyReceives = FALSE
    MayTimeout = TRUE
    MaxFailures = 0
    MaxStrays = 0
    MaxCrashes = 0
INVARIANTS RoundSentBeforeLeft
