SPECIFICATION Spec
CONSTANTS
    Parties = {p1, p2, p3}
    Everyone = Everyone
    FirstRound = 1
    LastRound = 2
    BroadcastRounds = {1}
    P2pRounds = {2}
    Accumulates = FALSE
    MayAbort = TRUE
    MaxRounds <- AmpleRounds
    MaxRetries = 1
    Ordered = FALSE
    OneMessagePerReceive = FALSE
    EmptyReceives = TRUE
    MayTimeout = TRUE
    MaxFailures = 1
    MaxStrays = 1
    MaxCrashes = 1
CONSTRAINT OneFault
SYMMETRY Symmetry
INVARIANTS TypeOK NoRejection DoneHeardEveryone NothingStranded NothingDiscarded DuplicatesAreReal
PROPERTY RefinesBarrier
