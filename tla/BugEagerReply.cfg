CONSTANTS
    Parties = {p1, p2, p3}
    Everyone = Everyone
    Lockstep = FALSE
SPECIFICATION Spec
INVARIANT DuplicatesAreReal
CHECK_DEADLOCK FALSE
