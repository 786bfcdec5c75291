SPECIFICATION MCSpec
CONSTANTS
    Parties = {p1, p2, p3}
    Pair = {p1, p2}
    Everyone = Everyone
INVARIANTS TypesOK LockstepHears LockstepInStep LockstepCapIsEnough
    RoundSentBeforeLeft DuplicatesAreReal
PROPERTIES LockstepRefinesBarrier EveryoneCompletes EverySessionReturns
