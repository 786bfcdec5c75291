CONSTANTS
    Q = 5
    T = 2
    Parties <- MCParties
    Quorum <- MCQuorum
    Dealt = {}
    Sharings <- MCSharings
    Digests = {4}
    Scalars = {1, 4}
    Bends = {0, 2}
    PaillierN = 53
    WideN = 78137
    Masks = {7, 24, 40}
    Blinds = {4}
SPECIFICATION Spec
INVARIANTS PresignaturesFit NothingRevealedInVain RefusedForAReason
PROPERTIES IsIdealEcdsa EverySignerAnswered
CHECK_DEADLOCK FALSE
