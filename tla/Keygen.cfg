CONSTANTS
    Q = 5
    T = 2
    Parties <- MCParties
    Quorum <- MCParties
    Dealt <- MCDealt
    Sharings = {}
    Digests = {0}
    Scalars = {1, 4}
    Bends = {0, 2}
    PaillierN = 53
    WideN = 78137
    Masks = {7, 24, 40}
    Blinds = {4}
SPECIFICATION Spec
INVARIANTS SharesOfOneKey EncryptedKeysFit AllOrNobody
PROPERTIES HonestRunCompletes
CHECK_DEADLOCK FALSE
