CONSTANTS
    Q = 5
    Discs <- MCDiscs
    RaisedTo <- MCExponents
    Operands = 40
    HeadBits = 3
    HgcdBits = 3
    HgcdGap = 2
    CombBlocks = 2
    NafWidth = 3
    Setups <- MCSetups
    Samples = {0, 1, 2, 5}
    MtaN = 400001
    MtaMasks = {0, 7, 24}
    MtaInputs = {0, 1, 3, 4}
    JlPrimes <- MCJlPrimes
    JlWindow = 3
    JlOrder = 3
    JlSlack <- MCJlSlack
    Kappa = 2
    Seeds <- MCSeeds
    Words <- MCWords
    Corr <- MCCorr
    OtScalars = {1, 3}
    Challenge = {0, 3}
    SkBound = 4
    Committees <- MCCommittees
    Draws = {1, 3}
    Challenges <- MCChallenges
    Limit = 10
    Secret <- MCSecrets
SPECIFICATION Spec
INVARIANTS FormsRight ReductionRight KeysDecrypt SharesAddUp OtRight ThresholdsMeet
    FalseClaimRefused TrueClaimAccepted
CHECK_DEADLOCK FALSE
