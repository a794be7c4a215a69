SPECIFICATION Spec
CONSTANTS
    Program = {1, 2}
    Difficulty = {1, 9}
    MaxShares = 3
    Priors <- AllPriors
    Issued <- OneLog
    Opening <- DebtAndCarry
    CoinbaseValue = 20
    FeeBps = 1000
    MinOutput = 4
    NetworkDifficulty = 1
    FeeFirst = TRUE
    DirectFloor = 8
    MaxOutputs = 2
    MaxDirect = 2
    ChunkSize = 2
    FeeRate = 5
    PremiumBps = 10000
    CeilingBps = 1500
    Maturity = 1
    MaxBlocks = 3
    MaxTip = 3
INVARIANTS BalancesExact DebtWithinFloat CaptureWithinCeiling WindowExact PolicySound 
 
CHECK_DEADLOCK FALSE
