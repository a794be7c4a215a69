SPECIFICATION FairSpec
CONSTANTS
    Txid = {1, 2, 3}
    Sponsored = {1, 2}
    Coin = {c1, c2}
    w1 = w1
    w2 = w2
    Worker = {w1, w2}
    Deep = 2
    NoCoin = NoCoin
    NoWorker = NoWorker
    Budgets <- MCBudgets
INVARIANTS OneChild ScanSound SettledOnce
PROPERTIES FundingKept PaysOut
CHECK_DEADLOCK FALSE
