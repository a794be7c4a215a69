SPECIFICATION Spec
CONSTANTS
    Worker = {w1, w2}
    Anonymous = anonymous
    Other = other
    MatchWindow = 1
    ScanBack = 20
    MaxClock = 2
    MaxTip = 2
    MaxFaults = 1
INVARIANTS NoCreditTwice
