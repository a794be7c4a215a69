SPECIFICATION SpecRestore
CONSTANTS
    ReleaseDepth = 2
    MaxEpoch = 4
    MaxTip = 2
    MaxBackups = 0
    MaxRestores <- EachOnce
    MaxRestarts <- OwnerOnce
INVARIANTS AtMostOnePayer NoReseedAfterHandover RowsAgree
