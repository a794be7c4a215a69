SPECIFICATION FairSpecSeeded
CONSTANTS
    ReleaseDepth = 2
    MaxEpoch = 4
    MaxTip = 2
    MaxBackups = 1
    MaxRestores <- Never
    MaxRestarts <- TakerOnce
INVARIANTS HandoverBuried
PROPERTIES OwnerPays ReleasedGateCloses
