SPECIFICATION SpecSingle
CONSTANTS
    Frontend = {f1, f2}
    Token = {t1, t2, t3}
    NoToken = NoToken
    OrphanConfirmations = 1
    MaxWork <- ThreeIfOver
    MaxFaults <- TwoIfOff
    MaxGateMoves = 0
    MaxFailovers = 0
SYMMETRY Symmetry
INVARIANTS TypeOK AtMostOnce AbandonedNeverOffered
PROPERTIES NewestVerdict KeepsPromise
