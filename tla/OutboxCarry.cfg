SPECIFICATION SpecGateFailover
CONSTANTS
    Frontend = {f1}
    Token = {t1, t2}
    NoToken = NoToken
    OrphanConfirmations = 1
    MaxWork <- Zero
    MaxFaults <- Two
    MaxGateMoves = 3
    MaxFailovers = 1
SYMMETRY Symmetry
INVARIANTS CarrySentClean FlushedOfferSurvives
