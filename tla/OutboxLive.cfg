SPECIFICATION FairSpecCaptured
CONSTANTS
    Frontend = {f1, f2}
    Token = {t1, t2, t3}
    NoToken = NoToken
    OrphanConfirmations = 1
    MaxWork <- One
    MaxFaults <- One
    MaxGateMoves = 0
    MaxFailovers = 0
PROPERTIES ActiveBlockSettles
