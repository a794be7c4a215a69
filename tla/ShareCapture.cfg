SPECIFICATION FairSpec
CONSTANTS
    Submission = {s1, s2}
    Proofs = {"share", "both", "block"}
    Capture = TRUE
    MaxBumps = 1
    MaxFaults = 0
    MaxFailovers = 0
PROPERTIES CaptureSettles
CHECK_DEADLOCK FALSE
