SPECIFICATION Spec
CONSTANTS
    Submission = {s1, s2}
    Proofs = {"share", "both", "block"}
    Capture = TRUE
    MaxBumps = 1
    MaxFaults = 1
    MaxFailovers = 1
SYMMETRY SubmissionSymmetry
INVARIANTS AcceptedSurvives RefusedWroteNothing ProofCreditedOnce BlockReachesOutbox
PROPERTIES CreditedAtRevision
CHECK_DEADLOCK FALSE
