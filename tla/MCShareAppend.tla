---------------------------- MODULE MCShareAppend ----------------------------
EXTENDS ShareAppend, TLC

SubmissionSymmetry == Permutations(Submission)
=============================================================================
