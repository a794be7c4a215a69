--------------------------- MODULE MCBlockHistory ---------------------------
EXTENDS BlockHistory
=============================================================================
