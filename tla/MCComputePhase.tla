--------------------------- MODULE MCComputePhase ---------------------------
EXTENDS ComputePhase
=============================================================================
