------------------------- MODULE MCSessionRecovery -------------------------
EXTENDS SessionRecovery
CONSTANTS a, b, c
=============================================================================
