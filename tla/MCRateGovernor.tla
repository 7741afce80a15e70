--------------------------- MODULE MCRateGovernor ---------------------------
EXTENDS RateGovernor
CONSTANTS a, b, c
=============================================================================
