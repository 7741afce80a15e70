---------------------------- MODULE MCJobExecutor ----------------------------
EXTENDS JobExecutor
CONSTANTS a, b
\* One process for both flows, or one for each.
OneProc(f) == a
OwnProc(f) == f
=============================================================================
