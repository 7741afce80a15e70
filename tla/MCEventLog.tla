----------------------------- MODULE MCEventLog -----------------------------
EXTENDS EventLog
=============================================================================
