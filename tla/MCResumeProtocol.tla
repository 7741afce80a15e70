-------------------------- MODULE MCResumeProtocol --------------------------
EXTENDS ResumeProtocol
CONSTANTS a, b
=============================================================================
