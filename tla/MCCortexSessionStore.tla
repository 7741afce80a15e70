------------------------ MODULE MCCortexSessionStore ------------------------
EXTENDS CortexSessionStore
CONSTANTS a, b
\* Two callers of two workers.
MCWorker(c) == c
\* Two flows of one worker: its turn and its lease heartbeat.
OneWorker(c) == a
=============================================================================
