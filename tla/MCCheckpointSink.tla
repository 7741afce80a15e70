-------------------------- MODULE MCCheckpointSink --------------------------
EXTENDS CheckpointSink
CONSTANTS w1, w2, w3
=============================================================================
