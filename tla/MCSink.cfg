SPECIFICATION SinkSpec
CONSTANTS
    w1 = w1
    w2 = w2
    w3 = w3
    Write = {w1, w2}
    MaxVersion = 5
    None = None
INVARIANTS QuietMeansCheckpointed FlushCovers
CHECK_DEADLOCK FALSE
