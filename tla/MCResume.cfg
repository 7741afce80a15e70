SPECIFICATION FairSpec
CONSTANTS
    a = a
    b = b
    Process = {a, b}
    RingSize = 2
    MaxSeq = 3
    MaxTokens = 3
    Ttl = 3
    MinBeat = 1
    MaxBeat = 2
    FencedEnd = TRUE
    MaxCrashes = 2
    Absent = Absent
    NoLease = NoLease
INVARIANTS TurnKeepsLease
PROPERTIES NeverOlder ImplementsContract OrphanLapses
CHECK_DEADLOCK FALSE
