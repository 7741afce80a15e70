SPECIFICATION ClusterFairSpec
CONSTANTS
    a = a
    b = b
    c = c
    Node = {a, b, c}
    Found = {a, b, c}
    SyncByJoin = TRUE
    SyncEvery = 2
    SuspectAfter = 3
    DeadAfter = 6
    GcAfter = 9
    Lossy = FALSE
    Boots = 1
    Stopping = {}
    Draining = {}
    Unknown = Unknown
INVARIANTS NoFalseSuspicion
PROPERTIES Converges
