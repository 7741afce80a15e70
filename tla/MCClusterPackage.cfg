SPECIFICATION ClusterFairSpec
CONSTANTS
    a = a
    b = b
    c = c
    Node = {a, b, c}
    Found = {a}
    SyncByJoin = FALSE
    SyncEvery = 1
    SuspectAfter = 2
    DeadAfter = 3
    GcAfter = 4
    Lossy = FALSE
    Boots = 1
    Stopping = {c}
    Draining = {c}
    Unknown = Unknown
PROPERTIES Detected DeadStaysDead
CHECK_DEADLOCK FALSE
