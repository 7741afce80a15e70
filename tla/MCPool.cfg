SPECIFICATION Spec
CONSTANTS
    a = a
    b = b
    c = c
    Id = {a, b}
    Parents = {a}
    Resumable = {a}
    Persistent = {b}
    MaxSessions = 1
    MaxAgents = 1
    KillAfter = 1
    Ttl = 0
    MaxWaiting = 0
    MaxBoots = 1
    Absent = Absent
INVARIANTS ChainBudget QuietMeansSaved KilledStaysKilled
PROPERTIES CapUnlessCrossed
CHECK_DEADLOCK FALSE
