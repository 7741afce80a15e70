SPECIFICATION FairSpec
CONSTANTS
    a = a
    b = b
    Flow = {a, b}
    Proc <- OwnProc
    MaxTurn = 0
    MaxAttempt = 4
    MaxCrash = 1
    MaxRedeliver = 1
    MaxFail = 0
    NoLease = NoLease
INVARIANTS NeverStranded
PROPERTIES Settles
CHECK_DEADLOCK FALSE
