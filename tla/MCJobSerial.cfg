SPECIFICATION Spec
CONSTANTS
    a = a
    b = b
    Flow = {a, b}
    Proc <- OneProc
    MaxTurn = 2
    MaxAttempt = 4
    MaxCrash = 0
    MaxRedeliver = 0
    MaxFail = 1
    NoLease = NoLease
INVARIANTS LeaseReturned DeadLettersMatch OneContinuation
CHECK_DEADLOCK FALSE
