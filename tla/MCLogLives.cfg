SPECIFICATION Spec
CONSTANTS
    Batch = 2
    MaxEvents = 6
    MaxLives = 3
    MaxFail = 1
    CleanExit = FALSE
    FullWindow = TRUE
    SlowStart = FALSE
INVARIANTS OrderedInOneLife CompleteInOneLife FreshSequence
CHECK_DEADLOCK FALSE
