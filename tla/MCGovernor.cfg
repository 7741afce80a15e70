SPECIFICATION Spec
CONSTANTS
    a = a
    b = b
    c = c
    Caller = {a, b, c}
    ConcurrentCap = 2
    BurstCapacity = 4
    WeeklyCap = 6
    Window = 8
    SleepAfter = 2
    Week = 9
    Watchdog = TRUE
INVARIANTS CapUnlessSwept NothingLeaks
