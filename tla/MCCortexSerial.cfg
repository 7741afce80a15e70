SPECIFICATION Spec
CONSTANTS
    a = a
    b = b
    Caller = {a, b}
    Creator = a
    Worker <- MCWorker
    Ttl = {1}
    Ring = 2
    Serial = TRUE
    MaxTime = 2
    MaxGrants = 2
    MaxSeq = 3
    Absent = Absent
    NoLease = NoLease
PROPERTIES LatestReadable ImplementsContract
CHECK_DEADLOCK FALSE
