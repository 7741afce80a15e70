SPECIFICATION Spec
CONSTANTS
    w1 = w1
    w2 = w2
    s1 = s1
    Session = {s1}
    Worker = {w1, w2}
    Ttl <- MCTtl
    Ring = 2
    MaxTime = 3
    MaxGrants = 3
    MaxSeq = 3
    Absent = Absent
    NoLease = NoLease
INVARIANTS TypeOK LeaseExclusion RingIsNewest FencingOrder
PROPERTY ImplementsContract
CHECK_DEADLOCK FALSE
