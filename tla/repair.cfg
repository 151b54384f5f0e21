CONSTANTS
    BucketSize = 2
    Payloads = {m1, m2}
    MaxIndex = 4
    Producers = {p1, p2}
    Readers = {r1}
    Ackers = {a1}
    Workers = {w1}
    MaxDeliveries = 1
    MaxFaults = 1
    RepairTimeout = 20000
    LongestWrite = 5000
    LongestDelay = 5000
    ClockSkew = 1000
SYMMETRY Symmetry
SPECIFICATION Spec
INVARIANTS
    IndexesHaveOneOwner
    BucketsClosedInOrder
    NoUndeliveredLeftBehind
    AcceptedIsKept
    RepairInv
PROPERTIES
    ImplementsContract
