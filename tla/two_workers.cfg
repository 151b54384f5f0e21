CONSTANTS
    BucketSize = 1
    Payloads = {m1}
    MaxIndex = 3
    Producers = {p1}
    Readers = {r1}
    Ackers = {}
    Workers = {w1, w2}
    MaxDeliveries = 1
    MaxFaults = 1
    RepairTimeout = 20000
    LongestWrite = 5000
    LongestDelay = 5000
    ClockSkew = 1000
SYMMETRY Symmetry
SPECIFICATION Spec
INVARIANTS
    IInv
    RepairInv
PROPERTIES
    PointersMoveForward
    OnlyOvertakenStartOver
