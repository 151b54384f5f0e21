CONSTANTS
    BucketSize = 1
    Payloads = {m1}
    MaxIndex = 3
    Producers = {p1}
    Readers = {r1, r2}
    Ackers = {}
    Workers = {}
    MaxDeliveries = 1
    MaxFaults = 0
    RepairTimeout = 20000
    LongestWrite = 5000
    LongestDelay = 5000
    ClockSkew = 1000
SPECIFICATION Spec
PROPERTIES
    AdvanceReturnsPointer
