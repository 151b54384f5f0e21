CONSTANTS
    BucketSize = 2
    Payloads = {m1, m2}
    MaxIndex = 2
    Producers = {p1}
    Readers = {r1}
    Ackers = {a1}
    Workers = {}
    MaxDeliveries = 2
    MaxFaults = 0
    RepairTimeout = 20000
    LongestWrite = 5000
    LongestDelay = 5000
    ClockSkew = 1000
SPECIFICATION FairSpec
PROPERTIES
    ExpiredIsRedelivered
