CONSTANTS
    BucketSize = 1
    Payloads = {m1}
    MaxIndex = 2
    Producers = {p1}
    Readers = {r1}
    Ackers = {}
    Workers = {w1}
    MaxDeliveries = 1
    MaxFaults = 0
    RepairTimeout = 20000
    LongestWrite = 5000
    LongestDelay = 60000
    ClockSkew = 1000
SPECIFICATION FairSpec
PROPERTIES
    EveryMessageIsDelivered
