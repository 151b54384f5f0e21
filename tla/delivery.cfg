CONSTANTS
    BucketSize = 2
    Payloads = {m1}
    MaxIndex = 4
    Producers = {p1}
    Readers = {r1}
    Ackers = {a1}
    Workers = {w1}
    MaxDeliveries = 1
    MaxFaults = 2
    RepairTimeout = 20000
    LongestWrite = 5000
    LongestDelay = 5000
    ClockSkew = 1000
SPECIFICATION FairSpec
PROPERTIES
    ReadReturns
    EveryMessageIsDelivered
    RepairFollowsReader
