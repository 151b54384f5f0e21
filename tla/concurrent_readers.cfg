CONSTANTS
    BucketSize = 2
    Payloads = {m1}
    MaxIndex = 4
    Producers = {p1}
    Readers = {r1, r2}
    Ackers = {a1}
    Workers = {}
    MaxDeliveries = 2
    MaxFaults = 2
    RepairTimeout = 20000
    LongestWrite = 5000
    LongestDelay = 5000
    ClockSkew = 1000
SYMMETRY Symmetry
SPECIFICATION Spec
INVARIANTS
    TypeOK
    IInv
    VersionCountsUpdates
PROPERTIES
    DeliveredOnlyWhenVisible
    AckIsFinal
    ImplementsContract
    OnlyOvertakenStartOver
    WalksEndAtCounter
