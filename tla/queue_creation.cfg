CONSTANTS
    Queues = {q1}
    Sizes = {1, 2}
    Creators = {c1, c2}
    Users = {u1, u2}
    MaxValue = 1
    MaxFaults = 1
SPECIFICATION FairSpec
INVARIANTS
    ListedIsComplete
    OneBucketSize
    CreationInv
PROPERTIES
    ImplementsDirectory
    OnlyOvertakenRefused
    UseReturns
