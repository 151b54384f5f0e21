CONSTANTS
    Queues = {q1, q2, q3}
    PoolSize = 1
    MaxRestarts = 1
SPECIFICATION FairSpec
INVARIANTS
    TypeOK
    StartedWorkersPoll
PROPERTIES
    QuietAfterStop
    
    ShutPoolDrains
    ShutPoolWindsDown
CHECK_DEADLOCK FALSE
