CONSTANTS
    Queues = {q1, q2}
    PoolSize = 1
    MaxRestarts = 0
SPECIFICATION FairSpec
PROPERTIES
    EveryQueueIsRepaired
CHECK_DEADLOCK FALSE
