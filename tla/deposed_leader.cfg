CONSTANTS
    Queues = {q1, q2}
    PoolSize = 1
    MaxChanges = 1
    MaxWorkers = 2
SPECIFICATION Spec
PROPERTIES
    DeposedIsQuiet
CHECK_DEADLOCK FALSE
