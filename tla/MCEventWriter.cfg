SPECIFICATION WriterFairSpec
CONSTANTS
    Callers = {c1, c2}
    QueueCap = 2
    BatchSize = 2
    MaxEvents = 3
    MaxFlushes = 3
    Nobody = Nobody
CHECK_DEADLOCK FALSE
INVARIANTS
    BarriersHold
PROPERTIES
    CallsReturn
