SPECIFICATION TableSpec
CONSTANTS
    MaxHandles = 3
    CounterLimit = 4
    Objects = {o1, o2}
    nullptr = nullptr
    MaxReserves = 6
INVARIANTS
    FreeListWellFormed
    LiveHandleResolves
    StaleHandleRejected
CHECK_DEADLOCK FALSE
