SPECIFICATION CvFairSpec
CONSTANTS
    Fibers = {main, f1}
    MainFiber = main
    Cores = {0, 1}
    BootCore = 0
    NoFiber = NoFiber
    NoCore = NoCore
    PriorityNormal = 2
    Locks = {1}
    NoLock = 0
    CvLock = 1
    Waiters = {main}
    Timeouts = {"finite", "never"}
INVARIANTS WaiterOwnsLock WaitersAreSignalled
PROPERTY WaitsReturn
CHECK_DEADLOCK FALSE
