SPECIFICATION Spec
CONSTANTS
    Fibers = {main, f1, f2}
    MainFiber = main
    Cores = {0, 1}
    BootCore = 0
    NoFiber = NoFiber
    NoCore = NoCore
    PriorityNormal = 2
    Locks = {1, 2}
    NoLock = 0
INVARIANT MutualExclusion
CHECK_DEADLOCK FALSE
