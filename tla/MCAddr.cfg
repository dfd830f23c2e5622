SPECIFICATION FairSpec
CONSTANTS
    main = main
    f1 = f1
    f2 = f2
    Fibers = {main, f1, f2}
    MainFiber = main
    Cores = {0, 1}
    BootCore = 0
    NoFiber = NoFiber
    NoCore = NoCore
    PriorityNormal = 2
    WordModulus = 3
    Clients <- MCClients
INVARIANTS NoMissedSignal QueuedOnce WaitersReachable
PROPERTY WaitEnds
CHECK_DEADLOCK FALSE
