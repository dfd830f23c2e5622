SPECIFICATION Spec
CONSTANTS
    Fibers = {main, f1, f2}
    MainFiber = main
    Cores = {0}
    BootCore = 0
    NoFiber = NoFiber
    NoCore = NoCore
    PriorityNormal = 2
    Calls = {"yield", "sleep", "exit", "create", "activity", "priority", "mask"}
    CreateCores = {0}
    Masks = {{0}}
    CreatePriorities = {2}
    SetPriorities = {3, 4}
    Timeouts = {"finite", "never"}
    Admins = {main}
    ActivityTargets = {"Suspended", "Waiting", "Scheduled"}
    PriorityTargets = {"Suspended", "Waiting", "Scheduled"}
    MaskTargets = {"Suspended"}
INVARIANT TimersServed
PROPERTIES SuspendedStays HighestPriorityFirst
CHECK_DEADLOCK FALSE
