SPECIFICATION FairSpec
CONSTANTS
    Fibers = {main, f1, f2}
    MainFiber = main
    Cores = {0}
    BootCore = 0
    NoFiber = NoFiber
    NoCore = NoCore
    PriorityNormal = 2
    Calls = {"yield", "sleep", "exit", "create", "activity", "join"}
    CreateCores = {0}
    Masks = {}
    CreatePriorities = {2}
    SetPriorities = {}
    Timeouts = {"finite"}
    Admins = {main}
    ActivityTargets = {"Suspended"}
    PriorityTargets = {"Suspended", "Waiting", "Scheduled"}
    MaskTargets = {"Suspended"}
PROPERTIES RunnableFiberRuns SleepEnds JoinReturns
