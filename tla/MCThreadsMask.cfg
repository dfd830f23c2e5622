SPECIFICATION MaskSpec
CONSTANTS
    Fibers = {main, f1, f2}
    MainFiber = main
    Cores = {0, 1}
    BootCore = 0
    NoFiber = NoFiber
    NoCore = NoCore
    PriorityNormal = 2
    Calls = {"sleep", "exit", "create", "activity", "mask"}
    CreateCores = {1}
    Masks = {{0, 1}}
    CreatePriorities = {2}
    SetPriorities = {}
    Timeouts = {"finite"}
    Admins = {main}
    ActivityTargets = {"Suspended"}
    PriorityTargets = {"Suspended"}
    MaskTargets = {"Suspended"}
INVARIANTS OnePlace NoAbort NoLostWakeupWithoutRings

CHECK_DEADLOCK FALSE
