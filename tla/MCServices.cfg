SPECIFICATION Spec
CONSTANTS
    Fibers = {p1}
    Natives = {p2, p3}
    LockFibers = {p1, p2}
    LockNatives = {p3}
    Clients = {p1, p2, p3}
    Objects = {p1, p2}
    Looping = {p2}
    Messages = {1, 2}
    NoMessage = 0
    Max = 2
    Few = {p1, p2}
    FewMessages = {1}
    Slots = {0, 1}
    Internal = {1}
    MaxSteps = 1
    MaxDepth = 2
    None = None
    Subjects = {"ring", "many", "monitor", "event", "service event", "lock", "threads"}
INVARIANTS NobodySleepsOnNews OnlyTheHolderIsIn
PROPERTIES QueuesAreBounded CallsReturn
CHECK_DEADLOCK FALSE
