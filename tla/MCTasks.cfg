SPECIFICATION Spec
CONSTANTS
    Callers = {p1, p2}
    Tasks = {t1, t2}
    Watchers = {p3}
    Workers = {p3, p4}
    RingSlots = 2
    Width = 4
    Garbage = {"other", "Resume"}
    AllocatorCalls = 2
    QueueCalls = 1
    MaxPushes = 2
    Few = {p1, p3}
    Savers = {p1, p2}
    SaveOps = {"read", "size"}
    SaveRequests = 1
    ArchiveUsers = {p1, p2, p3}
    ArchiveBinders = {t1, t2}
    Exits = 3
    TextureUsers = {p1, p2}
    TextureSlots = 3
    TextureBlocks = {t1}
    TextureCalls = 3
    p1 = p1
    p2 = p2
    p3 = p3
    t1 = t1
    t2 = t2
    None = None
    Subjects = {"allocator", "tasks", "queue", "levels", "resources", "save", "decompressor", "frames", "input", "archives", "textures"}
INVARIANTS TasksHaveOneHome QueuedTaskIsReachable OneOutcomePerRequest FreeUnitsAreNobodys
PROPERTIES CallsReturn
CHECK_DEADLOCK FALSE
