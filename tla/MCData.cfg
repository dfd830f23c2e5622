SPECIFICATION Spec
CONSTANTS
    NoHeap = NoHeap
    HeapSpan = 12
    Sizes = {1, 2, 3}
    Alignments = {1, 2, 4}
    HeapSubjects = {"exp", "frame", "separate", "virtual", "tree"}
    ChildSizes = {4, 6}
    ContainerSubjects = {"rbtree", "ring", "atomic_ring", "list", "arrays", "indices", "objects", "atomic", "map", "heap"}
    TreeNodes = {1, 2, 3, 4, 5, 6, 7, 8, 9, 10}
    FileSubjects = {"byaml", "sarc", "dictionary", "table", "string", "path", "device", "loading", "registry", "default"}
    Nothing = Nothing
    Beyond = Beyond
CHECK_DEADLOCK FALSE
INVARIANTS HeapsTileTheirMemory AddressesAreOwned TreeIsSound ContainersKeepMembers FilesReadBack 
