SPECIFICATION Spec
CONSTANTS
    p1 = p1
    p2 = p2
    NvmStart <- BoardStart
    NvmEnd <- BoardEnd
    MemPages <- BoardMemory
    M5Pages <- M5Range
    M5Last = 41
    Space = {p1}
    Root = {p1}
    VPages = 14
    PageBytes = 2
    ImagePages <- Image
    BrkStart = 8
    MmapTop = 12
    StackBase = 13
    MaxStack = 1
    StackInit = 1
    VsyscallPage = 13
    Ops = {"mmap", "mremap"}
    Args = {9, 10}
    Lengths = {1, 2}
    FilePages = {}
    BrkArgs = {}
    MmapFloor = 9
    MaxAreas = 4
    NvmBound = 2
CHECK_DEADLOCK FALSE
INVARIANTS
    FramesPrivate
PROPERTIES
    ImplementsFreshFrames
