SPECIFICATION Spec
CONSTANTS
    p1 = p1
    p2 = p2
    NvmStart <- WideStart
    NvmEnd <- WideEnd
    MemPages <- WideMemory
    M5Pages <- M5Range
    M5Last = 41
    Space = {p1, p2}
    Root = {p1}
    VPages = 19
    PageBytes = 2
    ImagePages <- WideImage
    BrkStart = 11
    MmapTop = 16
    StackBase = 18
    MaxStack = 2
    StackInit = 1
    VsyscallPage = 18
    Ops = {"brk", "fork", "thread", "exec"}
    Args = {}
    Lengths = {}
    FilePages = {}
    BrkArgs = {27}
    MmapFloor = 10
    MaxAreas = 9
    NvmBound = 4
CHECK_DEADLOCK FALSE
INVARIANTS
    FramesPrivate
    SpacesSeparated
PROPERTIES
    ImplementsFreshFrames
