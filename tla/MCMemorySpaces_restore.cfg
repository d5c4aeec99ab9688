SPECIFICATION Spec
CONSTANTS
    p1 = p1
    p2 = p2
    NvmStart <- BoardStart
    NvmEnd <- BoardEnd
    MemPages <- BoardMemory
    M5Pages <- M5Range
    M5Last = 41
    Space = {p1}
    Root = {p1}
    VPages = 16
    PageBytes = 2
    ImagePages <- Image
    BrkStart = 8
    MmapTop = 13
    StackBase = 15
    MaxStack = 2
    StackInit = 1
    VsyscallPage = 15
    Ops = {"brk", "exec", "checkpoint"}
    Args = {}
    Lengths = {}
    FilePages = {}
    BrkArgs = {21}
    MmapFloor = 10
    MaxAreas = 9
    NvmBound = 3
CHECK_DEADLOCK FALSE
INVARIANTS
    FramesPrivate
    SpacesSeparated
    FrameInv
