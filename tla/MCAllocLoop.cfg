SPECIFICATION LoopSpec
CONSTANTS
    NvmStart = 12
    NvmEnd = 16
    MemPages <- UpperMemory
    M5Pages <- M5Range
    M5Last = 28
    MaxRequest = 5
CHECK_DEADLOCK FALSE
INVARIANTS
    LoopMatchesClosedForm
    SeriesMatchesRun
    RequestAvoidsNvm
PROPERTIES
    SkipTerminates
