SPECIFICATION ListSpec
CONSTANTS
    Top = 5
    MaxCalls = 4
CHECK_DEADLOCK FALSE
INVARIANTS
    ListMeansView
    PiecesDisjoint
