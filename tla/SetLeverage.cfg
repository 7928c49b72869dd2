SPECIFICATION LeverageSpec
CONSTANTS
    N = 3
    NoResult = NoResult
INVARIANTS
    LeverageTypeOK
    EachAccountOnce
    ReturnedMeansSet
PROPERTY SetLeverageEnds
CHECK_DEADLOCK FALSE
