SPECIFICATION Spec
CONSTANTS
    Old = Old
    New = New
    Symbols <- MCSymbols
    BarSizes <- MCBarSizes
    Interval <- MCInterval
    OnBoard <- MCOnBoard
    DayOf <- MCDayOf
    Midnight <- MCMidnight
    Tables <- MCTables
    FirstDay = 2
    LastDay = 3
    MaxCrashes = 1
INVARIANTS
    IntegrityTypeOK
    VerifiedDaysAccounted
    RecordsTogether
    NoUnfinishedDay
PROPERTIES
    FullFilesStay
    ComesUp
CHECK_DEADLOCK FALSE
