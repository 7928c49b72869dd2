SPECIFICATION WritesSpec
CONSTANTS
    Connections = {c1, c2}
    Tasks = {t1, t2}
    Threads = {t1, t2}
    Tables = {candles}
    Keys = {k1}
    MaxErrors = 1
    NoConnection = NoConnection
INVARIANTS
    TaskTypeOK
    CompletionMeansStored
    LossesAreReported
    DoneTasksAreQuiet
PROPERTIES
    TasksComplete
CHECK_DEADLOCK FALSE
