SPECIFICATION Spec
CONSTANTS
    Connections = {c1, c2}
    Threads = {t1, t2}
    Tables = {candles}
    Keys = {k1}
    MaxErrors = 1
    NoConnection = NoConnection
SYMMETRY Symmetry
INVARIANTS
    TypeOK
    ConnectionExclusive
    ClosedNeverUsed
    StarvedOnlyByLossOrLoad
    StoredWhenReturned
    StatementsOnExistingTables
PROPERTIES
    OnlyUnprotectedStatementsLose
    ImplementsLease
