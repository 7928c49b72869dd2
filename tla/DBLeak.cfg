SPECIFICATION Spec
CONSTANTS
    Connections = {c1, c2}
    Threads = {t1, t2}
    Tables = {candles}
    Keys = {k1}
    MaxErrors = 0
    NoConnection = NoConnection
SYMMETRY Symmetry
INVARIANT PoolServesEveryTask
