SPECIFICATION Spec
CONSTANTS
    Clients = {c1, c2}
    MaxRetries = 2
    Backlog = 3
    Nobody = Nobody
    Broken = Broken
    Closed = Closed
INVARIANTS
    ServerTypeOK
    TimersFollowTheSocket
    RetryArmed
    NobodyIsForgotten
PROPERTIES
    GetsThrough
    NobodyIsServedForLong
