SPECIFICATION OrderSpec
CONSTANTS
    Orders = {o1, o2}
    Callers = {o1, o2}
    Users = {u1, x1}
    Accounts = {x1, x2}
    MaxSequence = 2
    Width = 3
    MaxLead = 1
    MaxStepBack = 1
    Nobody = Nobody
INVARIANTS
    OrderTypeOK
    IdsIncrease
    StoredMeansPlaced
    NeverPlacedTwice
    StatusAfterOrder
    PrimaryKeysAreNew
PROPERTY RequestsEnd
CHECK_DEADLOCK FALSE
