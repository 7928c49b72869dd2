SPECIFICATION SessionSpec
CONSTANTS
    Users = {u1, u2}
    Sockets = {s1, s2}
    Broadcasts = {b1}
    NoUser = NoUser
    NoSocket = NoSocket
INVARIANTS
    SessionTypeOK
    AnswersReachTheRequester
PROPERTIES
    BroadcastReachesTheServed
    LeaversFreeTheServer
CHECK_DEADLOCK FALSE
