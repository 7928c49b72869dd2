SPECIFICATION SessionSpec
CONSTANTS
    Users = {u1}
    Sockets = {s1}
    Broadcasts = {b1}
    NoUser = NoUser
    NoSocket = NoSocket
INVARIANT LogoutRemovesEntry
CHECK_DEADLOCK FALSE
