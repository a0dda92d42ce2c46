CONSTANTS
    Nil = Nil
    LISTENER_CHANNEL_CAPACITY = 1
    SocketCapacity = 2
    Oversized = {2}
    MaxMessage = 4
    MaxFailures = 2
SPECIFICATION Spec
INVARIANTS TypeOK AtMostOnce ReorderedAcrossConnections
PROPERTY Reconnects
CHECK_DEADLOCK FALSE
