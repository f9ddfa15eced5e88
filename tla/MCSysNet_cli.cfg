SPECIFICATION Spec
CONSTANTS
    Owner = mqtt
    Others = {cli}
    Sockets = {s1, s2}
    NoSocket = noSocket
    EnableTls = TRUE
    InitReconnect = TRUE
    HostIsAddress = FALSE
    Faults <- AllFaults
    MaxTrouble = 4
INVARIANTS
    TypeOK
    SocketIsLive
    SessionIsSecure
CHECK_DEADLOCK FALSE
