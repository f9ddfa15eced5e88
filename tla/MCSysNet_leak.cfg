SPECIFICATION Spec
CONSTANTS
    Owner = mqtt
    Others = {cli}
    Sockets = {s1, s2}
    NoSocket = noSocket
    EnableTls = TRUE
    InitReconnect = TRUE
    HostIsAddress = FALSE
    Faults = {}
    MaxTrouble = 3
INVARIANT NoSocketLeak
CHECK_DEADLOCK FALSE
