SPECIFICATION FairSpec
CONSTANTS
    Owner = mqtt
    Others = {}
    Sockets = {s1, s2}
    NoSocket = noSocket
    EnableTls = TRUE
    InitReconnect = TRUE
    HostIsAddress = FALSE
    Faults = {"ReopenFails"}
    MaxTrouble = 3
PROPERTY Recovers
CHECK_DEADLOCK FALSE
