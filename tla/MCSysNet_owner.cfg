SPECIFICATION FairSpec
CONSTANTS
    Owner = mqtt
    Others = {}
    Sockets = {s1, s2}
    NoSocket = noSocket
    EnableTls = TRUE
    InitReconnect = TRUE
    HostIsAddress = FALSE
    Faults <- NetworkFaults
    MaxTrouble = 4
INVARIANTS
    NoSocketLeak
    ViewAgrees
    RestsOnlyInDeadEnds
PROPERTIES
    EventsAlternate
    ImplementsSessions
    RecoversUnlessDeadEnd
CHECK_DEADLOCK FALSE
