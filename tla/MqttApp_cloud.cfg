SPECIFICATION FairSpec
CONSTANTS
    Delta = delta
    MaxTrouble = 3
    MaxDesired = 1
    MaxErrors = 1
INVARIANTS
    TypeOK
    QueuedIsWaiting
    AppViewAgrees
    HandlersMatchBroker
    WaitsAreTimed
PROPERTIES
    PublishedWasTaken
    ExpiryEndsWait
    TelemetryFlows
CHECK_DEADLOCK FALSE
