SPECIFICATION FairSpec
CONSTANTS
    MaxLosses = 1
    MaxRetry = 1
INVARIANTS
    TypeOK
    ErrorFileTruthful
    NothingMissing
    FactoryReset
    JoinsOnlyProvisioned
PROPERTIES
    UserFilesKept
    StartEnds
    RequestLostOnlyByRace
    ViewWrongOnlyByRace
    UsbAttaches
    ConfiguredBoardJoins
\* a board that waits for its user does nothing
CHECK_DEADLOCK FALSE
