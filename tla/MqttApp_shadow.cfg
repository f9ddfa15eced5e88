SPECIFICATION FairSpec
CONSTANTS
    Delta = delta
    MaxTrouble = 1
    MaxDesired = 1
    MaxErrors = 1
PROPERTY ShadowReported
CHECK_DEADLOCK FALSE
