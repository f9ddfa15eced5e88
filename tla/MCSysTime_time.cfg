SPECIFICATION Spec
CONSTANTS
    MaxTimers = 2
    TurnCounts = 12
    Times = {2, 6}
    Types = {"PERIODIC", "SINGLE", "DELAY"}
    ExecTicks = 1
    Latency = 1
INVARIANTS
    TypeOK
    ListHoldsRunning
    ListKeepsDeadlines
    CounterKeepsTime
PROPERTY
    ServesTimers
