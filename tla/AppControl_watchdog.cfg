SPECIFICATION FairSpec
CONSTANTS
    Tasks = {control, mqtt, wifi}
    Control = control
    MqttTask = mqtt
    Faults = {"MqttGivesUp", "ControlSpins", "Trap"}
    Limit = 3
    Samples = {1, 2}
    AvgCount = 2
    MaxTrouble = 2
    MaxChanges = 3
INVARIANTS
    TypeOK
    TemperatureInRange
PROPERTIES
    NoSpuriousReset
    StuckResets
    IndicatorFollows
CHECK_DEADLOCK FALSE
