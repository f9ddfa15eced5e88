SPECIFICATION FairSpec
CONSTANTS
    Tasks = {control, mqtt, wifi}
    Control = control
    MqttTask = mqtt
    Faults = {"MqttGivesUp"}
    Limit = 3
    Samples = {1, 2}
    AvgCount = 2
    MaxTrouble = 1
    MaxChanges = 0
PROPERTY HungTaskResets
CHECK_DEADLOCK FALSE
