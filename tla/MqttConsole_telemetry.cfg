SPECIFICATION ConsoleFairSpec
CONSTANTS
    Delta = delta
    CliTopic = topic
    NoTopic = noTopic
    MaxTopics = 2
    MaxTrouble = 0
    MaxDesired = 0
    Commands = {"subscribe"}
    MaxCommands = 1
    MaxErrors = 1
PROPERTY TelemetryGoesOn
CHECK_DEADLOCK FALSE
