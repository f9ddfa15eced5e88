SPECIFICATION ConsoleFairSpec
CONSTANTS
    Delta = delta
    CliTopic = topic
    NoTopic = noTopic
    MaxTopics = 2
    MaxTrouble = 1
    MaxDesired = 0
    Commands = {"publish", "subscribe", "unsubscribe", "close"}
    MaxCommands = 1
    MaxErrors = 1
INVARIANT ConsoleTypeOK
CHECK_DEADLOCK FALSE
PROPERTY StopsOnlyInDeadEnds
