\* The batcher is stopped by a leader that steps down.
CONSTANTS
    c1 = c1
    c2 = c2
    c3 = c3
    Command = {c1, c2}
    Size <- SomeSizes
    MAX_COMMAND_BUFFER = 4
    StepsDown = TRUE
    MaxTerm = 2
SPECIFICATION FairSpec
PROPERTIES StopProcessesRest
CHECK_DEADLOCK FALSE
