\* Three commands, two of which share a batch that the third may no longer fit in;
\* four terms, the batcher stopped at any moment; every thread is scheduled fairly.
CONSTANTS
    c1 = c1
    c2 = c2
    c3 = c3
    Command = {c1, c2, c3}
    Size <- SomeSizes
    MAX_COMMAND_BUFFER = 4
    StepsDown = TRUE
    MaxTerm = 4
SPECIFICATION FairSpec
INVARIANTS TypeOK BatchesInOrder NothingUnsent
PROPERTIES AddedIsLogged
CHECK_DEADLOCK FALSE
