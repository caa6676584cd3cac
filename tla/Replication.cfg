\* One leader, three nodes with equal logs, two writes, one of which a store may refuse; a read
\* may bring both batches at once, which ends the processes.
CONSTANTS
    n1 = n1
    n2 = n2
    n3 = n3
    Node = {n1, n2, n3}
    Leader = n1
    InitTerm <- AllTerm1
    LastApplied <- SameLast
    Reads = {"several"}
    MaxWrites = 2
    MaxReads = 0
    MaxFailures = 1
    MaxEvents = 0
SPECIFICATION FairSpec
INVARIANTS TypeOK LogsAgree
PROPERTIES ImplementsLedger EveryWriteAnswered
CHECK_DEADLOCK FALSE
