\* Two writes, so that a late OK for the first meets the second.
CONSTANTS
    n1 = n1
    n2 = n2
    n3 = n3
    Node = {n1, n2, n3}
    Leader = n1
    InitTerm <- AllTerm1
    LastApplied <- SameLast
    Reads = {}
    MaxWrites = 2
    MaxReads = 0
    MaxFailures = 0
    MaxEvents = 0
SPECIFICATION Spec
INVARIANTS CommitHasMajority
