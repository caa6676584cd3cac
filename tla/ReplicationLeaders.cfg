\* A write and a GET; at any moment a node becomes leader, or a candidate that asks for
\* votes; one follower is behind and refuses; reads may bring too much or too little.
CONSTANTS
    n1 = n1
    n2 = n2
    n3 = n3
    Node = {n1, n2, n3}
    Leader = n1
    InitTerm <- AllTerm1
    LastApplied <- OneBehind
    Reads = {"several", "part"}
    MaxWrites = 1
    MaxReads = 1
    MaxFailures = 1
    MaxEvents = 1
SPECIFICATION Spec
INVARIANTS AppliedIsLogged ReadsSeeAcked
CHECK_DEADLOCK FALSE
