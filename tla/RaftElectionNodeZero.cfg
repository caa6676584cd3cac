\* The cluster file numbers its nodes from 0: one node has the id that
\* voted_for uses for "no vote".
CONSTANTS
    n1 = n1
    n2 = n2
    n3 = n3
    Node = {n1, n2, n3}
    NoVote = n1
    MAX_NODES = 3
    MaxTerm = 2
    MaxElections = 3
    MaxLog = 0
    MaxInFlight = 0
SPECIFICATION Spec
INVARIANTS OneVotePerTerm
CHECK_DEADLOCK FALSE
