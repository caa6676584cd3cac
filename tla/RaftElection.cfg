\* Three nodes, none with id 0; MAX_NODES equal to the cluster size; three elections, two
\* commands.
CONSTANTS
    n1 = n1
    n2 = n2
    n3 = n3
    Node = {n1, n2, n3}
    NoVote = NoVote
    MAX_NODES = 3
    MaxTerm = 2
    MaxElections = 3
    MaxLog = 2
    MaxInFlight = 1
SYMMETRY Symmetry
SPECIFICATION Spec
INVARIANTS TypeOK ElectionSafety OneVotePerTerm VoterNotAhead
PROPERTIES VoteStable
CHECK_DEADLOCK FALSE
