\* Five nodes, the size of cluster.txt, and any number of processes that fail.  The
\* system stops when all have returned or wait for one that failed.
CONSTANTS
    N = 5
    MAX_NODES = 5
    Address <- Addresses
    Files <- CopiesOfClusterTxt
SPECIFICATION SFairSpec
INVARIANTS TypeOK FullyConnected NobodyStranded IdsAgree
PROPERTIES AllReturn AnswerComes
CHECK_DEADLOCK FALSE
