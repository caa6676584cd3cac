\* Two threads append three batches, with two crashes and a short write; the file
\* reaches the offset that is negative as an int32_t.
CONSTANTS
    Writer = {"thread_2", "thread_3"}
    Half = 8
    MaxBatches = 3
    MaxCrashes = 2
    MaxShort = 1
SPECIFICATION Spec
INVARIANTS TypeOK CompletedIsWhole
PROPERTIES NothingCompletedLost ImplementsDurableLog
CHECK_DEADLOCK FALSE
