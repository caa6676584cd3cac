\* A log of two entries, applied by the apply thread and another caller while three
\* GETs and a SET are served; a ring of two entries that holds one completion.
CONSTANTS
    k1 = k1
    k2 = k2
    v1 = v1
    Key = {k1, k2}
    Val = {v1}
    LogEntry <- Entries
    MaxLog = 2
    GetKey <- GetKeys
    Write <- Writes
    QueueLen = 2
    CqLen = 1
    MaxBatches = 1
SPECIFICATION FairSpec
INVARIANTS TypeOK AppliedOnceInOrder StoppedIsGone ReplyWasHeld RepliesLeave
PROPERTIES CommittedIsApplied
CHECK_DEADLOCK FALSE
