SPECIFICATION FairSpec
CONSTANTS
    Record = {d1, d2, d3}
    Worker = {w1, w2}
    QueueCapacity = 2
    BatchSize = 2
    MaxRetries = 1
INVARIANTS NoSendOnClosedQueue
PROPERTIES KeepsLedger AdmittedIsSettled CloseEnds
CHECK_DEADLOCK FALSE
