SPECIFICATION FairSpec
CONSTANTS
    Admission = {a1, a2}
    None = None
INVARIANTS
    OvertakenStaysOut
    OneLiveHeartbeat
    MapsAgree
PROPERTIES
    ActiveIsReported
    StaleWorkerEnds
    CloseEnds
CHECK_DEADLOCK FALSE
