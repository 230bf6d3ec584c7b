\* An upload sink, a file sink under load, and a fan-out; queues of one record.
SPECIFICATION FairSpec
CONSTANTS
    MaxRecord = 3
    QueueSize = 1
    MaxFile = 2
    Scenario <- Mixed
INVARIANTS CloseDrains PanicOnlyAfterForcedStop
PROPERTIES ObjectsOnlyGrow ShutdownEnds RouteEnds
CHECK_DEADLOCK FALSE
