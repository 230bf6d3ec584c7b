\* One record and an upload sink: what Close leaves behind.
SPECIFICATION Spec
CONSTANTS
    MaxRecord = 1
    QueueSize = 1
    MaxFile = 2
    Scenario <- Upload
INVARIANT CloseUploads
CHECK_DEADLOCK FALSE
