SPECIFICATION FairSpec
CONSTANTS
    f1 = f1
    f2 = f2
    Session = {s1, s2}
    Stream = {b1}
    None = None
    Registry = FALSE
    Flight = {f1}
    Request <- SetOnly
    Rpc = {r1}
    Control = TRUE
    Auth = FALSE
    Api = "serial"
    Window = 2
    FrameWindow = 2
INVARIANTS AttributionMatchesAgent
PROPERTIES RegisterEnds WaiterReleased FrameKeepsContext
CHECK_DEADLOCK FALSE
