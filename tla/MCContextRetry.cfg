SPECIFICATION Spec
CONSTANTS
    f1 = f1
    f2 = f2
    Session = {s1}
    Stream = {b1, b2}
    None = None
    Registry = TRUE
    Flight = {f1}
    Request <- SetThenClear
    Rpc = {r1, r2}
    Control = TRUE
    Auth = TRUE
    Api = "serial"
    Window = 1
    FrameWindow = 0
SYMMETRY ControlSymmetry
INVARIANTS AttributionMatchesAgent PendingOnLiveBinding
PROPERTIES DeliveredSuccessReconciles
CHECK_DEADLOCK FALSE
