SPECIFICATION Spec
CONSTANTS
    f1 = f1
    f2 = f2
    Session = {s1}
    Stream = {b1}
    None = None
    Registry = FALSE
    Flight = {f1, f2}
    Request <- SetThenSet
    Rpc = {r1}
    Control = TRUE
    Auth = TRUE
    Api = "free"
    Window = 1
    FrameWindow = 0
SYMMETRY ControlSymmetry
PROPERTIES AppliedReconciles
CHECK_DEADLOCK FALSE
