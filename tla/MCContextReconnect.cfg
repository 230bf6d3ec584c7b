SPECIFICATION Spec
CONSTANTS
    f1 = f1
    f2 = f2
    Session = {s1, s2}
    Stream = {b1}
    None = None
    Registry = FALSE
    Flight = {f1}
    Request <- SetClearReset
    Rpc = {r1, r2}
    Control = TRUE
    Auth = TRUE
    Api = "once"
    Window = 2
    FrameWindow = 0
SYMMETRY ControlSymmetry
INVARIANTS ControlTypeOK AttributionMatchesAgent
PROPERTIES AuthoritativeClearOnlyReconciles
CHECK_DEADLOCK FALSE
