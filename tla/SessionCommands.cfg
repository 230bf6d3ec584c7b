\* Three mission calls and two aircraft calls with one command ID, two bindings.
SPECIFICATION Spec
CONSTANTS
    MissionCall = {m1, m2, m3}
    AircraftCall = {a1, a2}
    None = None
    Earlier = m1
    Workload = {{m2, m3}, {m2, a1, a2}, {m3, a1, a2}}
    MaxStream = 2
SYMMETRY CallSymmetry
INVARIANTS DeploymentIsAwaited UndeliveredWasNeverSent MissionStaysOnItsBinding GateIsHeld OneKindPerId ArmIsAwaited ArmStaysOnItsBinding
PROPERTIES OutcomeIsFinal AdmittedInContext
CHECK_DEADLOCK FALSE
