\* A retained retryable mission, two exact retries and two bindings.
SPECIFICATION Spec
CONSTANTS
    MissionCall = {m1, m2, m3}
    AircraftCall = {a1}
    None = None
    MaxStream = 2
    Earlier = m1
    Workload = {{m2, m3}}
SYMMETRY CallSymmetry
PROPERTIES RedeliveredOnOriginalBinding
CHECK_DEADLOCK FALSE
