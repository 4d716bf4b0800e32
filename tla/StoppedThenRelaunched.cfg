SPECIFICATION Spec
CONSTANTS
    Service = {s1}
    Probed = {s1}
    Instance = {i1, i2, i3}
    Request = {r1, r2}
    Retries = 1
    ProbeOutcome = {"up", "down", "throws"}
    Fault = {"crash"}
    MaxFaults = 1
    None = None
SYMMETRY Symmetry
PROPERTIES StopCancelsRelaunch
CHECK_DEADLOCK FALSE
