SPECIFICATION RoutingSpec
CONSTANTS
    Service = {s1}
    Probed = {s1}
    Instance = {i1, i2}
    Request = {r1}
    Retries = 2
    ProbeOutcome = {"up", "down"}
    Fault = {"crash"}
    MaxFaults = 1
    None = None
    Port = {p1, p2}
    FixedPort <- AllDynamic
SYMMETRY RoutingSymmetry
INVARIANTS Discoverable
CHECK_DEADLOCK FALSE
