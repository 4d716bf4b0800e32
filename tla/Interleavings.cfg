SPECIFICATION RoutingSpec
CONSTANTS
    Service = {s1}
    Probed = {s1}
    Instance = {i1, i2, i3}
    Request = {r1, r2}
    Retries = 2
    ProbeOutcome = {"up", "down", "throws"}
    Fault = {"crash", "hang", "unreachable", "enoent", "spawn", "render"}
    MaxFaults = 1
    None = None
    Port = {p1, p2}
    FixedPort <- AllDynamic
SYMMETRY RoutingSymmetry
INVARIANTS RoutingTypeOK NoGhostEntry Monitored RouteWasAnnounced Routed
PROPERTIES LiveEntryKept RouteLossOwed
CHECK_DEADLOCK FALSE
