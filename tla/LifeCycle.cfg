SPECIFICATION OrderedFairRoutingSpec
CONSTANTS
    plain = plain
    probed = probed
    Service = {plain, probed}
    Probed = {probed}
    Instance = {1, 2, 3, 4}
    Request = {1, 2}
    Retries = 2
    ProbeOutcome = {"up", "down"}
    Fault = {"crash", "hang", "unreachable", "enoent", "spawn", "render"}
    MaxFaults = 2
    None = None
    Port = {p1, p2}
    FixedPort <- ProbedFixed
INVARIANTS TypeOK AnswersCarryPid NeverForgotten StopEarned
PROPERTIES NoResurrection FollowsLifecycle KeptAlive StartsAnswered RouteRestored
CHECK_DEADLOCK FALSE
