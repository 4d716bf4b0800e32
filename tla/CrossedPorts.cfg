SPECIFICATION Spec
CONSTANTS
    scripted = scripted
    probed = probed
    Service = {scripted, probed}
    TcpPort = {1, 2, 3}
    UdpPort = {11, 12}
    Uses <- AllThree
    Setup <- TwoCommands
    UdpHealth = {probed}
    Fault = {"crash", "setup", "noexec", "collide", "coincide"}
    MaxFaults = 0
    None = None
INVARIANTS FreshPorts
CHECK_DEADLOCK FALSE
