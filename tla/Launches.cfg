SPECIFICATION FairSpec
CONSTANTS
    scripted = scripted
    probed = probed
    Service = {scripted, probed}
    TcpPort = {1, 2, 3}
    UdpPort = {11, 12}
    Uses <- ApartButTcp
    Setup <- TwoCommands
    UdpHealth = {probed}
    Fault = {"crash", "setup", "noexec", "collide", "coincide"}
    MaxFaults = 2
    None = None
INVARIANTS TypeOK
PROPERTIES Settles SetupTakesEffect
CHECK_DEADLOCK FALSE
