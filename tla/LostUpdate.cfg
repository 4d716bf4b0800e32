SPECIFICATION OrderedFairSpec
CONSTANTS
    a1 = a1
    a2 = a2
    b = b
    h = h
    u = u
    n = n
    Package = {a1, b}
    Call = {1, 2}
    File = {"f1", "f2", "f3", "f4"}
    Resolved <- OneVersion
    Assets <- SharedFile
    Local <- OneCopy
    Kind <- AllKinds
    Fault = {"crash"}
    MaxFaults = 0
    None = None
INVARIANTS NothingForgotten
CHECK_DEADLOCK FALSE
