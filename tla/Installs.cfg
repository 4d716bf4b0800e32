SPECIFICATION OrderedFairSpec
CONSTANTS
    a1 = a1
    a2 = a2
    b = b
    h = h
    u = u
    n = n
    Package = {a1, a2, b, h, u, n}
    Call = {1, 2, 3}
    File = {"f1", "f2", "f3", "f4"}
    Resolved <- OneVersion
    Assets <- SharedFile
    Local <- OneCopy
    Kind <- AllKinds
    Fault = {"crash", "download", "cut"}
    MaxFaults = 2
    None = None
INVARIANTS TypeOK RecordedAfterExtraction DoneWasRecorded InTurnWholeUnlessSpoiled
PROPERTIES InstallConcludes FollowsRepository
CHECK_DEADLOCK FALSE
