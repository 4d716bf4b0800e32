SPECIFICATION Spec
CONSTANTS
    Client = {c1, c2, c3}
    Exchange = {e1}
    Path = {p1, p2}
    Fault = {"refuse", "reset", "frame"}
    MaxFaults = 1
    None = None
SYMMETRY Symmetry
INVARIANTS TypeOK NoDeadLink WaitingIsHeard OwnBackend
PROPERTIES LinkIsFinal ClosedWithCause
CHECK_DEADLOCK FALSE
