SPECIFICATION Spec
CONSTANTS
    Client = {c1, c2}
    Exchange = {e1}
    Path = {p1, p2}
    Fault = {"refuse"}
    MaxFaults = 0
    None = None
SYMMETRY Symmetry
INVARIANTS PathKept
CHECK_DEADLOCK FALSE
