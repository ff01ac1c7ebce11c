SPECIFICATION Spec
CONSTANTS
    Ends = {a, b}
    Nobody = nobody
    Requests = {r1}
    MaxCalls = 2
    MaxFaults = 0
SYMMETRY Symmetries
CHECK_DEADLOCK FALSE
PROPERTIES HeldIsKept
