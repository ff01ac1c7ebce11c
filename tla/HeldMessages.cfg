SPECIFICATION Spec
CONSTANTS
    Ends = {a, b}
    Nobody = nobody
    Requests = {r1, r2}
    MaxCalls = 3
    MaxFaults = 1
SYMMETRY Symmetries
CHECK_DEADLOCK FALSE
INVARIANTS NoPlainInSealed NotBeforeTheyAgree AcceptDelivers
PROPERTIES HoldOutlastsRefusal
