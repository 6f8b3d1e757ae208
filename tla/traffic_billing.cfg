SPECIFICATION Spec
CONSTANTS
    Node = {n1, n2}
    Caller = {c1}
    None = None
    DaysPerMonth = 2
    Quota = {0}
    ResetDay = {1}
    Requests = {"reset", "stop", "start", "edit"}
    MaxBytes = 2
    MaxDay = 2
    MaxRequests = 1
    MaxFaults = 1
SYMMETRY NodeSymmetry
INVARIANTS NeverOvercounts ProjectWithinNodes
