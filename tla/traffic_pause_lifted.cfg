SPECIFICATION Spec
CONSTANTS
    Node = {n1}
    Caller = {c1}
    None = None
    DaysPerMonth = 2
    Quota = {0}
    ResetDay = {1}
    Requests = {"pause"}
    MaxBytes = 1
    MaxDay = 0
    MaxRequests = 1
    MaxFaults = 0
INVARIANTS PauseHolds
