SPECIFICATION Spec
CONSTANTS
    User = {u1}
    Sampler = {ticker, panel}
    None = None
    DaysPerMonth = 2
    Quota = {0}
    ResetDay = {1}
    MaxBytes = 3
    MaxDay = 0
    MaxRequests = 0
    MaxFaults = 0
INVARIANTS NeverOvercounts
