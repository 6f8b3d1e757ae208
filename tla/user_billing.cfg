SPECIFICATION FairSpec
CONSTANTS
    User = {u1}
    Sampler = {ticker}
    None = None
    DaysPerMonth = 2
    Quota = {0, 2}
    ResetDay = {1, 2}
    MaxBytes = 4
    MaxDay = 2
    MaxRequests = 2
    MaxFaults = 1
INVARIANTS TypeOK NeverOvercounts PausedIffOver
PROPERTIES OverQuotaDisconnected
