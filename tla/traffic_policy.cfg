SPECIFICATION FairSpec
CONSTANTS
    Node = {n1}
    Caller = {c1}
    None = None
    DaysPerMonth = 2
    Quota = {0, 1}
    ResetDay = {2}
    Requests = {"pause", "reset", "quota", "projectPause", "projectReset", "projectQuota", "start", "stop"}
    MaxBytes = 1
    MaxDay = 1
    MaxRequests = 2
    MaxFaults = 1
INVARIANTS TypeOK
PROPERTIES ManualPauseSticks PolicyReachesKernel QuotaEnforced NextPeriodResumes
