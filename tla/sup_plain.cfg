SPECIFICATION FairSpec
CONSTANTS
    n1 = n1  n2 = n2  front = front  back = back
    Node <- SingleNode
    NoNode = NoNode
    BackendOf <- SingleBackend
    AnyConnect = {n1}
    Pid = {p1, p2}
    NoPid = NoPid
    Caller = {c1, c2}
    Ticker = ticker
    Requests = {"stop", "lost"}
    Breakable = {n1}
    MaxRestarts = 3
    MaxCrashes = 2
INVARIANTS TypeOK AtMostOneProcess RuntimeHonest
PROPERTIES FailedWaits StartTakesEffect
