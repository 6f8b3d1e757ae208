SPECIFICATION FairSpec
CONSTANTS
    n1 = n1  n2 = n2  front = front  back = back
    Node <- SingleNode
    NoNode = NoNode
    BackendOf <- SingleBackend
    AnyConnect = {}
    Pid = {p1, p2}
    NoPid = NoPid
    Caller = {c1}
    Ticker = ticker
    Requests = {"stop"}
    Breakable = {}
    MaxRestarts = 1
    MaxCrashes = 0
PROPERTIES StopTakesEffect
