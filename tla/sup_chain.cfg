SPECIFICATION Spec
CONSTANTS
    n1 = n1  n2 = n2  front = front  back = back
    Node <- Chain
    NoNode = NoNode
    BackendOf <- ChainBackends
    AnyConnect = {}
    Pid = {p1, p2}
    NoPid = NoPid
    Caller = {c1}
    Ticker = ticker
    Requests = {"start", "stop", "restart"}
    Breakable = {}
    MaxRestarts = 1
    MaxCrashes = 1
SYMMETRY PidSymmetry
INVARIANTS ShutdownStopsAll ShutdownFrontsFirst
PROPERTIES BackendFirst
