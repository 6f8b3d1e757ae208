SPECIFICATION Spec
CONSTANTS
    s1 = s1  f1 = f1  f2 = f2  any = any  lo = lo
    Id <- Nodes
    Type <- Types
    Endpoint <- Endpoints
    Name = {a, b}
    None = None
    AnyHost = any
    KeepRevisions = 2
    MaxRevision = 3
    Caller = {c1, c2}
    MaxRequests = 2
    MaxFaults = 1
SYMMETRY Symmetry
INVARIANTS TypeOK BackendServes RevisionRecorded PortsExclusive AppliedIsStored
PROPERTIES RevisionsAdvance
