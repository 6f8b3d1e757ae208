SPECIFICATION HostSpec
CONSTANTS
    Browser = {r1, r2}
    Password = {dflt, p1, p2}
    Default = dflt
    NoPassword = NoPassword
    MaxFailures = 2
    MaxPasswordChanges = 3
    MaxLogins = 5
    Node = {n1}
    Port = {1, 2}
    Pool = {1, 2}
    MaxOps = 3
    MaxFaults = 1
    Worker = {r1, r2}
    KeepBackups = 1
    MaxArchives = 3
    MaxEdits = 1
    MaxMishaps = 1
    Install = {r1, r2}
    Existing = Existing
    Absent = Absent
    Member = {x1, x2}
    MaxNodeEdits = 1
    MaxSetbacks = 1
    Cert = {x1, x2}
    NoCert = NoCert
    Plan = {1, 2, 3}
    Rejected = {3}
    Task = {r1, r2}
    MaxTasks = 2
    MaxBad = 2
    MaxBreaks = 1
    Vpn = {r1, r2}
    Title = {x1, x2}
    User = {u1}
    Nobody = Nobody
    MaxFiles = 1
    MaxMixed = 1
    MaxChanges = 1
    MaxRefusals = 2
    Width = 4
    Special <- SpecialUse
    MinBits = 1
    MinRoutes = 2
    MinAddresses = 3
    MaxAddresses = 12
    MaxRoutes = 3
    MaxRecords = 2
SYMMETRY HostSymmetry
INVARIANTS HostTypeOK SessionsCurrent VPNServes RestoreAtomic RestorePrepared BinaryKept NodesMoveTogether CertificateTaken ApplyRestores ImportTaken ChangeUndone RoutesExact
PROPERTIES ImplementsTable
CHECK_DEADLOCK FALSE
