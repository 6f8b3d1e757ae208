SPECIFICATION FirewallSpec
CONSTANTS
    Node = {n1}
    Port = {1}
    Pool = {1, 2}
    MaxOps = 3
    MaxFaults = 1
INVARIANTS VPNPoolVisible
CHECK_DEADLOCK FALSE
