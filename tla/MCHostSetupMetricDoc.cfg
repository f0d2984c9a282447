CONSTANTS
    server = server
    s1 = s1
    s2 = s2
    ServerIP = server
    Remotes = {server, s1, s2}
    OwnHosts = {}
    Metrics = {1}
    Faults <- NoFault
    MaxStarts = 1
    Width = 4
    NameLen = 3
    Names <- AllNames
SPECIFICATION Spec
INVARIANTS
    DefaultRestored
