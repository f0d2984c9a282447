CONSTANTS
    server = server
    s1 = s1
    s2 = s2
    ServerIP = server
    Remotes = {server, s1, s2}
    OwnHosts = {s1}
    Metrics = {0, 1}
    Faults <- AnyFault
    MaxStarts = 2
    Width = 4
    NameLen = 3
    Names <- AllNames
SPECIFICATION Spec
INVARIANTS
    BypassHolds
    DefaultKept
    UndoMatchesDo
    RefusedForCause
    Restores
    MasqueradeExact
    PoolSound
