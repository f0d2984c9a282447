SPECIFICATION Spec
CONSTANTS
    r1 = r1
    r2 = r2
    a1 = a1
    a2 = a2
    ClientRandoms = {r1, r2}
    Addrs = {a1, a2}
    WindowSize = 2
    MaxPeers = 2
    MaxSend = 1
    MaxHandshakes = 2
    MaxRestarts = 0
    IOFails = FALSE
    NetworkSize = 4
    PeerTimeout = 3
    CleanupInterval = 1
    MaxLag = 0
    ClientSequences <- NoSequences
SYMMETRY Symmetry
INVARIANTS
    OnlyIOEndsServer
