SPECIFICATION Spec
CONSTANTS
    r1 = r1
    r2 = r2
    a1 = a1
    a2 = a2
    ClientRandoms = {r1}
    Addrs = {a1}
    WindowSize = 2
    MaxPeers = 1
    MaxSend = 2
    MaxHandshakes = 2
    MaxRestarts = 0
    IOFails = FALSE
    NetworkSize = 8
    PeerTimeout = 1
    CleanupInterval = 1
    MaxLag = 0
    ClientSequences <- NoSequences
SYMMETRY Symmetry
INVARIANTS
    WelcomeIsFirst
