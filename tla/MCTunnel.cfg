SPECIFICATION TunnelSpec
CONSTANTS
    r1 = r1
    r2 = r2
    a1 = a1
    a2 = a2
    ClientRandoms = {r1, r2}
    Addrs = {a1}
    WindowSize = 2
    MaxPeers = 1
    MaxSend = 2
    MaxHandshakes = 2
    MaxRestarts = 1
    IOFails = FALSE
    NetworkSize = 8
    PeerTimeout = 1
    CleanupInterval = 1
    MaxLag = 0
    MaxClientSend = 3
    ClientSequences <- NoSequences
SYMMETRY Symmetry
INVARIANTS
    SessionAgreement
    PrivateDelivery
    AtMostOnce
    TunnelNonceFresh
