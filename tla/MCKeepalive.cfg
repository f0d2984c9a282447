CONSTANTS
    KeepaliveInterval = 5
    PeerCleanupInterval = 5
    PeerTimeout = 15
    MaxDelay = 1
    MaxSetup = 3
    MaxLost = 1
SPECIFICATION Spec
INVARIANTS PeerStays
