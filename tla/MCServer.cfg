SPECIFICATION FairSpec
CONSTANTS
    r1 = r1
    r2 = r2
    a1 = a1
    a2 = a2
    ClientRandoms = {r1, r2}
    Addrs = {a1}
    WindowSize = 2
    MaxPeers = 2
    MaxSend = 1
    MaxHandshakes = 2
    MaxRestarts = 1
    IOFails = TRUE
    NetworkSize = 8
    PeerTimeout = 1
    CleanupInterval = 1
    MaxLag = 1
    ClientSequences <- OneSequence
INVARIANTS
    TypeOK
    StoreConsistent
    KeyedBeforeRouted
    WelcomeHonoured
    PromptRemoval
    NonceFresh
    StopsForCause
PROPERTIES
    KeptWhileHeard
    RemovedForGood
    SilentPeerRemoved
