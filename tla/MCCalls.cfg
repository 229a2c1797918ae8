CONSTANTS
    alice = alice
    bob = bob
    me = me
    a1 = a1
    a2 = a2
    Devices = {alice, bob, me}
    Me = me
    Target = alice
    Addresses = {a1, a2}
    AnnounceEvery = 2
    ExpireAfter = 6
    MaxPeers = 1
    MaxDelay = 1
    MaxMoves = 1
    MaxLost = 1
    MaxTime = 6
    ScanTime = 5
    MaxFrames = 3
    DrainLimit = 3
SPECIFICATION MCSpec
INVARIANTS
    NameMeansFriend
    ScanHearsWhoIsThere
    AudioMeansAnswered
PROPERTY
    RingingEnds
CHECK_DEADLOCK FALSE
