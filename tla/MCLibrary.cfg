SPECIFICATION LibrarySpec
CONSTANTS
    Peer = {p1, p2, p3}
    Quorum = 2
    Timeout = 2
    MaxBack = 3
    MaxSetBacks = 2
    EpochCycle = 3
    KeyBits = 3
    BucketSize = 2
    MaxCount = 2
    Local <- MCLocal
    Key = {k1, k2, k3}
    MaxEntries = 2
    Stamp = {1, 2}
    Ttl = {0, 1}
    MaxEpoch = 2
    TrackedPeer = {p1, p2}
    RoundTrip = {1, 4}
    History = 2
    TrimEvery = 3
    MaxAccepted = 6
    Position = {0, 1, 6, 12}
    Offset = {0, 2002, 200002}
    BaseResolution = 2
    ScaleFactor = 4
    Levels = 3
    GridSize = 10
    MaxBeacons = 3
    LastEpoch = 2
    TimePoint = {0, 1, 2, 3, 4}
    MaxIntervals = 5
    NsPerSecond = 3
    Fractions = 8
    EraSeconds = 8
    UnixToNtp = 5
    MaxNs = 60
    Defect = {0, 1, 9}
    Unknown = 9
    Me = 1
    Reference = 2
    Clock <- MCClock
    Hearable <- MCHearable
    AnchorNode = {a1, a2, a3, a4}
    Liar = a1
    Claim = {1, 4}
    Lie = {0, 12, 25, 28, 100}
    MinSpread = 1
    ClusterK = 4
    MinSurvivors = 3
    NodeOffset <- MCNodeOffset
    DriftPpb <- MCDriftPpb
    MaxReports = 2
    PrevTime = {0, 5}
    EpochNs = 3
    Ppb = 2
    Tolerance = 4
    MaxIterations = 7
    U64 = 1024
    d1 = d1
    d2 = d2
    Times = {0, 1, 2, 5, 11}
    Digest = {d1, d2}
    U64Max = 15
    MaxTicks = 4
INVARIANTS
    TypeOK
    StreamVerifies
    StrictlyMonotone
    TamperEvident
    KnowsNeighbours
    StorageBounded
    KeepsNewest
    EveryBeaconCountsOnce
    HintsAgree
    FindsMajority
    EraResolved
    DecodesAllChannels
    CyclesExposeErrors
    OneLiarHarmless
    MirrorsMeet
PROPERTIES
    AdvancesForCause
    ManagerAdvances
    ImplementsSurfaceClock
CHECK_DEADLOCK FALSE
