CONSTANTS
    Ring = 32
    Margin = 12
    CaprWrap = 64
    Lead = 8
    MaxLength = 12
    Fallback = 6
    Frames <- MCFrames
    N = 3
    Cap = 3
    MaxTx = 4
    Packets = {p1, p2}
    Lengths = {0, 2, 5}
    MaxQueue = 4
    Wrap = 6
    Batch = 2
    Gap = 1
    WaitLimit = 1
    Hz = 1
    Second = 2
    Threshold = 4
    FrameTicks = 2
    MaxLate = 1
    Addrs = {a1}
    NoAddr = NoAddr
    Offers <- MCOffers
    NotGiven = NotGiven
    Minute = 2
    MaxTicks = 4
    SelectTries = 1
    MaxReq = 1
    MaxRep = 2
    Cyclic <- MCCyclic
    Clock = 128
    Hosts = {h1, h2, h3}
    Gateway = h1
    Outside = Outside
    Macs = {m1, m2}
    Ids = {1, 2}
    ARP_TABLE_SIZE = 2
    ARP_MAXAGE = 4
    ARP_MAXPENDING = 2
    RerequestAge = 1
    None = None
SPECIFICATION NetworkSpec
INVARIANTS
    InputIsOldest
    NothingOverwritten
    NoFalseAlarm
    AddressLeased
    TimersOnTime
    PacketsAccounted
    SentToHost
PROPERTIES
    RingRecovers
    WireInOrder
    HandedIsSent
    IconSettles
    BoundAgain
    QueryEnds
