CONSTANTS
    Addrs = {a1, a2}
    NoAddr = NoAddr
    Offers <- MCOneOffer
    NotGiven = NotGiven
    Minute = 2
    MaxTicks = 4
    SelectTries = 1
    MaxReq = 1
    MaxRep = 2
SPECIFICATION DhcpSpec
INVARIANTS
    LeaseKept
