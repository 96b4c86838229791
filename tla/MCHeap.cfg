CONSTANTS
    HeapBytes = 84
    HDR = 12
    UNIT = 8
    MinTail = 8
    WordMod = 256
    Requests <- MCRequests
SPECIFICATION FairSpec
INVARIANTS
    Partition
    Coalesced
    PanicJustified
PROPERTIES
    CallsEnd
    ImplementsAPI
