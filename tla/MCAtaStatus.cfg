CONSTANTS
    Radix = 2
    NibRadix = 2
    Words = 2
    Starts <- MCStarts
    MaxCount = 2
    Data <- MCData
    Undef = Undef
    Payloads <- MCPayloads
    Contents <- MCContents
    CanFail = TRUE
SPECIFICATION AtaFairSpec
INVARIANTS
    OkMeansSuccessful
