CONSTANTS
    Size = 3
    Keys = {a, dead, bs}
    Dead = {dead}
    Backspace = bs
    a = a
    dead = dead
    bs = bs
    Shifts = {lsh, rsh}
    lsh = lsh
    rsh = rsh
    NUL = NUL
    NkInputMax = 4
    MaxEvents = 6
    Config <- MCConfig
    Scancodes <- MCScancodes
    Packets <- MCPackets
    EarlyInput = FALSE
    gfx_width = 510
    gfx_height = 410
    MaxKeys = 2
    MaxPackets = 2
    Radix = 2
    NibRadix = 2
    Words = 2
    Starts <- MCStarts
    MaxCount = 2
    Data <- MCData
    Undef = Undef
    Payloads <- MCPayloads
    Contents <- MCContents
    CanFail = TRUE
SPECIFICATION DevicesSpec
INVARIANTS
    InputAsSent
    ReadIsDisk
    WriteIsOnDisk
PROPERTIES
    AcceptedIsPopped
    ImplementsFifo
    InputArrives
    OnlyTargetChanges
    CallReturns
