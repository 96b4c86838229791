CONSTANTS
    Config <- MCConfig
    Scancodes <- MCScancodes
    Packets <- MCPackets
    EarlyInput = TRUE
    gfx_width = 510
    gfx_height = 410
    MaxKeys = 1
    MaxPackets = 1
SPECIFICATION Ps2Spec
INVARIANTS
    ConfigKept
