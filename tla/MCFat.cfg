CONSTANTS
    a = a
    b = b
    c = c
    d1 = d1
    d2 = d2
    NClst = 4
    FatPer = 2
    DirPer = 2
    RootSects = 2
    Csize = 2
    Names = {a, b, c}
    Long = {b, c}
    SubNames = {b}
    Docs = {d1, d2}
    DocLen <- MCDocLen
    MaxCalls = 3
    MaxCrashes = 1
SPECIFICATION Spec
INVARIANTS
    CrashConsistent
    
    WholeTexts
    WindowCoherent
PROPERTIES
    CallsReturn
    
