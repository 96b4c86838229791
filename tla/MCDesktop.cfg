CONSTANTS
    Wrap = 4
    Apps = {naoedit, other}
    HasFrames = TRUE
    LaunchDelay = 1
    NoApp = NoApp
    OpDelay = 2
    MaxText = 4
    Paths = {p1}
    Docs = {d1}
    Sizes = {1}
    Editor = naoedit
    Absent = Absent
    VolumeFails = TRUE

SPECIFICATION Spec

INVARIANTS
    SpinnerHasReason

PROPERTIES
    DelaysEnd
