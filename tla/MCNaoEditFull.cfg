CONSTANTS
    Wrap = 3
    Apps = {naoedit}
    HasFrames = FALSE
    LaunchDelay = 0
    NoApp = NoApp
    OpDelay = 1
    MaxText = 4
    Paths = {p1, p2}
    Docs = {d1}
    Sizes = {1, 3}
    Editor = naoedit
    Absent = Absent
    VolumeFails = TRUE

SPECIFICATION Spec


PROPERTIES
    SavedSecurely
