CONSTANTS
    Wrap = 3
    Apps = {naoedit}
    HasFrames = FALSE
    LaunchDelay = 0
    NoApp = NoApp
    OpDelay = 1
    MaxText = 4
    Paths = {p1, p2}
    Docs = {d1}
    Sizes = {1, 3}
    Editor = naoedit
    Absent = Absent
    VolumeFails = FALSE
    a = a
    dot = dot
    Names = {a, dot}
    Dotted = {dot}
    MaxItems = 1
    MaxObjects = 3
    Trees <- MCTrees
    Saves <- MCSaves
    NoName = NoName
SPECIFICATION AppsSpec
INVARIANTS
    
    ViewerOwns
PROPERTIES
    OnlyConfirmedSaves
    SavedSecurely
    WalksTree
    NothingElseLost
