CONSTANTS
    a = a
    dot = dot
    Names = {a, dot}
    Dotted = {dot}
    MaxItems = 2
    MaxObjects = 3
    Trees <- MCFile
    Saves <- MCSaves
    NoName = NoName
SPECIFICATION ExplorerSpec
PROPERTIES
    DeletesPicked
