SPECIFICATION Spec
CONSTANTS
    blankImage = blankImage
    a = a
    b = b
    c = c
    Keys = {k1}
    Images <- MCImages
    Blank = blankImage
    None = None
    Capacity = 2
    MaxFaults = 0
    MaxSessions = 0
    OnePage = FALSE
PROPERTIES
    SkipsOnlyShown
