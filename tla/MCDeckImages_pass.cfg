SPECIFICATION Spec
CONSTANTS
    blankImage = blankImage
    a = a
    b = b
    c = c
    Keys = {k1}
    Images <- MCImages
    Blank = blankImage
    None = None
    Capacity = 2
    MaxFaults = 2
    MaxSessions = 1
    OnePage = FALSE
INVARIANTS
    TypeOK
    EvictsTheOldest
    RecordsAreTrue
SYMMETRY MCSymmetry
