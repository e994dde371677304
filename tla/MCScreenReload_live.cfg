SPECIFICATION FairSpec
CONSTANTS
    Dispatchers = {"d1"}
    Screens = {"home"}
    DefaultScreens = {"home"}
    Widgets = {"page"}
    Images = {}
    RamFiles = {"page"}
    Slots = {"sp"}
    SlotsIn <- SlotsInDef
    Configured <- ConfiguredDef
    ImageSlots = {}
    NamedSlots = {"sp"}
    Overridden = {"sp"}
    NoScreen = "none"
    BuiltIn = "built-in"
    PerSlice = 2
    OldHosts = FALSE
    TimerOom = TRUE
    SaveFails = FALSE
    MaxChanges = 1
    MaxReboots = 1
PROPERTIES CatchesUp
CHECK_DEADLOCK FALSE
