SPECIFICATION Spec
CONSTANTS
    Dispatchers = {"d1"}
    Screens = {"home"}
    DefaultScreens = {"home"}
    Widgets = {"page"}
    Images = {"pic"}
    RamFiles = {"pic"}
    Slots = {"sp", "si"}
    SlotsIn <- SlotsInDef
    Configured <- ConfiguredDef
    ImageSlots = {"si"}
    NamedSlots = {"sp"}
    Overridden = {}
    NoScreen = "none"
    BuiltIn = "built-in"
    PerSlice = 2
    OldHosts = FALSE
    TimerOom = FALSE
    SaveFails = FALSE
    MaxChanges = 1
    MaxReboots = 0
INVARIANTS TypeOK NoLostUpdate OneRefreshPerFile
CHECK_DEADLOCK FALSE
