SPECIFICATION Spec
CONSTANTS
    Dispatchers = {"d1"}
    Screens = {"home", "other"}
    DefaultScreens = {"home"}
    Widgets = {"page"}
    Images = {}
    RamFiles = {"page"}
    Slots = {"sp"}
    SlotsIn <- SlotsInDef
    Configured <- ConfiguredDef
    ImageSlots = {}
    NamedSlots = {}
    Overridden = {}
    NoScreen = "none"
    BuiltIn = "built-in"
    PerSlice = 2
    OldHosts = TRUE
    TimerOom = FALSE
    SaveFails = TRUE
    MaxChanges = 0
    MaxReboots = 1
INVARIANTS NoLostUpdate DefaultIsRegistered ShownIsPersisted
CHECK_DEADLOCK FALSE
