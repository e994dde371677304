SPECIFICATION Spec
CONSTANTS
    Dispatchers = {"d1", "d2"}
    Screens = {"home"}
    DefaultScreens = {"home"}
    Widgets = {"page"}
    Images = {}
    RamFiles = {}
    Slots = {"sp"}
    SlotsIn <- SlotsInDef
    Configured <- ConfiguredDef
    ImageSlots = {}
    NamedSlots = {"sp"}
    Overridden = {}
    NoScreen = "none"
    BuiltIn = "built-in"
    PerSlice = 2
    OldHosts = FALSE
    TimerOom = FALSE
    SaveFails = FALSE
    MaxChanges = 0
    MaxReboots = 0
INVARIANTS NoLostUpdate
CHECK_DEADLOCK FALSE
