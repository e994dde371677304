SPECIFICATION Spec
CONSTANTS
    Dispatchers = {"d1"}
    Screens = {"home"}
    DefaultScreens = {"home"}
    Widgets = {"page"}
    Images = {}
    RamFiles = {}
    Slots = {"sp"}
    SlotsIn <- SlotsInDef
    Configured <- ConfiguredDef
    ImageSlots = {}
    NamedSlots = {"sp"}
    Overridden = {"sp"}
    NoScreen = "none"
    BuiltIn = "built-in"
    PerSlice = 2
    OldHosts = FALSE
    TimerOom = FALSE
    SaveFails = FALSE
    MaxChanges = 0
    MaxReboots = 0
INVARIANTS OverrideWorn
CHECK_DEADLOCK FALSE
