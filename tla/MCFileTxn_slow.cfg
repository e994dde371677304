SPECIFICATION FairSpec
CONSTANTS
    screen = screen
    image = image
    prefsFile = prefsFile
    c1 = c1
    c2 = c2
    usb = usb
    uart = uart
    NoPath = NoPath
    Absent = Absent
    Emptied = Emptied
    Paths <- MCPaths
    RamPaths <- MCRamPaths
    PrefsPath = prefsFile
    HostPaths <- MCHostPaths
    ScreenPaths <- MCScreenPaths
    Clients = {c1}
    Links = {usb}
    LinkOf <- OneLink
    Savers = {lvgl}
    HandleSpace = 3
    NChunks = 2
    MaxSaves = 3
    MaxDeletes = 0
    MaxPrefs = 0
    MaxReboots = 0
    FlashFaults = FALSE
    RamOom = TRUE
    SlowDevice = TRUE
INVARIANTS
    TypeOK
PROPERTIES
    ImplementsAtomicFiles
    EveryCommandAnswered
