SPECIFICATION Spec
CONSTANTS
    screen = screen
    image = image
    prefsFile = prefsFile
    c1 = c1
    c2 = c2
    usb = usb
    uart = uart
    NoPath = NoPath
    Absent = Absent
    Emptied = Emptied
    Paths <- MCPaths
    RamPaths <- MCRamPaths
    PrefsPath = prefsFile
    HostPaths <- MCHostPaths
    ScreenPaths <- MCScreenPaths
    Clients = {c1}
    Links = {usb}
    LinkOf <- OneLink
    Savers = {lvgl}
    HandleSpace = 8
    NChunks = 2
    MaxSaves = 2
    MaxDeletes = 0
    MaxPrefs = 0
    MaxReboots = 0
    FlashFaults = TRUE
    RamOom = FALSE
    SlowDevice = TRUE
INVARIANTS
    WholeFiles
