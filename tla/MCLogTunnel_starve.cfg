SPECIFICATION FairSpec
CONSTANTS
    Tasks = {t1}
    Links = {usb}
    LogDepth = 1
    EvtDepth = 2
    MaxLines = 1
    MaxEvents = 0
    BusyUI = TRUE
PROPERTIES
    LogsDelivered
