SPECIFICATION FairSpec
CONSTANTS
    Tasks = {t1, t2}
    Links = {usb}
    LogDepth = 1
    EvtDepth = 1
    MaxLines = 3
    MaxEvents = 2
    BusyUI = FALSE
INVARIANTS
    TypeOK
    NoSilentLoss
    CountedOnce
    NewestInOrder
PROPERTIES
    LogsDelivered
