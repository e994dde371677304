SPECIFICATION FairSpec
CONSTANTS
    Hosts = {usb}
    Nets = {home, work}
    NoNet = none
    Provisioned = TRUE
    OverHttp = TRUE
    Overlap = FALSE
    MaxEvents = 2
PROPERTIES
    ApplyEnds
CHECK_DEADLOCK FALSE
