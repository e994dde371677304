SPECIFICATION FairSpec
CONSTANTS
    Hosts = {usb}
    Nets = {home, work}
    NoNet = none
    Provisioned = TRUE
    OverHttp = FALSE
    Overlap = FALSE
    MaxEvents = 2
INVARIANTS
    TypeOK
    SettlesAsConfigured
    NeverStranded
PROPERTIES
    NothingHangs
