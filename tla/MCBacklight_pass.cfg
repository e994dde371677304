SPECIFICATION LightFairSpec
CONSTANTS
    Touchers = {lvgl}
    Hosts = {usb}
    Timeouts = {0, 5}
    Levels = {50, 200, 256}
    Unset = unset
INVARIANTS
    LightTypeOK
    SleepComes
    SettingsAgree
PROPERTIES
    LightComesBack
