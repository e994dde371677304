SPECIFICATION FairSpec
CONSTANTS
    Controls <- MCControls
    Macros <- MCMacros
    OnTap <- MCOnTap
    OnHold <- MCOnHold
    OnHoldRelease <- MCOnHoldRelease
    OnMove <- MCOnMove
    OnTwoFingers <- MCOnTwoFingers
    QueueDepth = 2
    MaxFingers = 2
    Sleeps = TRUE
INVARIANTS TypeOK PressHasRelease
PROPERTIES OutputEnds
