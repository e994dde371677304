SPECIFICATION Spec
CONSTANTS
    Pad <- Corners
    Span <- MCSpan
    Angle <- MCAngle
    Trackpads <- MCTrackpads
    MaxFingers = 3
    Delays = {0, 1}
    MaxAge = 2
PROPERTIES
    DragIsNoClick
