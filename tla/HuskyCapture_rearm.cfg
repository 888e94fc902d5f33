SPECIFICATION Spec
CONSTANTS
    Dlen = 5
    Segment = 2
    Capacity = 3
    Streams = 2
    Glitches = {}
    MaxGlitches = 0
    ClockRuns = TRUE
    MaxInterrupts = 0
PROPERTY ArmErrorDisconnects
