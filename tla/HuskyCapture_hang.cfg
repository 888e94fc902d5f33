SPECIFICATION Spec
CONSTANTS
    Dlen = 5
    Segment = 2
    Capacity = 2
    Streams = 1
    Glitches = {}
    MaxGlitches = 0
    ClockRuns = FALSE
    MaxInterrupts = 0
PROPERTY CaptureTimesOut
