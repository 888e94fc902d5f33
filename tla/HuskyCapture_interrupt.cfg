SPECIFICATION Spec
CONSTANTS
    Dlen = 5
    Segment = 2
    Capacity = 3
    Streams = 3
    Glitches = {"zero", "eintr"}
    MaxGlitches = 1
    ClockRuns = FALSE
    MaxInterrupts = 2
INVARIANTS OkMeansWhole NothingInFlight
PROPERTY CallsReturn
