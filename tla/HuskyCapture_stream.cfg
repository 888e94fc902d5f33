SPECIFICATION Spec
CONSTANTS
    Dlen = 5
    Segment = 2
    Capacity = 2
    Streams = 2
    Glitches = {"error", "zero", "eintr"}
    MaxGlitches = 2
    ClockRuns = TRUE
    MaxInterrupts = 0
INVARIANTS TypeOK OkMeansWhole InOrder NothingInFlight
PROPERTIES NoneForgotten ArmWorksAfterCapture CallsReturn
