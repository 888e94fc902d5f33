SPECIFICATION Spec

CONSTANTS
    Offset = 10
    Samples = 4
    Depth = 4
    EdgeSensitive = TRUE
    MessageClocks = 6
    ForceClocks = 12
    UserInterrupts = TRUE
    ClockMayStop = TRUE

INVARIANT TypeOK
INVARIANT OneShot
INVARIANT OkMeansWhole
INVARIANT FirstStatusSeesArm
INVARIANT LeavesUnitAlone
PROPERTY OnEdgeOnly
PROPERTY CallsReturn
