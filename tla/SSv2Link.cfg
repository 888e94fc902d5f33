SPECIFICATION Spec
CONSTANTS
    BlockLen = 1
    Calls = {"pt", "errs", "errs3", "key", "bad", "list"}
    Plaintexts <- MCPlaintexts
    Keys <- MCKeys
    Unknown <- MCUnknown
    Leftovers <- MCLeftovers
    MaxCalls = 2
    MaxFaults = 1
    Faults = {"overrun", "noise", "loss", "garble"}
    Slow = TRUE
    Settles = {"reset", "flush", "glitch"}
    ConFlush = TRUE
INVARIANTS TypeOK InStep TargetInStep OkMeansRan
PROPERTIES FrameByteResyncs Promise
