SPECIFICATION Spec
CONSTANTS
    BlockLen = 1
    Calls = {"key"}
    Plaintexts <- MCPlaintexts
    Keys <- MCZeroKey
    Unknown <- MCUnknown
    Leftovers <- MCLeftovers
    MaxCalls = 1
    MaxFaults = 0
    Faults = {}
    Slow = FALSE
    Settles = {"reset", "flush"}
    ConFlush = TRUE
INVARIANT KeyWasSent
