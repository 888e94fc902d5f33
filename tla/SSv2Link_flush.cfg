SPECIFICATION Spec
CONSTANTS
    BlockLen = 1
    Calls = {"list"}
    Plaintexts <- MCPlaintexts
    Keys <- MCKeys
    Unknown <- MCUnknown
    Leftovers <- MCLeftovers
    MaxCalls = 1
    MaxFaults = 0
    Faults = {}
    Slow = TRUE
    Settles = {"reset", "flush"}
    ConFlush = TRUE
INVARIANT FlushAsConnected
