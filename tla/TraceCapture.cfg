SPECIFICATION TraceSpec
CONSTANTS
    BlockLen = 1
    Program <- MCProgram
    Calls = {"pt", "key"}
    Plaintexts <- MCPlaintexts
    Keys <- MCKeys
    Masks = {}
    Unknown = {}
    Leftovers <- MCLeftovers
    XCount = 2
    MaxCalls = 2
    MaxFaults = 1
    Faults = {"overrun", "loss"}
    Slow = {"pt", "key"}
    UserInterrupts = TRUE
    AlwaysSend = FALSE
 
 
PROPERTY TraceReturns
