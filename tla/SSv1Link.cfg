SPECIFICATION Spec
CONSTANTS
    BlockLen = 2
    Program <- MCProgram
    Calls = {"pt", "errs", "key", "mask", "bad", "list"}
    Plaintexts <- MCPlaintexts
    Keys <- MCKeys
    Masks <- MCMasks
    Unknown <- MCUnknown
    Leftovers <- MCLeftovers
    XCount = 2
    MaxCalls = 2
    MaxFaults = 1
    Faults = {"overrun", "overflow", "loss"}
    Slow = {"pt", "errs", "key", "mask", "bad"}
INVARIANTS TypeOK InStep ListIsTable
PROPERTY Promise
