SPECIFICATION Spec
CONSTANTS
    BlockLen = 2
    MaxBlocks = 4
    CounterMod = 8
    Crc <- MCCrc
    Tag <- MCTag
    Image <- MCImage
    Leftovers <- MCLeftovers
    Noise = {0, 1, 2, 3}
    MaxFaults = 3
INVARIANTS TypeOK BlocksInOrder ZerosDrop NeverRefused
PROPERTY Uploads
