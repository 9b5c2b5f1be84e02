CONSTANTS
    D = 1
    P = 3
    BLOCK_SIZE = 2
    NBlocks = 13
    Kept = {0, 5, 8}
    MaxOthers = 1
    MaxPast = 3
    Lengths = {0, 2, 11}
    MaxMapped = 1
    Cuts = {0, 7}
    Sizes = {15}
    Byte <- MCByte
    Buffers <- MCBuffers
    Holes <- MCHoles
    ZERO = ZERO
    JUNK = JUNK
    LOST = LOST
SPECIFICATION Spec
INVARIANTS BlocksAccountedFor NothingPastEnd FailsOnlyWhenFull
PROPERTIES ActsAsByteFile
