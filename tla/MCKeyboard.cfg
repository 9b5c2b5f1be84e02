CONSTANTS
    Size = 3
    Used <- MCUsed
    MaxBehind = 1
SPECIFICATION Spec
INVARIANTS KeysTracked
PROPERTIES BufferIsFifo
