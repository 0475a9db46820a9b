SPECIFICATION Spec
CONSTANTS
    Bits = 2
    Device = 1
    Registers = {0}
    Times <- MCTimes
    Commit = 1
    Settings = {2}
    Words = {0, 3}
INVARIANT BusInv
PROPERTIES ByteMemory
