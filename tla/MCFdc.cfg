SPECIFICATION Spec
CONSTANTS
    Size = 2
    LastSector = 1
    Tracks = {0}
    Drives = {0}
    Values = {0, 1}
    MaxChanged = 1
CONSTRAINT Bound
INVARIANT FdcInv
PROPERTIES FloppyController CommandsEnd
