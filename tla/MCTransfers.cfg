SPECIFICATION FairSpec
CONSTANTS
    Registers = {0, 1, 14, 15}
    Banked = {14}
    Modulus = 8
    PageWords = 2
    Offsets = {1}
    Bases = {1, 14, 15}
    Instructions <- MCInstructions
    Layouts <- MCLayouts
    Machines <- MCMachines
    Contents <- MCContents
    MaxTaken = 1
INVARIANT Restartable
INVARIANT BaseAfterAbort
INVARIANT PopsWhatItPushed
PROPERTY Completes
CHECK_DEADLOCK FALSE
