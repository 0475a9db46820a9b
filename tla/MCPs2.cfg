SPECIFICATION Spec
CONSTANTS
    Size = 2
    Keys = {"plain", "extended"}
    Long = 2
    Short = 1
    MaxCommands = 1
    Rates = {80, 100, 200}
    Resend = 3
    Places <- MCPlaces
    Boxes <- MCBoxes
    Offsets <- MCOffsets
    Screens <- MCScreens
    Numbers = {0, 1, 5}
    Idles = TRUE
    Devices = {"keyboard", "mouse", "hack"}
INVARIANTS Ps2Inv
PROPERTIES CursorStays TransmitEnds KeysFlow
