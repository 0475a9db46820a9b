\* One page, one size, no spurious wakeups: does the window catch up, does vsync keep coming?
SPECIFICATION VidcFairSpec
CONSTANTS
    Threads = {"emu"}
    NPages = 1
    v1 = v1
    v2 = v2
    c1 = c1
    c2 = c2
    normal = normal
    wide = wide
    Vals = {v1, v2}
    Palettes = {c1, c2}
    Sizes = {normal}
    Clamp <- McClampOne
    NoSize = NoSize
    Border = Border
    Junk = Junk
    Spurious = FALSE
PROPERTIES ScreenCatchesUp VsyncKeepsComing
CHECK_DEADLOCK TRUE
