\* Two sizes, spurious wakeups, the machine thread alone: is a changed page ever missed?
SPECIFICATION VidcSpec
CONSTANTS
    Threads = {"emu"}
    NPages = 2
    v1 = v1
    v2 = v2
    c1 = c1
    c2 = c2
    normal = normal
    wide = wide
    Vals = {v1}
    Palettes = {c1, c2}
    Sizes = {normal, wide}
    Clamp <- McClamp
    NoSize = NoSize
    Border = Border
    Junk = Junk
    Spurious = TRUE
INVARIANTS NothingMissed BuffersApart
CHECK_DEADLOCK TRUE
