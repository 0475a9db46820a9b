\* The guest changes the screen size while the video thread draws.
SPECIFICATION VidcSpec
CONSTANTS
    Threads = {"emu"}
    NPages = 2
    v1 = v1
    v2 = v2
    c1 = c1
    c2 = c2
    normal = normal
    wide = wide
    Vals = {v1}
    Palettes = {c1}
    Sizes = {normal, wide}
    Clamp <- McClamp
    NoSize = NoSize
    Border = Border
    Junk = Junk
    Spurious = FALSE
INVARIANT PlotsLiveBitmap
CHECK_DEADLOCK TRUE
