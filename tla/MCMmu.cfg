SPECIFICATION Spec
CONSTANTS
    p0 = p0
    p1 = p1
    rom = rom
    scr = scr
    io = io
    NoPage = NoPage
    NoFrame = NoFrame
    Pages = {p0, p1}
    Frames = {rom, scr, io}
    ZeroPage = p0
    Identity <- MCIdentity
    Region <- MCRegion
    Chunk <- MCChunk
    VideoChunks = {"02"}
    Domains = {"d"}
    FaultDesc <- MCFault
    Descs <- MCDescs
    Tables = {"t"}
    DacValues <- MCDac
    RsValues = {"00"}
    TlbSize = 1
    VaSize = 2
INVARIANTS
    Fresh
    Covered
    SlotsDistinct
PROPERTIES
    ScreenWritesSeen
