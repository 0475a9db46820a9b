\* One timer that counts by one, one other device; registers of each kind;
\* GP register d for the guest; two slots; three files.
SPECIFICATION Spec
CONSTANTS
    Bits = {"TIMER_0", "KEYBOARD_RX", "FORCE", "SMI", "PARALLEL", "SERIAL", "PODULE", "PODULE_FIQ_AS_IRQ", "FIQ_PODULE"}
    Group <- MCGroup
    Timers = {"TIMER_0"}
    Asking = {"KEYBOARD_RX"}
    Latches = {0, 1}
    Tick = 1
    Floor <- MCFloor
    Held = {"SUSMODE", "DMAEXT", "MOUSEX", "VIDCUR", "VIDINIT", "VIDCR", "DRAMCR"}
    Words = {65861, 536870936}
    GpIndexes = {"d"}
    ConfigRegs = {"plain", "d"}
    Slots = 2
    Elapsed = 2
    Periods = {1}
    MaxRoms = 3
    Description = 22
    Lengths = {0, 1, 6, 4194000, 17000000}
    Parts = {"timers", "registers", "superio", "podules", "rom"}
CONSTRAINT OneAtATime
INVARIANTS
    IoBusInv
    ReadsBack
    ChunksApart
PROPERTIES
    InterruptsFollow
    TimersTick
    KeyOpens
    BytesSignalled
    MouseHeard
