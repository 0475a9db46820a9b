SPECIFICATION Spec
CONSTANTS
    MaxChanged = 2
    r8 = r8
    r14 = r14
    start = start
    vec = start
    Unbanked = {}
    FiqBanked <- MCFiqBanked
    Banked <- MCBanked
    Link = r14
    Flags = {0, 1}
    Pcs <- MCPcs
    NoPc = start
    Vector <- MCVector
    Kinds = {1, 3}
    Values <- MCValues
    Psrs <- MCPsrs
    ResetPc = start
    ResetProg32 = TRUE
CONSTRAINT Bound
INVARIANT BanksSwitched
PROPERTIES RegisterFile UserModeConfined
