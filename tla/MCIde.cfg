SPECIFICATION IdeSpec
CONSTANTS
    Cap = 3
    BlockSize = 2
    Spts = {1, 2}
    Hpcs = {2}
    MaxCount = 2
    Packets <- MCPackets
    Abandons = FALSE
    MaxWritten = 1
CONSTRAINT Bound
INVARIANT ChannelInv
PROPERTIES CommandsEnd Transfers
