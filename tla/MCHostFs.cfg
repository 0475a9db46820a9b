SPECIFICATION Spec
CONSTANTS
    Paths <- MCPaths
    Rank <- MCRank
    TypeSuffixes = {",ffd"}
    Bytes = {0}
    MaxLen = 1
    MaxOpen = 2
    Retypes = FALSE
INVARIANTS HostFsInv NamesUnique ListingComplete
PROPERTY Filing
CONSTRAINT Bound
