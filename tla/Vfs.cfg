CONSTANTS
    MaxFds = 5
    FdAllocation = 1
    Memory = 2
    Lengths <- MCLengths
    Tree <- MCTree
    Paths <- MCPaths
    Offsets <- MCOffsets
SPECIFICATION Spec
INVARIANT MemoryAccounted
PROPERTY OpenFdsKeepContents
INVARIANT DescriptorsSound
