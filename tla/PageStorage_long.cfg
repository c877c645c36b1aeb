CONSTANTS
    Slots <- MCOneSlot
    NPages = 4
    PageSize = 2
    CacheSize = 2
    StagingSize = 1
    FeePages = 1
    Writes <- MCOneWrite
SPECIFICATION Spec
INVARIANT ReadReturnsContents
