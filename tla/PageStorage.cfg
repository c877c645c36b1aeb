CONSTANTS
    Slots <- MCSlots
    NPages = 3
    PageSize = 2
    CacheSize = 2
    StagingSize = 1
    FeePages = 2
    Writes <- MCWrites
SPECIFICATION Spec
INVARIANT ReadReturnsContents
INVARIANT StorageIsContents
INVARIANT DeltaIsPages
INVARIANT CacheAndFeesExact
