CONSTANTS
    Ids <- MCIds
    Kind <- MCKind
    Size <- MCSize
    InitActions <- MCInitActions
    Actions <- MCActions
    MainId = "main"
    CodeSize = 1
    FileMapping = 1
    Memory <- MCMemory
    MaxVms = 2
    MaxNondet = 1
SPECIFICATION Spec
INVARIANT OnlyScopedRunners
