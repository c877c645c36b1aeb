CONSTANTS
    Limiters = {v1, v2, v3}
    U32Max <- MCU32Max
    TableEntry <- MCTableEntry
    Requests <- MCRequests
SPECIFICATION Spec
SYMMETRY Symmetry
INVARIANT LowWaterIsExact
PROPERTY ImplementsBudget
INVARIANT MemoryConserved
