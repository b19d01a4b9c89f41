SPECIFICATION Spec
CONSTANTS
    Len = 4
    PoolStart = 2
    PoolEnd = 6
    Sizes <- AllSizes
    PartialFrees = TRUE
INVARIANTS
    RunValidation
PROPERTIES
    HeapSpec
