SPECIFICATION Spec
CONSTANTS
    Len = 3
    PoolStart = 2
    PoolEnd = 7
    Sizes <- AllSizes
    PartialFrees = TRUE
INVARIANT RunValidation
