SPECIFICATION Spec
CONSTANTS
    Len = 5
    PoolStart = 2
    PoolEnd = 8
    Sizes <- SmallSizes
    PartialFrees = FALSE
INVARIANTS
    TypeOK
    NoDisconnectedNode
    NoOverlap
    ListsSorted
    RunValidation
    AgreesWithCaller
PROPERTIES
    FirstFitByAddress
    FailedFreeChangesNothing
    HeapSpec
