SPECIFICATION Spec
CONSTANTS
    BASE_4KB = 2
    HUGE_2MB = 4
    HUGE_1GB = 8
    Top = 30
    PoolSizes = {6, 16}
    Layouts <- PlausibleLayouts
    MaxForeign = 1
CHECK_DEADLOCK FALSE
INVARIANTS
    TypeOK
    RegionWithinReservation
    ValidOffsetsAreMapped
    MappedIsPrefix
    SizeIsWhatIsNeeded
    GrowingKeepsContents
PROPERTIES
    OnlyGrowingTakesForeignPages
    RegionSpec
