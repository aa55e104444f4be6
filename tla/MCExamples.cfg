SPECIFICATION Spec
CONSTANTS
    MaxWidth = 24
    Pow2 <- PowersOfTwo
    AdderWidth = 6
    FactorWidth = 4
    DataWidth = 8
    AmountWidth = 3
    MaxWrites = 2
    SampleValues <- Extremes
    InitialBuffers <- Buffers
    SmallNumber <- NumberOf
    ValuesOf <- Numbers
    VecsOf <- Vectors
    SourceWidth = 16
    OffsetWidth = 4
    WideWidth = 24
CHECK_DEADLOCK FALSE
INVARIANTS
    CircuitTypes
    ChainAddsLowBits
    CircuitIsSum
    RowsAddUp
    CircuitIsProduct
    LayersShiftByLowBits
    CircuitIsShift
    GettersReadTheWire
    LinesComputeTheirMeaning
    EveryBitIsPlaced
PROPERTY
    ViewsAreARecord
