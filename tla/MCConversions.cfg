SPECIFICATION Spec
CONSTANTS
    MaxWidth = 8
    Number <- NumberOf
    ByteBits = 2
    NativeWidths = {2, 4}
    Longest = 4
    WidestVec = 6
    VecTypes <- SmallTypes
    MaxBytes = 4
    Buffers <- SmallBuffers
CHECK_DEADLOCK FALSE
INVARIANTS
    TypeOK
    RoundTrips
PROPERTY
    ImplementsNumbers
