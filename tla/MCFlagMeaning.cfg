SPECIFICATION Spec
CONSTANTS
    MaxWidth = 5
    Pow2 <- PowersOfTwo
    NoExpr = NoExpr
    Concretes <- SomeConcretes
    InputWidth = 2
    InputTypes <- SmallTypes
    MaxShift = 2
    MaxObjects = 3
CHECK_DEADLOCK FALSE
INVARIANT
    FlagMeansPreserved
