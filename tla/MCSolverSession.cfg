SPECIFICATION Spec
CONSTANTS
    MaxWidth = 3
    Pow2 <- PowersOfTwo
    Symbols <- MixedSymbols
    Concretes <- SomeConcretes
    CastTypes <- SomeTypes
    MaxObjects = 3
    MaxDepth = 1
CHECK_DEADLOCK FALSE
INVARIANTS
    TypeOK
    ReadsCompare
    AssertionsReadTrue
    NamesIdentifyVariables
    AssertedCastsKeepValues
