SPECIFICATION Spec
CONSTANTS
    MaxWidth = 5
    Number <- NumberOf
    SizeValues = 16
    NoExpr = NoExpr
    Amounts <- SomeAmounts
    Offsets <- SomeOffsets
    InputTypes <- SmallTypes
    MaxTurn = 4
    MaxObjects = 3
CHECK_DEADLOCK FALSE
INVARIANTS
    TypeOK
    ReplaceFormsAgree
    FieldsAreIndependent
    RotationsCancel
PROPERTY
    ImplementsBitArrays
