\* Inputs of up to three rows, with the engine's thresholds scaled down.
SPECIFICATION Spec
CONSTANTS
    Empty = ""
    Cell <- MCCell
    IntCell <- MCIntCell
    NumCell <- MCNumCell
    Value <- MCValue
    TextRank <- MCTextRank
    Inputs <- MCInputs
    MaxRows = 3
    TinySide = 1
    TinyProduct = 3
    MergeSide = 3
CHECK_DEADLOCK FALSE
INVARIANTS
    TypeOK
    SizesKeepTheAnswer
    OutputKeepsPace
    RepeatsOnlyResidual
PROPERTIES
    ImplementsRelationalJoin
    OpenProgresses
