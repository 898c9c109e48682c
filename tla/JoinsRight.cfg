\* The joins a query can run: the planner's algorithm is never overridden.
SPECIFICATION Spec
CONSTANTS
    Empty = ""
    Cell <- MCCell
    IntCell <- MCIntCell
    NumCell <- MCNumCell
    Value <- MCValue
    TextRank <- MCTextRank
    Inputs <- MCPlanned
    MaxRows = 2
    TinySide = 1
    TinyProduct = 3
    MergeSide = 3
CHECK_DEADLOCK FALSE
INVARIANTS
    RightJoinIsARightJoin
