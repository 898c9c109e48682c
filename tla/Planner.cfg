\* Queries over up to three tables; an index from three rows on.
SPECIFICATION Spec
CONSTANTS
    Empty = ""
    Cell <- MCCell
    IntCell <- MCIntCell
    NumCell <- MCNumCell
    Value <- MCValue
    TextRank <- MCTextRank
    Queries <- MCQueries
    Databases <- MCDatabases
    Schema <- MCSchema
    DefaultDivisor = 10
    IndexThreshold = 3
    TinySide = 1
    TinyProduct = 2
    Unit = 1000
CHECK_DEADLOCK FALSE
INVARIANTS
    PlansAgree
    NamesResolve
    OnAppliedOnce
