\* Four tables with the constants of the program.
SPECIFICATION Spec
CONSTANTS
    Empty = ""
    Cell <- MCCell
    IntCell <- MCIntCell
    NumCell <- MCNumCell
    Value <- MCValue
    TextRank <- MCTextRank
    Queries <- ChainQueries
    Databases <- ChainDatabases
    Schema <- ChainSchema
    DefaultDivisor = 10
    IndexThreshold = 256
    TinySide = 32
    TinyProduct = 4096
    Unit = 1000
CHECK_DEADLOCK FALSE
INVARIANTS
    RowsSatisfyOn
