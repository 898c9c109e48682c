\* The operators above the joins, on every statement of MCPipeline.
\* A statement ends: there is no next step, which is not a deadlock.
SPECIFICATION Spec
CONSTANTS
    MaxNumber = 400
    MaxLong = 240
    Empty = ""
    Queries <- MCQueries
    RangeCell <- MCRangeCell
    LongCell <- MCLongCell
    One <- MCOne
    Spell <- MCSpell
    Cell <- MCCell
    IntCell <- MCIntCell
    NumCell <- MCNumCell
    Value <- MCValue
    TextRank <- MCTextRank
CHECK_DEADLOCK FALSE
INVARIANTS
    GroupsAreExact
    AnswerOrdered
    AnswerComplete
    FailureHasACause
