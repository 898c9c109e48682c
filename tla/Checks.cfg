\* The constraints of one table: how they are read, and what becomes of its
\* CHECKs.  A CREATE TABLE that fails is the end of a behaviour.
SPECIFICATION Spec
CHECK_DEADLOCK FALSE
CONSTANTS
    MaxRows = 2
    NewName = "c"
    Empty = ""
    Declarations <- MCDeclarations
    LaterChecks <- MCLaterChecks
    Names <- MCNames
    StringWord <- MCStrings
    Rows <- MCRows
    Cell <- MCWords
    IntCell <- MCNumbers
    NumCell <- MCNumbers
    JsonNumber <- MCJsonNumber
    Value <- MCValue
    TextRank <- MCTextRank
INVARIANTS
    VerdictIsTheTruth
    RowsSatisfyTheirChecks
    SaveSettles
    StartsAgain
    DeclarationKept
