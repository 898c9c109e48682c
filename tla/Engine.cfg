\* Up to three columns and two rows over all tables, two ALTER TABLEs.
SPECIFICATION Spec
CONSTANTS
    p = p
    P = P
    q = q
    a = a
    b = b
    one = one
    true = true
    false = false
    Empty = Empty
    NoRef = NoRef
    Table = {p, P, q}
    Fold <- MCFold
    Column = {a, b}
    Slot = {s1, s2}
    Value = {one, true, false}
    IntForms = {one}
    TrueForms = {one, true}
    FalseForms = {false}
    True = true
    False = false
    ColumnDefs <- MCColumnDefs
    NewTypes <- MCNewTypes
    TableChecks <- MCTableChecks
    Literals <- MCLiterals
    MaxColumns = 3
    MaxRows = 2
    MaxCells = 2
    MaxSet = 1
    MaxAlters = 2
SYMMETRY SlotSymmetry
CHECK_DEADLOCK FALSE
INVARIANTS
    TypeOK
    SchemaAgrees
    OwnConstraintsHold
    ForeignKeysResolve
    NamesUnambiguous
    KeysNotNull
PROPERTIES
    OrphansOnlyByRewrite
