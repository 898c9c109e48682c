\* The same small database, for the FOREIGN KEY promise alone.
SPECIFICATION Spec
CONSTANTS
    p = p
    P = P
    q = q
    a = a
    b = b
    one = one
    true = true
    false = false
    Empty = Empty
    NoRef = NoRef
    Table = {p, P, q}
    Fold <- MCFold
    Column = {a, b}
    Slot = {s1, s2}
    Value = {one, true, false}
    IntForms = {one}
    TrueForms = {one, true}
    FalseForms = {false}
    True = true
    False = false
    ColumnDefs <- MCColumnDefs
    NewTypes <- MCNewTypes
    TableChecks <- MCTableChecks
    Literals <- MCLiterals
    MaxColumns = 3
    MaxRows = 2
    MaxCells = 2
    MaxSet = 1
    MaxAlters = 1
SYMMETRY SlotSymmetry
CHECK_DEADLOCK FALSE
INVARIANTS
    ReferencesHold
