\* The same directory when nothing but a crash can go wrong.
SPECIFICATION Spec
CONSTANTS
    wide = wide
    narrow = narrow
    full = full
    s1 = s1
    lossy = lossy
    refused = refused
    Table = {t1, t2}
    Slot = {s1}
    Metadata = Metadata
    Layout = {wide, narrow}
    Shorter = {}
    Narrow = {narrow}
    Rules <- MCRules
    Legible = {Inferred, lossy}
    Reloaded <- MCReloaded
    Inferred = Inferred
    Row = {Blank, full}
    Blank = Blank
    Cut = {}
    LegacyFiles <- MCLegacyFiles
    Faults = {"crash"}
    MaxStatements = 2
    Character <- MCCharacter
    CsvHeaders <- MCCsvHeaders
    CsvRows <- MCCsvRows
CHECK_DEADLOCK FALSE
INVARIANTS
    SchemaFilesAgree
