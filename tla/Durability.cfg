\* Two tables, two statements, every fault.
SPECIFICATION FairSpec
CONSTANTS
    wide = wide
    narrow = narrow
    full = full
    s1 = s1
    lossy = lossy
    refused = refused
    Table = {t1, t2}
    Slot = {s1, s2}
    Metadata = Metadata
    Layout = {wide, narrow}
    Shorter <- MCShorter
    Narrow = {narrow}
    Rules <- MCRules
    Legible = {Inferred, lossy}
    Reloaded <- MCReloaded
    Inferred = Inferred
    Row = {Blank, full}
    Blank = Blank
    Cut <- MCCut
    LegacyFiles <- MCLegacyFiles
    Faults = {"crash", "open", "write"}
    MaxStatements = 2
    Character <- MCCharacter
    CsvHeaders <- MCCsvHeaders
    CsvRows <- MCCsvRows
CHECK_DEADLOCK FALSE
INVARIANTS
    TypeOK
    FilesMatch
    RestartKeepsData
    SavedTablesReadBack
    CutFilesAreKnown
PROPERTIES
    BootKeepsTables
    BootEnds
