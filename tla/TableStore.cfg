\* Tables of up to three rows, an index from two rows on, three writes to a table.
SPECIFICATION Spec
CONSTANTS
    one = one
    padded = padded
    Empty = Empty
    Table = {t1}
    Column = {a, b}
    Cell = {Empty, one, padded}
    Number <- MCNumber
    NotNumber = NotNumber
    IndexThreshold = 2
    MaxRows = 3
    MaxWrites = 3
CHECK_DEADLOCK FALSE
INVARIANTS
    TypeOK
    CacheCoherent
    PathsAgree
PROPERTIES
    ImplementsIndexedTable
