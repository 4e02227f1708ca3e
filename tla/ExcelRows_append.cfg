\* Two requests in either mode, on any small sheet with any table on it.
CONSTANTS
    Requests = {r1, r2}
    Blank = Blank
    Old = Old
    MaxRow = 6
    MaxCol = 4
    FirstRows = 2
    FirstCol = 2
    LastCol = 3
    Headers <- TwoHeaders
    RowsToAdd <- SomeRows
    LETTERS = 2
    MAX_SCAN_CELLS = 8
    MAX_RETRIES = 1
    EXCEL_APPEND_ATTEMPTS = 2
    MaxMoves = 1
SYMMETRY RequestSymmetry
SPECIFICATION Spec
INVARIANTS
    TypeOK
    TableRowsStayInTable
    LandsOncePerAttempt
PROPERTIES
    DataLostOnlyToStaleRow
    RowIsAtTheEnd
