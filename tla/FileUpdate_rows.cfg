\* append_excel_row from two processes while a person saves; files fit a single PUT.
CONSTANTS
    r1 = r1
    r2 = r2
    r3 = r3
    c1 = c1
    c2 = c2
    lower = lower
    Requests = {r1, r2, r3}
    Clients = {c1, c2}
    ClientOf <- TwoProcesses
    Names = {lower}
    NameOf <- OneSpelling
    Kind <- ThreeRows
    Saves = {p1}
    Original = o
    SIMPLE_UPLOAD_LIMIT = 4
    UPLOAD_CHUNK = 1
    MAX_FILE = 4
    MAX_RETRIES = 1
    EXCEL_APPEND_ATTEMPTS = 2
    MaxLost = 1
    MaxDeletes = 0
    MaxCrashes = 0
SPECIFICATION Spec
INVARIANTS
    TypeOK
    OneAppendPerLock
    RetryNeedsOutsider
    GaveUpNeedsChanges
    NoRowLost
