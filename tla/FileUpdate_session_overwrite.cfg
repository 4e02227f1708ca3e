\* Violation: a change saved while an upload session runs is overwritten.
CONSTANTS
    r1 = r1
    r2 = r2
    r3 = r3
    c1 = c1
    c2 = c2
    lower = lower
    Requests = {r1}
    Clients = {c1}
    ClientOf <- OneProcess
    Names = {lower}
    NameOf <- OneSpelling
    Kind <- OneAppend
    Saves = {p1}
    Original = o
    SIMPLE_UPLOAD_LIMIT = 1
    UPLOAD_CHUNK = 1
    MAX_FILE = 4
    MAX_RETRIES = 1
    EXCEL_APPEND_ATTEMPTS = 2
    MaxLost = 0
    MaxDeletes = 0
    MaxCrashes = 0
SPECIFICATION Spec
INVARIANTS
    NoRowLost
