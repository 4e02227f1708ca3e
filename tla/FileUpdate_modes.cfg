\* write_file in modes a, x and w, with deletions and a killed process; single PUTs.
CONSTANTS
    r1 = r1
    r2 = r2
    r3 = r3
    c1 = c1
    c2 = c2
    lower = lower
    Requests = {r1, r2, r3}
    Clients = {c1}
    ClientOf <- OneProcess
    Names = {lower}
    NameOf <- OneSpelling
    Kind <- AppendCreateReplace
    Saves = {p1}
    Original = o
    SIMPLE_UPLOAD_LIMIT = 3
    UPLOAD_CHUNK = 1
    MAX_FILE = 3
    MAX_RETRIES = 1
    EXCEL_APPEND_ATTEMPTS = 1
    MaxLost = 1
    MaxDeletes = 1
    MaxCrashes = 1
SPECIFICATION Spec
INVARIANTS
    LandsAtMostOnce
    AnswerIsTrue
PROPERTIES
    ImplementsLedger
