\* Every upload goes through an upload session of one-row parts while a person saves; fair.
CONSTANTS
    r1 = r1
    r2 = r2
    r3 = r3
    c1 = c1
    c2 = c2
    lower = lower
    Requests = {r1, r2, r3}
    Clients = {c1}
    ClientOf <- OneProcess
    Names = {lower}
    NameOf <- OneSpelling
    Kind <- AppendRowRow
    Saves = {p1}
    Original = o
    SIMPLE_UPLOAD_LIMIT = 0
    UPLOAD_CHUNK = 1
    MAX_FILE = 2
    MAX_RETRIES = 1
    EXCEL_APPEND_ATTEMPTS = 2
    MaxLost = 1
    MaxDeletes = 0
    MaxCrashes = 0
SPECIFICATION FairSpec
INVARIANTS
    LandsAtMostOnce
PROPERTIES
    LostOnlyToOldSession
    EveryRequestAnswered
