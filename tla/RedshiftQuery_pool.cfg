\* Four concurrent queries in two processes, on pools of one to two connections that
\* may break.
CONSTANTS
    w1 = w1
    w2 = w2
    q3 = q3
    Queries = {q1, q2, q3, q4}
    Workers = {w1, w2}
    WorkerOf <- TwoWorkers
    Conns = {k1, k2, k3, k4}
    NoConn = NoConn
    POOL_MIN = 1
    POOL_MAX = 2
    MaxBreaks = 2
    Sensitive <- SensitiveFields
    Results <- OneRow
SYMMETRY PoolSymmetry
SPECIFICATION Spec
INVARIANTS
    TypeOK
    UsedIsHeld
    PoolWithinLimit
    CleanHandover
    TrueOutcome
    AuditMatchesResponse
    SensitiveStaysHidden
