\* Violation: a query that gets a dead pooled connection is answered with a blank 500.
CONSTANTS
    w1 = w1
    w2 = w2
    q3 = q3
    Queries = {q1}
    Workers = {w1}
    WorkerOf <- OneWorker
    Conns = {k1, k2}
    NoConn = NoConn
    POOL_MIN = 1
    POOL_MAX = 2
    MaxBreaks = 1
    Sensitive <- SensitiveFields
    Results <- OneRow
SPECIFICATION Spec
INVARIANT NoBlankError
